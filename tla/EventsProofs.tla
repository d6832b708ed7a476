---------------------------- MODULE EventsProofs ----------------------------
(***************************************************************************)
(* Safety of the processes that make and handle events, for any number of  *)
(* changes, faults, events, messages and attempts: what a broker forgets   *)
(* was handled, what was stopped is quiet, and events are posted in order. *)
(*                                                                         *)
(* And of the commands that make the resources, `spec apply` among them:   *)
(* an apply touches its own resources only, brings about its specs unless  *)
(* somebody interferes, and commands that run one after the other keep the *)
(* cluster consistent.                                                     *)
(***************************************************************************)
EXTENDS MCEvents, SpecApply, FiniteSetTheorems, TLAPS

(* At most one of the processes runs, and the state of the watcher is that *)
(* of the beginning when it does not.                                      *)
OneProcess ==
  /\ source # "none" => kind = "none" /\ at = "off"
  /\ kind # "none" => at = "off"

WatcherOff ==
  source # "watcher" =>
    kept = {} /\ \A u \in Uids : subs[u] = NoSubscription /\ late[u] = 0

-----------------------------------------------------------------------------
(* The publisher.                                                          *)

FirstAttempt(i) == queue[i].retries = Attempts

(* A request that was posted before is not newer than the newest.          *)
RepeatsAreOld ==
  /\ \A i \in 1 .. Len(queue) : FirstAttempt(i) \/ queue[i].event <= newest
  /\ \A r \in posting \union delayed : r.event <= newest
  /\ \A r \in delayed : r.retries < Attempts

FirstAttemptsSorted ==
  \A i, j \in 1 .. Len(queue) :
    i < j /\ FirstAttempt(i) /\ FirstAttempt(j) => queue[i].event < queue[j].event

NumbersUsed ==
  /\ newest <= published
  /\ \A i \in 1 .. Len(queue) : queue[i].event <= published

PublisherInv == RepeatsAreOld /\ FirstAttemptsSorted /\ NumbersUsed /\ FirstAttemptsInOrder

-----------------------------------------------------------------------------
(* The watcher.                                                            *)

(* There is one trigger at most, and the UIDs of triggers grow.            *)
UidsGrow ==
  /\ \A s, t \in trigger : s = t
  /\ \A t \in trigger : t.uid <= (changes + 2) \div 2

(* No trigger has the UID now, and none will.                              *)
Retired(u) ==
  /\ \A t \in trigger : u < t.uid
  /\ trigger = {} => u < (changes + 3) \div 2

TriggerUids == {t.uid : t \in trigger}

ListedKnown == \A u \in kept \union ListedUids : u \in TriggerUids \/ Retired(u)

UnlistedRetired == \A u \in kept \ ListedUids : Retired(u)

(* A subscription is stopped only when its trigger has gone for ever.      *)
StoppedRetired ==
  \A u \in Uids :
    subs[u].stopped \/ late[u] > 0 => Retired(u) /\ u \notin ListedUids

(* After its late event a loop reads the flag and ends.                    *)
LateEnds ==
  \A u \in Uids :
    late[u] > 0 => \/ subs[u].loop = "none"
                   \/ subs[u].stopped /\ subs[u].loop \in {"check", "ended"}

WatcherInv ==
  /\ UidsGrow /\ ListedKnown /\ UnlistedRetired /\ StoppedRetired /\ LateEnds
  /\ \A u \in Uids : late[u] <= 1

CronsListed == source = "timer" /\ phase = "list" => crons \subseteq listed

-----------------------------------------------------------------------------
(* The message queues.                                                     *)

OkIsGood == \A h \in handlers : h.ok => h.message \in good

HandlersSubscribed == kind = "azure" => \A h \in handlers : h.sub \in current

QueueInv == OkIsGood /\ HandlersSubscribed /\ HandledBeforeGone

EventsInv ==
  /\ TypeOK /\ OneProcess /\ WatcherOff
  /\ PublisherInv /\ WatcherInv /\ CronsListed /\ QueueInv
-----------------------------------------------------------------------------
(* What any step does to the trigger and to the list: users change the     *)
(* trigger, or a process lists it, or forgets its list.                    *)
ListStep ==
  \/ Change
  \/ /\ UNCHANGED <<trigger, changes>>
     /\ NoFault \/ Fault
     /\ UNCHANGED listed \/ listed' \subseteq trigger

LEMMA ChangeFacts ==
  ASSUME ListTypeOK, Change
  PROVE  /\ changes \in Nat /\ changes' = changes + 1 /\ UNCHANGED <<faults, listed>>
         /\ \/ /\ trigger = {}
               /\ trigger' = {[uid |-> (changes + 3) \div 2, rv |-> changes + 2]}
            \/ trigger # {} /\ trigger' = {}
            \/ \E t \in trigger : trigger' = {[t EXCEPT !.rv = changes + 2]}
BY DEF ListTypeOK, Change

LEMMA Small ==
  /\ Cardinality({}) <= 1
  /\ \A x : Cardinality({x}) <= 1
<1>1. Cardinality({}) = 0
  BY FS_EmptySet
<1>2. ASSUME NEW x PROVE Cardinality({x}) = 1
  BY FS_Singleton
<1> QED BY <1>1, <1>2

LEMMA ListTypes ==
  ASSUME ListTypeOK, ListStep
  PROVE  ListTypeOK'
<1> USE ListAssumption
<1>1. CASE Change
  <2> USE ChangeFacts, <1>1
  <2>1. changes' \in 0 .. MaxChanges /\ faults' \in 0 .. MaxFaults /\ listed' \in SUBSET Keys
    BY DEF ListTypeOK, Change
  <2>2. trigger' \in SUBSET Keys
    <3>1. changes < MaxChanges /\ changes \in Nat
      BY DEF Change
    <3>2. changes + 2 \in 1 .. MaxChanges + 1 /\ (changes + 3) \div 2 \in Uids
      BY <3>1 DEF Uids
    <3> QED BY <3>2 DEF ListTypeOK, Keys
  <2>3. Cardinality(trigger') <= 1
    BY Small
  <2> QED BY <2>1, <2>2, <2>3 DEF ListTypeOK
<1>2. CASE UNCHANGED <<trigger, changes>>
  BY <1>2 DEF ListStep, ListTypeOK, NoFault, Fault, Change
<1> QED BY <1>1, <1>2 DEF ListStep

LEMMA ListUids ==
  ASSUME ListTypeOK, UidsGrow, ListStep
  PROVE  /\ UidsGrow'
         /\ \A u \in Uids : Retired(u) => Retired(u)'
         /\ \A u \in Uids : u \in TriggerUids \/ Retired(u) => (u \in TriggerUids \/ Retired(u))'
<1>1. CASE Change
  <2>1. changes \in Nat /\ \A t \in trigger : t \in Keys /\ t.uid \in Nat
    BY ListAssumption, ChangeFacts, <1>1 DEF ListTypeOK, Keys, Uids
  <2>2. CASE trigger = {} /\ trigger' = {[uid |-> (changes + 3) \div 2, rv |-> changes + 2]}
    BY <1>1, <2>1, <2>2, ChangeFacts, ListAssumption DEF UidsGrow, Retired, TriggerUids, Uids
  <2>3. CASE trigger # {} /\ trigger' = {}
    <3>1. PICK t \in trigger : TRUE
      BY <2>3
    <3>2. t.uid <= (changes + 2) \div 2 /\ \A s \in trigger : s = t
      BY <3>1 DEF UidsGrow
    <3> QED BY <1>1, <2>1, <2>3, <3>1, <3>2, ChangeFacts, ListAssumption
            DEF UidsGrow, Retired, TriggerUids, Uids
  <2>4. ASSUME NEW t \in trigger, trigger' = {[t EXCEPT !.rv = changes + 2]}
        PROVE  /\ UidsGrow'
               /\ \A u \in Uids : Retired(u) => Retired(u)'
               /\ \A u \in Uids : u \in TriggerUids \/ Retired(u)
                                    => (u \in TriggerUids \/ Retired(u))'
    <3>1. [t EXCEPT !.rv = changes + 2].uid = t.uid
      BY <2>1 DEF Keys
    <3>2. \A s \in trigger' : s.uid = t.uid
      BY <2>4, <3>1
    <3>3. t.uid <= (changes + 2) \div 2 /\ \A s \in trigger : s = t
      BY DEF UidsGrow
    <3>4. t.uid <= (changes' + 2) \div 2
      BY <1>1, <2>1, <3>3, ChangeFacts
    <3>5. trigger' # {} /\ \A s, r \in trigger' : s = r
      BY <2>4
    <3> QED BY <2>4, <3>2, <3>3, <3>4, <3>5 DEF UidsGrow, Retired, TriggerUids
  <2> QED BY <1>1, <2>2, <2>3, <2>4, ChangeFacts
<1>2. CASE UNCHANGED <<trigger, changes>>
  BY <1>2 DEF UidsGrow, Retired, TriggerUids
<1> QED BY <1>1, <1>2 DEF ListStep

-----------------------------------------------------------------------------
(* What any step does to the publisher.                                    *)
PublisherStep ==
  \/ Publish \/ Post \/ Answer \/ Retry \/ PutBack \/ LosePublisher
  \/ UNCHANGED publisherVars

LEMMA QueueFacts ==
  ASSUME PublisherTypeOK
  PROVE  /\ Len(queue) \in Nat
         /\ \A i \in 1 .. Len(queue) : queue[i] \in Requests
         /\ \A r \in Requests : r.event \in Nat /\ r.retries \in 1 .. Attempts
         /\ published \in Nat /\ newest \in Nat /\ Attempts \in Nat
<1> USE PublisherAssumption
<1>1. Len(queue) \in Nat /\ \A i \in 1 .. Len(queue) : queue[i] \in Requests
  BY DEF PublisherTypeOK
<1>2. \A r \in Requests : r.event \in Nat /\ r.retries \in 1 .. Attempts
  BY DEF Requests, Events
<1>3. published \in Nat /\ newest \in Nat /\ Attempts \in Nat
  BY DEF PublisherTypeOK
<1> QED BY <1>1, <1>2, <1>3

LEMMA PutFacts ==
  ASSUME PublisherTypeOK, NEW r \in Requests, queue' = Append(queue, r)
  PROVE  /\ queue' \in Seq(Requests) /\ Len(queue') = Len(queue) + 1
         /\ \A i \in 1 .. Len(queue) : queue'[i] = queue[i]
         /\ queue'[Len(queue) + 1] = r
BY DEF PublisherTypeOK

LEMMA TakeFacts ==
  ASSUME PublisherTypeOK, queue # << >>, queue' = Tail(queue)
  PROVE  /\ queue' \in Seq(Requests) /\ Len(queue') = Len(queue) - 1 /\ Len(queue) > 0
         /\ \A i \in 1 .. Len(queue') : queue'[i] = queue[i + 1]
         /\ Head(queue) = queue[1] /\ queue[1] \in Requests
BY DEF PublisherTypeOK

LEMMA RequestFacts ==
  ASSUME PublisherTypeOK, Publish
  PROVE  /\ Request(published + 1) \in Requests
         /\ Request(published + 1).event = published + 1
         /\ Request(published + 1).retries = Attempts
BY PublisherAssumption DEF PublisherTypeOK, Publish, Request, Requests, Events

LEMMA PublisherTypes ==
  ASSUME PublisherTypeOK, PublisherStep
  PROVE  PublisherTypeOK'
<1> USE QueueFacts, PublisherAssumption
<1>1. CASE Publish
  <2>1. queue' \in Seq(Requests) /\ Len(queue') <= QueueSize
    BY <1>1, RequestFacts, PutFacts DEF Publish
  <2> QED BY <1>1, <2>1 DEF Publish, PublisherTypeOK
<1>2. CASE Post
  <2>1. queue' \in Seq(Requests) /\ Len(queue') <= QueueSize /\ Head(queue) \in Requests
    BY <1>2, TakeFacts DEF Post, PublisherTypeOK
  <2>2. Cardinality(posting') <= 1
    BY <1>2, Small DEF Post
  <2>3. newest' \in 0 .. MaxEvents
    BY <1>2, <2>1 DEF Post, PublisherTypeOK, Requests, Events
  <2> QED BY <1>2, <2>1, <2>2, <2>3 DEF Post, PublisherTypeOK
<1>3. CASE Answer
  BY <1>3, Small DEF Answer, PublisherTypeOK
<1>4. CASE Retry
  <2>1. \A r \in posting : r.retries > 1 => [r EXCEPT !.retries = @ - 1] \in Requests
    BY DEF PublisherTypeOK, Requests
  <2>2. delayed' \in SUBSET Requests
    BY <1>4, <2>1 DEF Retry, PublisherTypeOK
  <2> QED BY <1>4, <2>2, Small DEF Retry, PublisherTypeOK
<1>5. CASE PutBack
  <2>1. PICK r \in delayed :
          /\ queue' = Append(queue, r) /\ delayed' = delayed \ {r}
          /\ UNCHANGED <<published, posting, newest>> /\ Len(queue) < QueueSize
    BY <1>5 DEF PutBack
  <2>2. queue' \in Seq(Requests) /\ Len(queue') <= QueueSize
    BY <2>1, PutFacts DEF PublisherTypeOK
  <2> QED BY <2>1, <2>2 DEF PublisherTypeOK
<1>6. CASE LosePublisher
  BY <1>6, Small DEF LosePublisher, PublisherTypeOK
<1>7. CASE UNCHANGED publisherVars
  BY <1>7 DEF publisherVars, PublisherTypeOK
<1> QED BY <1>1, <1>2, <1>3, <1>4, <1>5, <1>6, <1>7 DEF PublisherStep

LEMMA PublisherSteps ==
  ASSUME PublisherTypeOK, PublisherTypeOK', PublisherInv, PublisherStep
  PROVE  PublisherInv'
<1> USE QueueFacts
<1>1. CASE Publish
  <2> DEFINE r == Request(published + 1)
  <2>1. r \in Requests /\ r.event = published + 1 /\ r.retries = Attempts
    BY <1>1, RequestFacts
  <2>2. UNCHANGED <<posting, delayed, newest>> /\ published' = published + 1
        /\ queue' = Append(queue, r)
    BY <1>1 DEF Publish
  <2> HIDE DEF r
  <2>3. /\ Len(queue') = Len(queue) + 1
        /\ \A i \in 1 .. Len(queue) : queue'[i] = queue[i]
        /\ queue'[Len(queue) + 1] = r
    BY <2>1, <2>2, PutFacts
  <2>4. RepeatsAreOld'
    BY <2>1, <2>2, <2>3 DEF PublisherInv, RepeatsAreOld, FirstAttempt
  <2>5. FirstAttemptsSorted'
    BY <2>1, <2>2, <2>3 DEF PublisherInv, FirstAttemptsSorted, NumbersUsed, FirstAttempt
  <2>6. NumbersUsed'
    BY <2>1, <2>2, <2>3 DEF PublisherInv, NumbersUsed
  <2>7. FirstAttemptsInOrder'
    BY <2>1, <2>2, <2>3 DEF PublisherInv, FirstAttemptsInOrder, NumbersUsed
  <2> QED BY <2>4, <2>5, <2>6, <2>7 DEF PublisherInv
<1>2. CASE Post
  <2> DEFINE h == queue[1]
  <2>1. UNCHANGED <<published, delayed>> /\ posting' = {h}
        /\ newest' = IF h.event > newest THEN h.event ELSE newest
    BY <1>2, TakeFacts DEF Post
  <2>2. /\ Len(queue') = Len(queue) - 1 /\ Len(queue) > 0 /\ h \in Requests
        /\ \A i \in 1 .. Len(queue') : queue'[i] = queue[i + 1]
    BY <1>2, TakeFacts DEF Post
  <2>3. newest' >= newest /\ newest' >= h.event /\ newest' \in Nat
    BY <2>1, <2>2
  <2>4. h.event <= published /\ (FirstAttempt(1) \/ h.event <= newest)
    BY <2>2 DEF PublisherInv, NumbersUsed, RepeatsAreOld
  <2>5. RepeatsAreOld'
    <3>1. ASSUME NEW i \in 1 .. Len(queue')
          PROVE  queue'[i].retries = Attempts \/ queue'[i].event <= newest'
      <4>1. i + 1 \in 1 .. Len(queue) /\ queue'[i] = queue[i + 1] /\ queue[i + 1].event \in Nat
        BY <2>2
      <4>2. queue[i + 1].retries = Attempts \/ queue[i + 1].event <= newest
        BY <4>1 DEF PublisherInv, RepeatsAreOld, FirstAttempt
      <4> QED BY <2>3, <4>1, <4>2
    <3>2. \A r \in delayed : r.event <= newest' /\ r.retries < Attempts
      BY <2>3 DEF PublisherInv, RepeatsAreOld, PublisherTypeOK
    <3> QED BY <2>1, <2>3, <3>1, <3>2 DEF RepeatsAreOld, FirstAttempt
  <2>6. FirstAttemptsSorted'
    <3> SUFFICES ASSUME NEW i \in 1 .. Len(queue'), NEW j \in 1 .. Len(queue'), i < j,
                        FirstAttempt(i)', FirstAttempt(j)'
                 PROVE  queue'[i].event < queue'[j].event
      BY DEF FirstAttemptsSorted
    <3>1. /\ i + 1 \in 1 .. Len(queue) /\ j + 1 \in 1 .. Len(queue) /\ i + 1 < j + 1
          /\ queue'[i] = queue[i + 1] /\ queue'[j] = queue[j + 1]
      BY <2>2
    <3> QED BY <3>1 DEF PublisherInv, FirstAttemptsSorted, FirstAttempt
  <2>7. NumbersUsed'
    BY <2>1, <2>2, <2>4 DEF PublisherInv, NumbersUsed
  <2>8. FirstAttemptsInOrder'
    <3> SUFFICES ASSUME NEW i \in 1 .. Len(queue'), queue'[i].retries = Attempts
                 PROVE  queue'[i].event > newest'
      BY DEF FirstAttemptsInOrder
    <3>1. i + 1 \in 1 .. Len(queue) /\ 1 \in 1 .. Len(queue) /\ FirstAttempt(i + 1)
          /\ queue'[i] = queue[i + 1] /\ queue[i + 1].event \in Nat
      BY <2>2 DEF FirstAttempt
    <3>2. queue[i + 1].event > newest
      BY <3>1 DEF PublisherInv, FirstAttemptsInOrder, FirstAttempt
    <3>3. queue[i + 1].event > h.event
      <4>1. CASE FirstAttempt(1)
        BY <2>2, <3>1, <4>1 DEF PublisherInv, FirstAttemptsSorted
      <4>2. CASE h.event <= newest
        BY <2>2, <3>1, <3>2, <4>2
      <4> QED BY <2>4, <4>1, <4>2
    <3> QED BY <2>1, <3>1, <3>2, <3>3
  <2> QED BY <2>5, <2>6, <2>7, <2>8 DEF PublisherInv
<1>3. CASE Answer
  BY <1>3 DEF Answer, PublisherInv, RepeatsAreOld, FirstAttemptsSorted, NumbersUsed,
              FirstAttemptsInOrder, FirstAttempt
<1>4. CASE Retry
  <2>1. UNCHANGED <<published, queue, newest>> /\ posting' = {}
    BY <1>4 DEF Retry
  <2>2. \A r \in delayed' : \/ r \in delayed
                            \/ \E p \in posting : r = [p EXCEPT !.retries = @ - 1]
    BY <1>4 DEF Retry
  <2>3. ASSUME NEW p \in posting
        PROVE  /\ [p EXCEPT !.retries = @ - 1].event <= newest
               /\ [p EXCEPT !.retries = @ - 1].retries < Attempts
    <3>1. p \in Requests /\ p.event <= newest
      BY DEF PublisherTypeOK, PublisherInv, RepeatsAreOld
    <3>2. [p EXCEPT !.retries = @ - 1].event = p.event
          /\ [p EXCEPT !.retries = @ - 1].retries = p.retries - 1
      BY <3>1 DEF Requests
    <3> QED BY <3>1, <3>2
  <2>4. \A r \in delayed' : r.event <= newest /\ r.retries < Attempts
    BY <2>2, <2>3 DEF PublisherInv, RepeatsAreOld
  <2>5. RepeatsAreOld'
    BY <2>1, <2>4 DEF PublisherInv, RepeatsAreOld, FirstAttempt
  <2> QED BY <2>1, <2>5 DEF PublisherInv, FirstAttemptsSorted, NumbersUsed,
                            FirstAttemptsInOrder, FirstAttempt
<1>5. CASE PutBack
  <2>1. PICK r \in delayed :
          /\ queue' = Append(queue, r) /\ delayed' = delayed \ {r}
          /\ UNCHANGED <<published, posting, newest>>
    BY <1>5 DEF PutBack
  <2>2. r \in Requests /\ r.event <= newest /\ r.retries < Attempts
    BY DEF PublisherTypeOK, PublisherInv, RepeatsAreOld
  <2>3. /\ Len(queue') = Len(queue) + 1
        /\ \A i \in 1 .. Len(queue) : queue'[i] = queue[i]
        /\ queue'[Len(queue) + 1] = r
    BY <2>1, <2>2, PutFacts
  <2>4. RepeatsAreOld'
    BY <2>1, <2>2, <2>3 DEF PublisherInv, RepeatsAreOld, FirstAttempt
  <2>5. FirstAttemptsSorted'
    <3>1. Len(queue) \in Nat
      BY DEF PublisherTypeOK
    <3>2. \A i \in 1 .. Len(queue') : i \in 1 .. Len(queue) \/ i = Len(queue) + 1
      BY <2>3, <3>1
    <3>3. \A i, j \in 1 .. Len(queue') : (i < j /\ FirstAttempt(i)' /\ FirstAttempt(j)') =>
             /\ i \in 1 .. Len(queue) /\ j \in 1 .. Len(queue)
             /\ FirstAttempt(i) /\ FirstAttempt(j)
      BY <2>2, <2>3, <3>1, <3>2 DEF FirstAttempt
    <3> QED BY <2>3, <3>3 DEF PublisherInv, FirstAttemptsSorted
  <2>6. NumbersUsed'
    BY <2>1, <2>2, <2>3 DEF PublisherInv, NumbersUsed
  <2>7. FirstAttemptsInOrder'
    BY <2>1, <2>2, <2>3 DEF PublisherInv, FirstAttemptsInOrder
  <2> QED BY <2>4, <2>5, <2>6, <2>7 DEF PublisherInv
<1>6. CASE LosePublisher
  BY <1>6 DEF LosePublisher, PublisherInv, RepeatsAreOld, FirstAttemptsSorted, NumbersUsed,
              FirstAttemptsInOrder, FirstAttempt
<1>7. CASE UNCHANGED publisherVars
  BY <1>7 DEF publisherVars, PublisherInv, RepeatsAreOld, FirstAttemptsSorted, NumbersUsed,
              FirstAttemptsInOrder, FirstAttempt
<1> QED BY <1>1, <1>2, <1>3, <1>4, <1>5, <1>6, <1>7 DEF PublisherStep

-----------------------------------------------------------------------------
(* The steps of the three kinds of processes, as the list and the          *)
(* publisher see them.                                                     *)
LEMMA SourceProjects ==
  ASSUME SourceNext
  PROVE  ListStep /\ PublisherStep
<1>1. CASE Changing
  BY <1>1 DEF Changing, ListStep, PublisherStep
<1>2. CASE Publishing
  BY <1>2 DEF Publishing, ListStep, PublisherStep, Fails
<1>3. CASE TimerSync \/ Tick
  BY <1>3 DEF TimerSync, TimerList, AddCrons, RemoveCrons, Tick, ListStep, PublisherStep,
              listVars, Fails, NoFault
<1>4. CASE Job
  BY <1>4 DEF Job, ListStep, PublisherStep, listVars, NoFault
<1>5. CASE WatchSync \/ ObjectChange
  BY <1>5 DEF WatchSync, WatchList, RemoveWatch, StopWatch, AddWatch, CopyWatch, ObjectChange,
              ListStep, PublisherStep, listVars, Fails, NoFault
<1>6. CASE Panic
  BY <1>6 DEF Panic, ListStep, PublisherStep
<1>7. ASSUME NEW u \in Uids, Loop(u) \/ Timeout(u)
      PROVE  ListStep /\ PublisherStep
  BY <1>7 DEF Loop, CheckStopped, Receive, PublishEvent, Closed, WatchError, RestartWatch,
              Timeout, Dispatch, ListStep, PublisherStep, listVars, NoFault
<1> QED BY <1>1, <1>2, <1>3, <1>4, <1>5, <1>6, <1>7 DEF SourceNext

LEMMA MQProjects ==
  ASSUME MQNext
  PROVE  ListStep
<1>1. CASE SyncTriggers
  BY <1>1 DEF SyncTriggers, ListTriggers, Subscribe, Subscribed, Unsubscribe, Drain, ListStep,
              listVars, Fails, NoFault
<1>2. CASE Deliver \/ Handle \/ Restart \/ MQChange
  BY <1>2 DEF Deliver, Handle, Attempt, Finish, Restart, MQChange, ListStep, listVars, NoFault
<1> QED BY <1>1, <1>2 DEF MQNext

LEMMA EnvProjects ==
  ASSUME EnvNext
  PROVE  ListStep
<1>1. CASE WatchStep \/ EnvironmentEvent
  BY <1>1 DEF WatchStep, WatchBegins, WatchEnds, SyncLists, SendCleanup, EnvironmentEvent,
              ListStep, listVars, NoFault
<1>2. CASE ServiceStep
  BY <1>2 DEF ServiceStep, GetBuilder, CreateDeployment, CleanupServices, CleanupDeployments,
              Cleaned, ListStep, listVars, NoFault
<1>3. CASE EnvRestart \/ EnvChange
  BY <1>3 DEF EnvRestart, EnvChange, ListStep
<1> QED BY <1>1, <1>2, <1>3 DEF EnvNext

-----------------------------------------------------------------------------
(* The timer and the watcher: types.                                       *)
LEMMA StartedFacts ==
  ASSUME LoopsTypeOK, NEW s \in Subscriptions
  PROVE  /\ Started(s) \in Subscriptions
         /\ Started(s).stopped = s.stopped /\ Started(s).loop = "check"
<1>1. latest \in 0 .. MaxObjectEvents /\ s.last \in 0 .. MaxObjectEvents
  BY DEF LoopsTypeOK, Subscriptions
<1>2. (IF s.last > 0 THEN s.last ELSE IF latest > 0 THEN latest - 1 ELSE 0)
        \in 0 .. MaxObjectEvents
  BY <1>1, SourceAssumption
<1> QED BY <1>2 DEF Started, Subscriptions, Loops

LEMMA NoSubscriptionFacts ==
  /\ NoSubscription \in Subscriptions
  /\ ~NoSubscription.stopped /\ NoSubscription.loop = "none"
BY SourceAssumption DEF NoSubscription, Subscriptions, Loops

(* A step of the loop of u that leaves the subscription as s.              *)
Becomes(u, s) ==
  /\ subs' \in [Uids -> Subscriptions] /\ subs'[u] = s
  /\ \A x \in Uids \ {u} : subs'[x] = subs[x]

LEMMA BecomesFacts ==
  ASSUME LoopsTypeOK, NEW u \in Uids, NEW s \in Subscriptions,
         subs' = [subs EXCEPT ![u] = s]
  PROVE  Becomes(u, s)
BY DEF LoopsTypeOK, Becomes

(* What a step of the watcher may do to a subscription.                    *)
Calm(u) ==
  /\ subs'[u].stopped => subs[u].stopped \/ (Retired(u) /\ u \notin ListedUids)
  /\ late'[u] \in Nat /\ late'[u] <= 1
  /\ late'[u] > 0 => late[u] > 0 \/ subs[u].stopped
  /\ late'[u] > 0 => \/ subs'[u].loop = "none"
                     \/ subs'[u].stopped /\ subs'[u].loop \in {"check", "ended"}

LEMMA SameIsCalm ==
  ASSUME LoopsTypeOK, WatcherInv, NEW u \in Uids,
         late'[u] = late[u],
         \/ subs'[u] = subs[u]
         \/ /\ subs'[u].loop = subs[u].loop
            /\ \/ subs'[u].stopped = subs[u].stopped
               \/ Retired(u) /\ u \notin ListedUids /\ subs'[u].stopped = TRUE
  PROVE  Calm(u)
<1>1. late[u] \in Nat /\ subs[u].stopped \in BOOLEAN
  BY DEF LoopsTypeOK, Subscriptions
<1> QED BY <1>1 DEF WatcherInv, LateEnds, Calm

LEMMA RunningIsCalm ==
  ASSUME LoopsTypeOK, WatcherInv, NEW u \in Uids,
         subs[u].loop \notin {"none", "check", "ended"},
         subs'[u].stopped = subs[u].stopped, late'[u] = late[u]
  PROVE  Calm(u) /\ late[u] = 0
<1>1. late[u] \in Nat
  BY DEF LoopsTypeOK
<1> QED BY <1>1 DEF WatcherInv, LateEnds, Calm

(* A dispatch loop leaves its subscription as s, and the others alone.     *)
LEMMA LoopSteps ==
  ASSUME LoopsTypeOK, WatcherInv, NEW u \in Uids, Loop(u) \/ Timeout(u)
  PROVE  LoopsTypeOK' /\ \A x \in Uids : Calm(x)
<1> DEFINE t == subs[u]
<1>1. /\ t \in Subscriptions /\ late[u] \in Nat /\ t.loop \in Loops /\ t.stopped \in BOOLEAN
      /\ t.pos \in 0 .. MaxObjectEvents /\ t.last \in 0 .. MaxObjectEvents
      /\ latest \in 0 .. MaxObjectEvents
  BY DEF LoopsTypeOK, Subscriptions
<1>2. ASSUME NEW s \in Subscriptions, Becomes(u, s), late' \in [Uids -> Nat], Calm(u),
             \A x \in Uids \ {u} : late'[x] = late[x],
             closed' \in 0 .. MaxTimeouts,
             UNCHANGED <<source, phase, crons, jobs, kept, latest>>
      PROVE  LoopsTypeOK' /\ \A x \in Uids : Calm(x)
  <2>1. \A x \in Uids \ {u} : Calm(x)
    BY <1>2, SameIsCalm DEF Becomes
  <2> QED BY <1>2, <2>1 DEF LoopsTypeOK, Becomes
<1>3. \A x \in Loops : [t EXCEPT !.loop = x] \in Subscriptions
                       /\ [t EXCEPT !.loop = x].loop = x
                       /\ [t EXCEPT !.loop = x].stopped = t.stopped
  BY <1>1 DEF Subscriptions
<1>4. CASE CheckStopped(u)
  <2> DEFINE x == IF t.stopped THEN "ended" ELSE "wait"
             s == [t EXCEPT !.loop = x]
  <2>1. s \in Subscriptions /\ s.loop = x /\ s.stopped = t.stopped
    BY <1>3 DEF Loops
  <2>2. t.loop = "check" /\ subs' = [subs EXCEPT ![u] = s] /\ UNCHANGED <<late, closed>>
        /\ UNCHANGED <<source, phase, crons, jobs, kept, latest>>
    BY <1>4 DEF CheckStopped, Dispatch, timerVars
  <2> HIDE DEF s
  <2>3. Becomes(u, s)
    BY <2>1, <2>2, BecomesFacts
  <2>4. Calm(u)
    BY <1>1, <2>1, <2>2, <2>3 DEF Calm, Becomes, WatcherInv, LateEnds
  <2> QED BY <1>2, <2>1, <2>2, <2>3, <2>4 DEF LoopsTypeOK
<1>5. CASE Receive(u)
  <2> DEFINE s == [t EXCEPT !.loop = "publish", !.pos = @ + 1, !.last = t.pos + 1]
  <2>1. t.loop = "wait" /\ subs' = [subs EXCEPT ![u] = s] /\ UNCHANGED <<late, closed>>
        /\ UNCHANGED <<source, phase, crons, jobs, kept, latest>> /\ t.pos < latest
    BY <1>5 DEF Receive, Dispatch, timerVars
  <2>2. t.pos + 1 \in 0 .. MaxObjectEvents
    BY <1>1, <2>1, SourceAssumption
  <2>3. s \in Subscriptions /\ s.stopped = t.stopped
    BY <1>1, <2>2 DEF Subscriptions, Loops
  <2> HIDE DEF s
  <2>4. Becomes(u, s)
    BY <2>1, <2>3, BecomesFacts
  <2>5. Calm(u)
    BY <2>1, <2>3, <2>4, RunningIsCalm DEF Becomes
  <2> QED BY <1>2, <2>1, <2>3, <2>4, <2>5 DEF LoopsTypeOK
<1>6. CASE PublishEvent(u)
  <2> DEFINE s == [t EXCEPT !.loop = "check"]
  <2>1. s \in Subscriptions /\ s.loop = "check" /\ s.stopped = t.stopped
    BY <1>3 DEF Loops
  <2>2. t.loop = "publish" /\ subs' = [subs EXCEPT ![u] = s] /\ UNCHANGED closed
        /\ UNCHANGED <<source, phase, crons, jobs, kept, latest>>
        /\ late' = [late EXCEPT ![u] = IF t.stopped THEN @ + 1 ELSE @]
    BY <1>6 DEF PublishEvent, Dispatch, timerVars
  <2> HIDE DEF s
  <2>3. Becomes(u, s)
    BY <2>1, <2>2, BecomesFacts
  <2>4. /\ late' \in [Uids -> Nat] /\ late'[u] = IF t.stopped THEN late[u] + 1 ELSE late[u]
        /\ \A x \in Uids \ {u} : late'[x] = late[x]
    BY <1>1, <2>2 DEF LoopsTypeOK
  <2>5. late[u] = 0
    BY <1>1, <2>2 DEF WatcherInv, LateEnds
  <2>6. Calm(u)
    BY <1>1, <2>1, <2>3, <2>4, <2>5 DEF Calm, Becomes
  <2> QED BY <1>2, <2>1, <2>2, <2>3, <2>4, <2>6 DEF LoopsTypeOK
<1>7. CASE Closed(u)
  <2> DEFINE s == [t EXCEPT !.loop = IF t.stopped THEN "ended" ELSE "restart"]
  <2>1. s \in Subscriptions /\ s.stopped = t.stopped
    BY <1>3 DEF Loops
  <2>2. t.loop = "wait" /\ subs' = [subs EXCEPT ![u] = s] /\ UNCHANGED <<late, closed>>
        /\ UNCHANGED <<source, phase, crons, jobs, kept, latest>>
    BY <1>7 DEF Closed, Dispatch, timerVars
  <2> HIDE DEF s
  <2>3. Becomes(u, s)
    BY <2>1, <2>2, BecomesFacts
  <2>4. Calm(u)
    BY <2>1, <2>2, <2>3, RunningIsCalm DEF Becomes
  <2> QED BY <1>2, <2>1, <2>2, <2>3, <2>4 DEF LoopsTypeOK
<1>8. CASE WatchError(u)
  <2> DEFINE s == [t EXCEPT !.loop = "restart", !.last = 0]
  <2>0. 0 \in 0 .. MaxObjectEvents
    BY SourceAssumption
  <2>1. s \in Subscriptions /\ s.stopped = t.stopped
    BY <1>1, <2>0 DEF Subscriptions, Loops
  <2>2. t.loop = "wait" /\ subs' = [subs EXCEPT ![u] = s] /\ UNCHANGED <<late, closed>>
        /\ UNCHANGED <<source, phase, crons, jobs, kept, latest>>
    BY <1>8 DEF WatchError, timerVars
  <2> HIDE DEF s
  <2>3. Becomes(u, s)
    BY <2>1, <2>2, BecomesFacts
  <2>4. Calm(u)
    BY <2>1, <2>2, <2>3, RunningIsCalm DEF Becomes
  <2> QED BY <1>2, <2>1, <2>2, <2>3, <2>4 DEF LoopsTypeOK
<1>9. CASE RestartWatch(u)
  <2> DEFINE b == Started(t)
             s == [b EXCEPT !.mine = FALSE]
  <2>1. b \in Subscriptions /\ b.stopped = t.stopped
    BY <1>1, StartedFacts
  <2>2. t.loop = "restart" /\ subs' = [subs EXCEPT ![u] = s] /\ UNCHANGED <<late, closed>>
        /\ UNCHANGED <<source, phase, crons, jobs, kept, latest>>
    BY <1>9 DEF RestartWatch, Dispatch, timerVars
  <2> HIDE DEF b
  <2>3. s \in Subscriptions /\ s.stopped = t.stopped
    BY <2>1 DEF Subscriptions
  <2> HIDE DEF s
  <2>4. Becomes(u, s)
    BY <2>2, <2>3, BecomesFacts
  <2>5. Calm(u)
    BY <2>2, <2>3, <2>4, RunningIsCalm DEF Becomes
  <2> QED BY <1>2, <2>2, <2>3, <2>4, <2>5 DEF LoopsTypeOK
<1>10. CASE Timeout(u)
  <2> DEFINE s == [t EXCEPT !.open = FALSE]
  <2>1. s \in Subscriptions /\ s.stopped = t.stopped /\ s.loop = t.loop
    BY <1>1 DEF Subscriptions
  <2>2. subs' = [subs EXCEPT ![u] = s] /\ UNCHANGED late
        /\ UNCHANGED <<source, phase, crons, jobs, kept, latest>>
    BY <1>10 DEF Timeout, timerVars
  <2>3. closed' \in 0 .. MaxTimeouts
    BY <1>10, SourceAssumption DEF Timeout, LoopsTypeOK
  <2> HIDE DEF s
  <2>4. Becomes(u, s)
    BY <2>1, <2>2, BecomesFacts
  <2>5. Calm(u)
    BY <2>1, <2>2, <2>4, SameIsCalm DEF Becomes
  <2> QED BY <1>2, <2>1, <2>2, <2>3, <2>4, <2>5 DEF LoopsTypeOK
<1> QED BY <1>4, <1>5, <1>6, <1>7, <1>8, <1>9, <1>10 DEF Loop

(* A step that leaves the list alone, and adds to the map only what is     *)
(* listed, keeps the invariant of the watcher if it is calm.               *)
LEMMA CalmSteps ==
  ASSUME ListTypeOK, LoopsTypeOK, WatcherInv, ListStep, listed' = listed,
         kept' \subseteq kept \union ListedUids, \A u \in Uids : Calm(u)
  PROVE  WatcherInv'
<1>1. UidsGrow' /\ \A u \in Uids : Retired(u) => Retired(u)'
  BY ListUids DEF WatcherInv
<1>2. ListedUids' = ListedUids /\ ListedUids \subseteq Uids /\ kept \subseteq Uids
  BY DEF ListedUids, LoopsTypeOK, ListTypeOK, Keys
<1>3. ListedKnown'
  BY <1>2, ListUids DEF WatcherInv, ListedKnown
<1>4. UnlistedRetired'
  BY <1>1, <1>2 DEF WatcherInv, UnlistedRetired
<1>5. StoppedRetired'
  BY <1>1, <1>2 DEF WatcherInv, StoppedRetired, Calm
<1>6. LateEnds' /\ \A u \in Uids : late'[u] <= 1
  BY DEF LateEnds, Calm
<1> QED BY <1>1, <1>3, <1>4, <1>5, <1>6 DEF WatcherInv

(* What is listed is known, whatever the process is.                       *)
LEMMA ListedStaysKnown ==
  ASSUME ListTypeOK, UidsGrow, ListStep,
         \A u \in ListedUids : u \in TriggerUids \/ Retired(u)
  PROVE  \A u \in ListedUids' : (u \in TriggerUids \/ Retired(u))'
<1>1. CASE UNCHANGED listed
  <2>1. ListedUids' = ListedUids /\ ListedUids \subseteq Uids
    BY <1>1 DEF ListedUids, ListTypeOK, Keys
  <2> QED BY <2>1, ListUids
<1>2. CASE trigger' = trigger /\ listed' \subseteq trigger
  BY <1>2 DEF ListedUids, TriggerUids
<1> QED BY <1>1, <1>2 DEF ListStep, Change

LEMMA WatcherIsOff ==
  ASSUME ListTypeOK, WatcherInv, ListStep, WatcherOff', source' # "watcher"
  PROVE  WatcherInv'
<1>1. kept' = {} /\ \A u \in Uids : subs'[u] = NoSubscription /\ late'[u] = 0
  BY DEF WatcherOff
<1>2. UidsGrow'
  BY ListUids DEF WatcherInv
<1>3. ListedKnown'
  BY <1>1, ListedStaysKnown DEF WatcherInv, ListedKnown
<1>4. UnlistedRetired' /\ StoppedRetired' /\ LateEnds' /\ \A u \in Uids : late'[u] <= 1
  BY <1>1, NoSubscriptionFacts DEF UnlistedRetired, StoppedRetired, LateEnds
<1> QED BY <1>2, <1>3, <1>4 DEF WatcherInv

(* The polling loop of the watcher, and the changes of what it watches.    *)
LEMMA SyncSteps ==
  ASSUME ListTypeOK, LoopsTypeOK, WatcherInv, ListStep, WatchSync \/ Panic \/ ObjectChange
  PROVE  LoopsTypeOK' /\ WatcherInv'
<1> USE DEF timerVars, watchVars, listVars
<1>1. /\ subs \in [Uids -> Subscriptions] /\ late \in [Uids -> Nat]
      /\ kept \subseteq Uids /\ ListedUids \subseteq Uids
      /\ \A u \in Uids : subs[u].loop \in Loops /\ subs[u].stopped \in BOOLEAN
  BY DEF LoopsTypeOK, ListedUids, ListTypeOK, Keys, Subscriptions
<1>2. \A a, b : Phase(a, b) \in {"list", "add", "copy", "remove", "stop"}
  BY DEF Phase
<1>3. CASE WatchList
  <2>1. UNCHANGED <<trigger, changes, kept, subs, late>> /\ listed' = trigger
    BY <1>3 DEF WatchList
  <2>2. ListedUids' = TriggerUids
    BY <2>1 DEF ListedUids, TriggerUids
  <2>3. \A u \in Uids : Retired(u) => u \notin TriggerUids
    <3>1. \A t \in trigger : t.uid \in Nat
      BY ListAssumption DEF ListTypeOK, Keys, Uids
    <3> QED BY <3>1, ListAssumption DEF Retired, TriggerUids, Uids
  <2>4. UidsGrow' /\ TriggerUids' = TriggerUids /\ \A u : Retired(u)' = Retired(u)
    BY <2>1 DEF WatcherInv, UidsGrow, TriggerUids, Retired
  <2>5. ListedKnown' /\ UnlistedRetired'
    BY <2>1, <2>2, <2>4 DEF WatcherInv, ListedKnown, UnlistedRetired
  <2>6. StoppedRetired' /\ LateEnds' /\ \A u \in Uids : late'[u] <= 1
    BY <2>1, <2>2, <2>3, <2>4 DEF WatcherInv, StoppedRetired, LateEnds
  <2>7. LoopsTypeOK'
    BY <1>2, <1>3 DEF WatchList, LoopsTypeOK
  <2> QED BY <2>4, <2>5, <2>6, <2>7 DEF WatcherInv
<1>4. CASE RemoveWatch
  <2>1. PICK u \in kept \ ListedUids :
          kept' = kept \ {u} /\ subs' = [subs EXCEPT ![u].stopped = TRUE]
    BY <1>4 DEF RemoveWatch
  <2> DEFINE t == subs[u]
             s == [t EXCEPT !.stopped = TRUE]
  <2>2. UNCHANGED <<source, crons, jobs, latest, closed, late, listed>> /\ phase' = "stop"
    BY <1>4 DEF RemoveWatch
  <2>3. u \in Uids /\ t \in Subscriptions
    BY <1>1
  <2>4. s \in Subscriptions /\ s.stopped = TRUE /\ s.loop = t.loop
    BY <2>3 DEF Subscriptions
  <2>5. subs' = [subs EXCEPT ![u] = s]
    BY <2>1
  <2> HIDE DEF s
  <2>6. Becomes(u, s)
    BY <2>3, <2>4, <2>5, BecomesFacts
  <2>7. Retired(u) /\ u \notin ListedUids
    BY <2>1 DEF WatcherInv, UnlistedRetired
  <2>8. \A x \in Uids : Calm(x)
    <3>1. Calm(u)
      BY <2>2, <2>3, <2>4, <2>6, <2>7, SameIsCalm DEF Becomes
    <3>2. \A x \in Uids \ {u} : Calm(x)
      BY <2>2, <2>6, SameIsCalm DEF Becomes
    <3> QED BY <3>1, <3>2
  <2>9. LoopsTypeOK'
    BY <2>1, <2>2, <2>6 DEF LoopsTypeOK, Becomes
  <2> QED BY <2>1, <2>2, <2>8, <2>9, CalmSteps
<1>5. CASE StopWatch
  <2>1. UNCHANGED <<source, crons, jobs, kept, latest, closed, late, listed>>
        /\ phase' = Phase(ListedUids, kept)
        /\ subs' = [u \in Uids |-> IF subs[u].stopped /\ subs[u].mine
                                   THEN [subs[u] EXCEPT !.open = FALSE] ELSE subs[u]]
    BY <1>5 DEF StopWatch
  <2>2. ASSUME NEW u \in Uids
        PROVE  subs'[u] \in Subscriptions /\ subs'[u].loop = subs[u].loop
               /\ subs'[u].stopped = subs[u].stopped
    <3>1. \A t \in Subscriptions : /\ [t EXCEPT !.open = FALSE] \in Subscriptions
                                   /\ [t EXCEPT !.open = FALSE].loop = t.loop
                                   /\ [t EXCEPT !.open = FALSE].stopped = t.stopped
      BY DEF Subscriptions
    <3>2. /\ subs[u] \in Subscriptions
          /\ subs'[u] = subs[u] \/ subs'[u] = [subs[u] EXCEPT !.open = FALSE]
      BY <1>1, <2>1
    <3> QED BY <3>1, <3>2
  <2>3. \A u \in Uids : Calm(u)
    BY <2>1, <2>2, SameIsCalm
  <2>4. subs' \in [Uids -> Subscriptions]
    BY <2>1, <2>2
  <2>5. LoopsTypeOK'
    BY <1>2, <2>1, <2>4 DEF LoopsTypeOK
  <2> QED BY <2>1, <2>3, <2>5, CalmSteps
<1>6. CASE AddWatch
  <2>1. /\ UNCHANGED <<source, crons, jobs, kept, latest, closed, late, listed>>
        /\ phase' \in {"list", "copy"}
        /\ \/ subs' = subs
           \/ \E u \in ListedUids \ kept : subs' = [subs EXCEPT ![u] = Started(NoSubscription)]
    BY <1>6 DEF AddWatch
  <2>2. CASE subs' = subs
    <3>1. \A u \in Uids : Calm(u)
      BY <2>1, <2>2, SameIsCalm
    <3>2. LoopsTypeOK'
      BY <2>1, <2>2 DEF LoopsTypeOK
    <3> QED BY <2>1, <3>1, <3>2, CalmSteps
  <2>3. ASSUME NEW u \in ListedUids \ kept, subs' = [subs EXCEPT ![u] = Started(NoSubscription)]
        PROVE  LoopsTypeOK' /\ WatcherInv'
    <3> DEFINE s == Started(NoSubscription)
    <3>1. s \in Subscriptions /\ ~s.stopped
      BY StartedFacts, NoSubscriptionFacts
    <3> HIDE DEF s
    <3>2. u \in Uids /\ Becomes(u, s)
      BY <1>1, <2>3, <3>1, BecomesFacts DEF s
    <3>3. late[u] = 0
      BY <1>1, <3>2 DEF WatcherInv, StoppedRetired
    <3>4. Calm(u)
      BY <2>1, <3>1, <3>2, <3>3 DEF Calm, Becomes
    <3>5. \A x \in Uids \ {u} : Calm(x)
      BY <2>1, <3>2, SameIsCalm DEF Becomes
    <3>6. LoopsTypeOK'
      BY <2>1, <3>2 DEF LoopsTypeOK, Becomes
    <3> QED BY <2>1, <3>4, <3>5, <3>6, CalmSteps
  <2> QED BY <2>1, <2>2, <2>3
<1>7. CASE CopyWatch
  <2>1. UNCHANGED <<source, crons, jobs, latest, closed, late, listed>>
        /\ phase' = "list" /\ kept' = kept \union ListedUids
        /\ subs' = [u \in Uids |-> IF u \in ListedUids \ kept
                                   THEN [subs[u] EXCEPT !.mine = TRUE] ELSE subs[u]]
    BY <1>7 DEF CopyWatch
  <2>2. ASSUME NEW u \in Uids
        PROVE  subs'[u] \in Subscriptions /\ subs'[u].loop = subs[u].loop
               /\ subs'[u].stopped = subs[u].stopped
    <3>1. \A t \in Subscriptions : /\ [t EXCEPT !.mine = TRUE] \in Subscriptions
                                   /\ [t EXCEPT !.mine = TRUE].loop = t.loop
                                   /\ [t EXCEPT !.mine = TRUE].stopped = t.stopped
      BY DEF Subscriptions
    <3>2. /\ subs[u] \in Subscriptions
          /\ subs'[u] = subs[u] \/ subs'[u] = [subs[u] EXCEPT !.mine = TRUE]
      BY <1>1, <2>1
    <3> QED BY <3>1, <3>2
  <2>3. \A u \in Uids : Calm(u)
    BY <2>1, <2>2, SameIsCalm
  <2>4. subs' \in [Uids -> Subscriptions] /\ kept' \subseteq Uids
    BY <1>1, <2>1, <2>2
  <2>5. LoopsTypeOK'
    BY <2>1, <2>4 DEF LoopsTypeOK
  <2> QED BY <2>1, <2>3, <2>5, CalmSteps
<1>8. CASE Panic
  <2>1. /\ UNCHANGED <<trigger, changes, source, crons, jobs, latest, closed, late>>
        /\ phase' = "list" /\ listed' = {} /\ kept' = {}
        /\ subs' = [u \in Uids |-> NoSubscription]
    BY <1>8 DEF Panic
  <2>2. \A u \in Uids : subs'[u] = NoSubscription
    BY <2>1
  <2>3. UidsGrow' /\ ListedUids' = {} /\ \A u : Retired(u)' = Retired(u)
    BY <2>1 DEF WatcherInv, UidsGrow, ListedUids, Retired
  <2>4. ListedKnown' /\ UnlistedRetired'
    BY <2>1, <2>3 DEF ListedKnown, UnlistedRetired
  <2>5. StoppedRetired' /\ LateEnds' /\ \A u \in Uids : late'[u] <= 1
    BY <2>1, <2>2, <2>3, NoSubscriptionFacts DEF WatcherInv, StoppedRetired, LateEnds
  <2>6. subs' \in [Uids -> Subscriptions]
    BY <2>1, NoSubscriptionFacts
  <2>7. LoopsTypeOK'
    BY <2>1, <2>6 DEF LoopsTypeOK
  <2> QED BY <2>3, <2>4, <2>5, <2>7 DEF WatcherInv
<1>9. CASE ObjectChange
  <2>1. UNCHANGED <<source, phase, crons, jobs, kept, closed, late, listed, subs>>
        /\ latest' \in 0 .. MaxObjectEvents
    BY <1>9, SourceAssumption DEF ObjectChange, LoopsTypeOK
  <2>2. \A u \in Uids : Calm(u)
    BY <2>1, SameIsCalm
  <2>3. LoopsTypeOK'
    BY <2>1 DEF LoopsTypeOK
  <2> QED BY <2>1, <2>2, <2>3, CalmSteps
<1> QED BY <1>3, <1>4, <1>5, <1>6, <1>7, <1>8, <1>9 DEF WatchSync

(* Every step of the timer and of the watcher.                             *)
LEMMA SourceSteps ==
  ASSUME ListTypeOK, LoopsTypeOK, WatcherInv, WatcherOff, CronsListed, SourceNext
  PROVE  LoopsTypeOK' /\ WatcherInv' /\ WatcherOff' /\ CronsListed' /\ source' = source
<1> USE DEF timerVars, watchVars, listVars
<1>1. ListStep
  BY SourceProjects
<1>2. CASE Changing \/ Publishing
  <2>1. UNCHANGED <<listed, source, phase, crons, jobs, subs, kept, latest, closed, late>>
    BY <1>2 DEF Changing, Change, Publishing
  <2>2. \A u \in Uids : Calm(u)
    BY <2>1, SameIsCalm
  <2>3. WatcherInv'
    BY <1>1, <2>1, <2>2, CalmSteps
  <2> QED BY <2>1, <2>3 DEF LoopsTypeOK, WatcherOff, CronsListed
<1>3. CASE TimerSync \/ Tick \/ Job
  <2>1. source = "timer" /\ UNCHANGED <<source, subs, kept, latest, closed, late>>
    BY <1>3 DEF TimerSync, TimerList, AddCrons, RemoveCrons, Tick, Job
  <2>2. WatcherOff'
    BY <2>1 DEF WatcherOff
  <2>3. WatcherInv'
    BY <1>1, <2>1, <2>2, WatcherIsOff
  <2>4. phase' \in {"list", "add", "copy", "remove", "stop"}
        /\ crons' \subseteq Keys /\ jobs' \subseteq Keys
    BY <1>3 DEF TimerSync, TimerList, AddCrons, RemoveCrons, Tick, Job, LoopsTypeOK, ListTypeOK
  <2>5. LoopsTypeOK'
    BY <2>1, <2>4 DEF LoopsTypeOK
  <2>6. CronsListed'
    BY <1>3 DEF TimerSync, TimerList, AddCrons, RemoveCrons, Tick, Job, CronsListed
  <2> QED BY <2>1, <2>2, <2>3, <2>5, <2>6
<1>4. CASE WatchSync \/ Panic \/ ObjectChange
  <2>1. source = "watcher" /\ source' = source
    BY <1>4 DEF WatchSync, WatchList, RemoveWatch, StopWatch, AddWatch, CopyWatch, Panic,
                ObjectChange
  <2>2. LoopsTypeOK' /\ WatcherInv'
    BY <1>1, <1>4, SyncSteps
  <2> QED BY <2>1, <2>2 DEF WatcherOff, CronsListed
<1>5. ASSUME NEW u \in Uids, Loop(u) \/ Timeout(u)
      PROVE  LoopsTypeOK' /\ WatcherInv' /\ WatcherOff' /\ CronsListed' /\ source' = source
  <2>1. source = "watcher" /\ source' = source /\ UNCHANGED <<listed, kept>>
    BY <1>5 DEF Loop, CheckStopped, Receive, PublishEvent, Closed, WatchError, RestartWatch,
                Timeout, Dispatch
  <2>2. LoopsTypeOK' /\ \A x \in Uids : Calm(x)
    BY <1>5, LoopSteps
  <2>3. WatcherInv'
    BY <1>1, <2>1, <2>2, CalmSteps
  <2> QED BY <2>1, <2>2, <2>3 DEF WatcherOff, CronsListed
<1> QED BY <1>2, <1>3, <1>4, <1>5 DEF SourceNext

-----------------------------------------------------------------------------
(* Every step of the message queue trigger manager.                        *)
LEMMA HandlerFacts ==
  ASSUME QueueTypeOK, NEW h \in handlers
  PROVE  /\ h \in Handlers /\ h.message \in Messages /\ h.message \in Nat /\ h.sub \in Keys
         /\ h.tries \in 0 .. Retries + 1 /\ h.ok \in BOOLEAN
BY QueueAssumption DEF QueueTypeOK, Handlers, Messages

LEMMA MQSteps ==
  ASSUME ListTypeOK, QueueTypeOK, QueueInv, kind # "none", MQNext
  PROVE  QueueTypeOK' /\ QueueInv' /\ kind' = kind
<1> USE DEF queueVars
<1>1. CASE ListTriggers \/ Subscribed \/ MQChange
  <2>1. UNCHANGED <<kind, other, current, handlers, deliveries, taken, gone, good, exhausted>>
        /\ todo' \subseteq Keys /\ pc' \in {"off", "list", "subscribe", "unsubscribe", "drain"}
    BY <1>1 DEF ListTriggers, Subscribed, MQChange, Second, QueueTypeOK, ListTypeOK
  <2> QED BY <2>1 DEF QueueTypeOK, QueueInv, OkIsGood, HandlersSubscribed, HandledBeforeGone
<1>2. CASE Subscribe \/ Unsubscribe \/ Drain
  <2>1. /\ UNCHANGED <<kind, other, handlers, deliveries, gone, good, exhausted>>
        /\ todo' \subseteq Keys /\ pc' \in {"off", "list", "subscribe", "unsubscribe", "drain"}
        /\ current' \subseteq Keys /\ taken' \in SUBSET Messages
    BY <1>2 DEF Subscribe, Unsubscribe, Drain, Rebalance, Second, QueueTypeOK
  <2>2. kind = "azure" => \A h \in handlers : h.sub \in current => h.sub \in current'
    BY <1>2 DEF Subscribe, Unsubscribe, Drain
  <2>3. QueueTypeOK'
    BY <2>1 DEF QueueTypeOK
  <2> QED BY <2>1, <2>2, <2>3 DEF QueueInv, OkIsGood, HandlersSubscribed, HandledBeforeGone
<1>3. CASE Deliver
  <2>1. PICK m \in Messages, s \in current :
          /\ deliveries < MaxDeliveries /\ deliveries' = deliveries + 1
          /\ taken' = taken \union {m}
          /\ handlers' = handlers
                           \union {[message |-> m, sub |-> s, tries |-> 0, ok |-> FALSE]}
    BY <1>3 DEF Deliver, Deliverable
  <2> DEFINE h == [message |-> m, sub |-> s, tries |-> 0, ok |-> FALSE]
  <2>2. UNCHANGED <<kind, other, pc, todo, current, gone, good, exhausted>>
    BY <1>3 DEF Deliver
  <2>3. h \in Handlers /\ h.sub = s /\ ~h.ok
    BY QueueAssumption DEF Handlers, QueueTypeOK
  <2>4. deliveries' \in 0 .. MaxDeliveries
    BY <2>1, QueueAssumption DEF QueueTypeOK
  <2>5. handlers' = handlers \union {h} /\ taken' \subseteq Messages
    BY <2>1 DEF QueueTypeOK
  <2> HIDE DEF h
  <2>6. QueueTypeOK'
    BY <2>2, <2>3, <2>4, <2>5 DEF QueueTypeOK
  <2>7. OkIsGood' /\ HandlersSubscribed'
    BY <2>2, <2>3, <2>5 DEF QueueInv, OkIsGood, HandlersSubscribed
  <2> QED BY <2>2, <2>6, <2>7 DEF QueueInv, HandledBeforeGone
<1>4. CASE Attempt
  <2>1. PICK h \in handlers, ok \in BOOLEAN :
          /\ h.tries <= Retries
          /\ handlers' = (handlers \ {h}) \union {[h EXCEPT !.tries = @ + 1, !.ok = ok]}
          /\ good' = IF ok THEN good \union {h.message} ELSE good
    BY <1>4 DEF Attempt
  <2> DEFINE g == [h EXCEPT !.tries = @ + 1, !.ok = ok]
  <2>2. UNCHANGED <<kind, other, pc, todo, current, deliveries, taken, gone, exhausted>>
    BY <1>4 DEF Attempt
  <2>3. h.tries + 1 \in 0 .. Retries + 1
    BY <2>1, HandlerFacts, QueueAssumption
  <2>4. g \in Handlers /\ g.message = h.message /\ g.sub = h.sub /\ g.ok = ok
    BY <2>3, HandlerFacts DEF Handlers
  <2> HIDE DEF g
  <2>5. handlers' = (handlers \ {h}) \union {g}
    BY <2>1 DEF g
  <2>6. good \subseteq good' /\ good' \subseteq Messages /\ (ok => h.message \in good')
    BY <2>1, HandlerFacts DEF QueueTypeOK
  <2>7. QueueTypeOK'
    BY <2>2, <2>4, <2>5, <2>6 DEF QueueTypeOK
  <2>8. OkIsGood'
    BY <2>4, <2>5, <2>6 DEF QueueInv, OkIsGood
  <2>9. HandlersSubscribed'
    BY <2>2, <2>4, <2>5 DEF QueueInv, HandlersSubscribed
  <2>10. HandledBeforeGone'
    BY <2>2, <2>6 DEF QueueInv, HandledBeforeGone
  <2> QED BY <2>2, <2>7, <2>8, <2>9, <2>10 DEF QueueInv
<1>5. CASE Finish
  <2>1. PICK h \in handlers, broken \in BOOLEAN, lost \in BOOLEAN :
          /\ handlers' = handlers \ {h}
          /\ gone' = gone \union Forgets(h, broken, lost)
          /\ exhausted' = IF kind = "azure" /\ ~h.ok
                          THEN exhausted \union {h.message} ELSE exhausted
    BY <1>5 DEF Finish
  <2>2. UNCHANGED <<kind, other, pc, todo, current, deliveries, taken, good>>
    BY <1>5 DEF Finish
  <2>3. exhausted \subseteq exhausted' /\ exhausted' \subseteq Messages
    BY <2>1, HandlerFacts DEF QueueTypeOK
  <2>4. /\ Forgets(h, broken, lost) \subseteq Messages
        /\ \A m \in Forgets(h, broken, lost) :
             \/ m \in good
             \/ kind = "azure" /\ m \in exhausted'
             \/ kind = "kafka" /\ \E n \in good : m < n
    <3> DEFINE F == Forgets(h, broken, lost)
    <3>1. h.message \in Messages /\ h.message \in Nat /\ (h.ok => h.message \in good)
          /\ 1 .. h.message \subseteq Messages
      BY HandlerFacts, QueueAssumption DEF QueueInv, OkIsGood, Messages
    <3>2. CASE kind = "nats"
      BY <3>1, <3>2 DEF Forgets, NatsForgets
    <3>3. CASE kind = "kafka"
      <4>1. F = {} \/ (h.ok /\ F = 1 .. h.message)
        BY <3>3 DEF Forgets, KafkaForgets
      <4> HIDE DEF F
      <4>2. \A m \in 1 .. h.message : m = h.message \/ m < h.message
        BY <3>1
      <4> QED BY <3>1, <3>3, <4>1, <4>2 DEF F
    <3>4. CASE kind = "azure"
      <4>1. F \subseteq {h.message}
        BY <3>4 DEF Forgets, AzureForgets
      <4> QED BY <2>1, <3>1, <3>4, <4>1
    <3>5. kind \in {"nats", "kafka", "azure"}
      BY QueueAssumption DEF QueueTypeOK
    <3> QED BY <3>2, <3>3, <3>4, <3>5
  <2>5. QueueTypeOK'
    BY <2>1, <2>2, <2>3, <2>4 DEF QueueTypeOK
  <2>6. HandledBeforeGone'
    BY <2>1, <2>2, <2>3, <2>4 DEF QueueInv, HandledBeforeGone
  <2>7. OkIsGood' /\ HandlersSubscribed'
    BY <2>1, <2>2 DEF QueueInv, OkIsGood, HandlersSubscribed
  <2> QED BY <2>2, <2>5, <2>6, <2>7 DEF QueueInv
<1>6. CASE Restart
  <2>1. UNCHANGED <<kind, other, deliveries, gone, good, exhausted>>
        /\ pc' = "list" /\ todo' = {} /\ current' = {} /\ handlers' = {} /\ taken' = {}
    BY <1>6 DEF Restart, Rebalance
  <2> QED BY <2>1 DEF QueueTypeOK, QueueInv, OkIsGood, HandlersSubscribed, HandledBeforeGone
<1> QED BY <1>1, <1>2, <1>3, <1>4, <1>5, <1>6 DEF MQNext, SyncTriggers, Handle

-----------------------------------------------------------------------------
(* Every step of the environment watcher.                                  *)
LEMMA EnvSteps ==
  ASSUME ListTypeOK, BuilderTypeOK, EnvNext
  PROVE  BuilderTypeOK'
<1> USE ListAssumption DEF watchEnvVars, builderVars
<1>1. ListedVersions \subseteq Versions /\ changes \in 0 .. MaxChanges
  BY DEF ListedVersions, Versions, ListTypeOK, Keys
<1>2. CASE WatchBegins
  <2>1. pos' \in 0 .. MaxChanges + 1
    BY <1>1, <1>2 DEF WatchBegins, BuilderTypeOK
  <2>2. missed' \in BOOLEAN
    BY <1>2 DEF WatchBegins
  <2> QED BY <1>2, <2>1, <2>2 DEF WatchBegins, BuilderTypeOK
<1>3. CASE EnvironmentEvent
  <2>1. pos + 1 \in 0 .. MaxChanges + 1
    BY <1>1, <1>3 DEF EnvironmentEvent, BuilderTypeOK
  <2> QED BY <1>3, <2>1 DEF EnvironmentEvent, BuilderTypeOK
<1>4. CASE WatchEnds
  BY <1>4 DEF WatchEnds, BuilderTypeOK
<1>5. CASE SyncLists
  BY <1>5 DEF SyncLists, BuilderTypeOK
<1>6. CASE SendCleanup
  BY <1>1, <1>6 DEF SendCleanup, BuilderTypeOK
<1>7. CASE GetBuilder
  BY <1>1, <1>7 DEF GetBuilder, CreateBuilderService, BuilderTypeOK
<1>8. CASE CreateDeployment
  BY <1>1, <1>8 DEF CreateDeployment, CreateBuilderDeployment, BuilderTypeOK
<1>9. CASE CleanupServices
  BY <1>9 DEF CleanupServices, Cleaned, BuilderTypeOK
<1>10. CASE CleanupDeployments
  BY <1>10 DEF CleanupDeployments, Cleaned, BuilderTypeOK
<1>11. CASE EnvRestart
  BY <1>11 DEF EnvRestart, BuilderTypeOK
<1>12. CASE EnvChange
  BY <1>12 DEF EnvChange, BuilderTypeOK
<1> QED BY <1>2, <1>3, <1>4, <1>5, <1>6, <1>7, <1>8, <1>9, <1>10, <1>11, <1>12
        DEF EnvNext, WatchStep, ServiceStep

-----------------------------------------------------------------------------
LEMMA InitInv == Init => EventsInv
<1> SUFFICES ASSUME Init PROVE EventsInv
  OBVIOUS
<1> USE ListAssumption, PublisherAssumption, SourceAssumption, QueueAssumption
<1>1. ListTypeOK /\ WatcherInv
  <2>1. /\ trigger = {[uid |-> 1, rv |-> 1]} /\ changes = 0 /\ faults = 0 /\ listed = {}
        /\ kept = {} /\ \A u \in Uids : subs[u] = NoSubscription /\ late[u] = 0
    BY DEF Init, SourceInit, ListInit
  <2>2. [uid |-> 1, rv |-> 1] \in Keys /\ 1 <= (changes + 2) \div 2
    BY <2>1 DEF Keys, Uids
  <2>3. ListTypeOK
    <3>1. Cardinality(trigger) <= 1 /\ trigger \subseteq Keys /\ listed \subseteq Keys
      BY <2>1, <2>2, Small
    <3>2. changes \in 0 .. MaxChanges /\ faults \in 0 .. MaxFaults
      BY <2>1
    <3> QED BY <3>1, <3>2 DEF ListTypeOK
  <2>4. UidsGrow
    BY <2>1, <2>2 DEF UidsGrow
  <2>5. ListedUids = {}
    BY <2>1 DEF ListedUids
  <2>6. ListedKnown /\ UnlistedRetired /\ StoppedRetired /\ LateEnds
        /\ \A u \in Uids : late[u] <= 1
    BY <2>1, <2>5, NoSubscriptionFacts
       DEF ListedKnown, UnlistedRetired, StoppedRetired, LateEnds
  <2> QED BY <2>3, <2>4, <2>6 DEF WatcherInv
<1>2. PublisherTypeOK /\ PublisherInv
  <2>1. queue = << >> /\ posting = {} /\ delayed = {} /\ newest = 0 /\ published = 0
    BY DEF Init, SourceInit, PublisherInit
  <2>2. queue \in Seq(Requests) /\ Len(queue) = 0
    BY <2>1
  <2>3. PublisherTypeOK
    BY <2>1, <2>2, Small DEF PublisherTypeOK
  <2> QED BY <2>1, <2>2, <2>3 DEF PublisherInv, RepeatsAreOld, FirstAttemptsSorted,
                                  NumbersUsed, FirstAttemptsInOrder
<1>3. LoopsTypeOK /\ WatcherOff /\ CronsListed
  <2>1. subs \in [Uids -> Subscriptions] /\ late \in [Uids -> Nat]
    BY NoSubscriptionFacts DEF Init, SourceInit
  <2> QED BY <2>1 DEF Init, SourceInit, LoopsTypeOK, WatcherOff, CronsListed
<1>4. QueueTypeOK /\ QueueInv
  <2>1. 0 \in 0 .. MaxDeliveries
    OBVIOUS
  <2> QED BY <2>1 DEF Init, MQInit, QueueTypeOK, QueueInv, OkIsGood, HandlersSubscribed,
                      HandledBeforeGone
<1>5. BuilderTypeOK
  <2>1. 0 \in 0 .. MaxChanges + 1
    OBVIOUS
  <2>2. /\ at \in {"off", "watch"} /\ rv = 0 /\ pos = 0 /\ plain \in SUBSET Varied
        /\ serving = "idle" /\ keep = {} /\ builders = {}
        /\ services = {} /\ deployments = {} /\ missed = FALSE
    BY DEF Init, EnvInit
  <2> QED BY <2>1, <2>2 DEF BuilderTypeOK
<1>6. OneProcess
  BY DEF Init, OneProcess
<1> QED BY <1>1, <1>2, <1>3, <1>4, <1>5, <1>6
        DEF EventsInv, TypeOK, SourceTypeOK, MQTypeOK, EnvTypeOK

(* A step of one process leaves the invariants of the others alone.        *)
LEMMA NextInv == EventsInv /\ [Next]_mcVars => EventsInv'
<1> SUFFICES ASSUME EventsInv, [Next]_mcVars PROVE EventsInv'
  OBVIOUS
<1>1. /\ ListTypeOK /\ PublisherTypeOK /\ LoopsTypeOK /\ QueueTypeOK /\ BuilderTypeOK
      /\ OneProcess /\ WatcherOff /\ PublisherInv /\ WatcherInv /\ CronsListed /\ QueueInv
  BY DEF EventsInv, TypeOK, SourceTypeOK, MQTypeOK, EnvTypeOK
<1>2. SUFFICES /\ ListTypeOK' /\ PublisherTypeOK' /\ LoopsTypeOK' /\ QueueTypeOK'
               /\ BuilderTypeOK' /\ OneProcess' /\ WatcherOff' /\ PublisherInv' /\ WatcherInv'
               /\ CronsListed' /\ QueueInv'
  BY DEF EventsInv, TypeOK, SourceTypeOK, MQTypeOK, EnvTypeOK
<1>3. ASSUME UNCHANGED sourceOnly, source # "timer" \/ UNCHANGED listed
      PROVE  PublisherTypeOK' /\ LoopsTypeOK' /\ WatcherOff' /\ PublisherInv' /\ CronsListed'
             /\ source' = source
  <2>1. PublisherTypeOK' /\ PublisherInv'
    BY <1>1, <1>3, PublisherTypes, PublisherSteps DEF sourceOnly, PublisherStep
  <2> QED BY <1>1, <1>3, <2>1 DEF sourceOnly, timerVars, watchVars, LoopsTypeOK, WatcherOff,
                                  CronsListed
<1>4. ASSUME UNCHANGED mqOnly PROVE QueueTypeOK' /\ QueueInv' /\ kind' = kind
  BY <1>1, <1>4 DEF mqOnly, queueVars, QueueTypeOK, QueueInv, OkIsGood, HandlersSubscribed,
                    HandledBeforeGone
<1>5. ASSUME UNCHANGED envOnly PROVE BuilderTypeOK' /\ at' = at
  BY <1>1, <1>5 DEF envOnly, watchEnvVars, builderVars, BuilderTypeOK
<1>6. CASE source # "none" /\ SourceNext /\ UNCHANGED <<mqOnly, envOnly>>
  <2>1. LoopsTypeOK' /\ WatcherInv' /\ WatcherOff' /\ CronsListed' /\ source' = source
    BY <1>1, <1>6, SourceSteps
  <2>2. ListTypeOK' /\ PublisherTypeOK' /\ PublisherInv'
    BY <1>1, <1>6, SourceProjects, ListTypes, PublisherTypes, PublisherSteps
  <2>3. QueueTypeOK' /\ QueueInv' /\ kind' = kind /\ BuilderTypeOK' /\ at' = at
    BY <1>4, <1>5, <1>6
  <2> QED BY <1>1, <2>1, <2>2, <2>3 DEF OneProcess
<1>7. CASE kind # "none" /\ MQNext /\ UNCHANGED <<sourceOnly, envOnly>>
  <2>1. QueueTypeOK' /\ QueueInv' /\ kind' = kind
    BY <1>1, <1>7, MQSteps
  <2>2. source = "none"
    BY <1>1, <1>7 DEF OneProcess
  <2>3. PublisherTypeOK' /\ LoopsTypeOK' /\ WatcherOff' /\ PublisherInv' /\ CronsListed'
        /\ source' = source
    BY <1>3, <1>7, <2>2
  <2>4. ListStep
    BY <1>7, MQProjects
  <2>5. ListTypeOK' /\ WatcherInv'
    BY <1>1, <2>2, <2>3, <2>4, ListTypes, WatcherIsOff
  <2>6. BuilderTypeOK' /\ at' = at
    BY <1>5, <1>7
  <2> QED BY <1>1, <2>1, <2>3, <2>5, <2>6 DEF OneProcess
<1>8. CASE at # "off" /\ EnvNext /\ UNCHANGED <<sourceOnly, mqOnly>>
  <2>1. BuilderTypeOK'
    BY <1>1, <1>8, EnvSteps
  <2>2. source = "none" /\ kind = "none"
    BY <1>1, <1>8 DEF OneProcess
  <2>3. PublisherTypeOK' /\ LoopsTypeOK' /\ WatcherOff' /\ PublisherInv' /\ CronsListed'
        /\ source' = source
    BY <1>3, <1>8, <2>2
  <2>4. ListStep
    BY <1>8, EnvProjects
  <2>5. ListTypeOK' /\ WatcherInv'
    BY <1>1, <2>2, <2>3, <2>4, ListTypes, WatcherIsOff
  <2>6. QueueTypeOK' /\ QueueInv' /\ kind' = kind
    BY <1>4, <1>8
  <2> QED BY <2>1, <2>2, <2>3, <2>5, <2>6 DEF OneProcess
<1>9. CASE UNCHANGED mcVars
  <2>1. UNCHANGED <<sourceOnly, mqOnly, envOnly, listVars>>
    BY <1>9 DEF mcVars, sourceVars, mqVars, envVars, sourceOnly, mqOnly, envOnly
  <2>2. /\ PublisherTypeOK' /\ LoopsTypeOK' /\ WatcherOff' /\ PublisherInv' /\ CronsListed'
        /\ QueueTypeOK' /\ QueueInv' /\ BuilderTypeOK'
        /\ source' = source /\ kind' = kind /\ at' = at
    BY <1>3, <1>4, <1>5, <2>1 DEF listVars
  <2>3. ListTypeOK'
    BY <1>1, <2>1 DEF listVars, ListTypeOK
  <2>4. WatcherInv'
    BY <1>1, <2>1 DEF listVars, sourceOnly, watchVars, WatcherInv, UidsGrow, ListedKnown,
                      UnlistedRetired, StoppedRetired, LateEnds, Retired, TriggerUids, ListedUids
  <2> QED BY <1>1, <2>2, <2>3, <2>4 DEF OneProcess
<1> QED BY <1>6, <1>7, <1>8, <1>9 DEF Next

(* Together with its types and the state of the publisher, the watcher and *)
(* the queues, the invariant is inductive: it holds for any process.       *)
THEOREM Invariance == Spec => []EventsInv
<1>1. Spec => Safety
  BY DEF Spec
<1>2. Safety => []EventsInv
  BY InitInv, NextInv, PTL DEF Safety
<1> QED BY <1>1, <1>2, PTL

(* The processes that make and handle events are always in a typed state.  *)
THEOREM TypeCorrect == Spec => []TypeOK
<1>1. EventsInv => TypeOK
  BY DEF EventsInv
<1> QED BY <1>1, Invariance, PTL

(* What msg.Ack, MarkOffset and message.Delete make a broker forget was    *)
(* handled, whatever was delivered twice, closed, lost or restarted.       *)
THEOREM AckSafety == Spec => []HandledBeforeGone
<1>1. EventsInv => HandledBeforeGone
  BY DEF EventsInv, QueueInv
<1> QED BY <1>1, Invariance, PTL

(* Crons, handlers of an Azure queue and dispatch loops that were stopped  *)
(* stay quiet, except for one event that a loop was about to publish.      *)
THEOREM QuietSafety == Spec => []StoppedIsQuiet
<1>1. EventsInv => StoppedIsQuiet
  BY DEF EventsInv, CronsListed, QueueInv, HandlersSubscribed, WatcherInv, StoppedIsQuiet
<1> QED BY <1>1, Invariance, PTL

(* The publisher posts events for the first time in the order of Publish,  *)
(* whatever fails and is put back into the channel.                        *)
THEOREM OrderSafety == Spec => []FirstAttemptsInOrder
<1>1. EventsInv => FirstAttemptsInOrder
  BY DEF EventsInv, PublisherInv
<1> QED BY <1>1, Invariance, PTL

-----------------------------------------------------------------------------
(* Lists of calls.                                                         *)

(* A listing of a finite set has its elements and no others.               *)
LEMMA ListsSet ==
    ASSUME NEW S, IsFiniteSet(S)
    PROVE  SetToSeq(S) \in Seq(S) /\ ToSet(SetToSeq(S)) = S
<1> DEFINE n == Cardinality(S)
<1>1. n \in Nat /\ ExistsBijection(1 .. n, S)
  BY FS_CardinalityType
<1>2. PICK g \in Bijection(1 .. n, S) : TRUE
  BY <1>1 DEF ExistsBijection
<1>3. g \in [1 .. n -> S] /\ IsInjective(g)
  BY <1>2 DEF Bijection, Injection, IsInjective
<1>4. SetToSeq(S) \in [1 .. n -> S] /\ IsInjective(SetToSeq(S))
  BY <1>3 DEF SetToSeq
<1> DEFINE f == SetToSeq(S)
<1>5. f \in Injection(1 .. n, S)
  BY <1>4 DEF Injection, IsInjective
<1>6. Cardinality(1 .. n) = n
  BY <1>1, FS_Interval
<1>7. f \in Surjection(1 .. n, S)
  BY <1>5, <1>6, FS_Injection
<1>8. ToSet(f) = S
  BY <1>4, <1>7 DEF ToSet, Surjection
<1>9. f \in Seq(S)
  BY <1>1, <1>4
<1> QED BY <1>8, <1>9

(* A list, whatever its elements.                                          *)
IsList(s) == s \in Seq(ToSet(s))

(* A sequence is a list of its own elements.                               *)
LEMMA ListIntro ==
    ASSUME NEW S, NEW s \in Seq(S)
    PROVE  IsList(s) /\ ToSet(s) \subseteq S
<1>1. \A i \in DOMAIN s : s[i] \in ToSet(s)
  BY DEF ToSet
<1>2. IsList(s)
  BY <1>1 DEF IsList
<1>3. ToSet(s) \subseteq S
  BY DEF ToSet
<1> QED BY <1>2, <1>3

LEMMA SetListed ==
    ASSUME NEW S, IsFiniteSet(S)
    PROVE  IsList(SetToSeq(S)) /\ ToSet(SetToSeq(S)) = S
BY ListsSet, ListIntro

LEMMA NoneListed == IsList(<<>>) /\ ToSet(<<>>) = {}
<1>1. ToSet(<<>>) = {}
  BY DEF ToSet
<1>2. <<>> \in Seq({})
  OBVIOUS
<1> QED BY <1>1, <1>2 DEF IsList

LEMMA OneListed ==
    ASSUME NEW x
    PROVE  IsList(<<x>>) /\ ToSet(<<x>>) = {x}
<1>1. ToSet(<<x>>) = {x}
  BY DEF ToSet
<1>2. <<x>> \in Seq({x})
  OBVIOUS
<1> QED BY <1>1, <1>2 DEF IsList

(* One list after another.                                                 *)
LEMMA BothListed ==
    ASSUME NEW s, NEW t, IsList(s), IsList(t)
    PROVE  IsList(s \o t) /\ ToSet(s \o t) = ToSet(s) \cup ToSet(t)
<1> DEFINE S == ToSet(s) \cup ToSet(t)
<1>1. s \in Seq(S) /\ t \in Seq(S)
  BY DEF IsList
<1>2. s \o t \in Seq(S)
  BY <1>1
<1>3. /\ DOMAIN s = 1 .. Len(s) /\ DOMAIN t = 1 .. Len(t)
      /\ DOMAIN (s \o t) = 1 .. (Len(s) + Len(t))
      /\ Len(s) \in Nat /\ Len(t) \in Nat
  BY <1>1, <1>2
<1>4. ASSUME NEW x \in ToSet(s) PROVE x \in ToSet(s \o t)
  <2>1. PICK i \in 1 .. Len(s) : x = s[i]
    BY <1>3 DEF ToSet
  <2>2. i \in DOMAIN (s \o t) /\ (s \o t)[i] = x
    BY <1>1, <1>3, <2>1
  <2> QED BY <2>2 DEF ToSet
<1>5. ASSUME NEW x \in ToSet(t) PROVE x \in ToSet(s \o t)
  <2>1. PICK i \in 1 .. Len(t) : x = t[i]
    BY <1>3 DEF ToSet
  <2>2. Len(s) + i \in DOMAIN (s \o t) /\ (s \o t)[Len(s) + i] = x
    BY <1>1, <1>3, <2>1
  <2> QED BY <2>2 DEF ToSet
<1>6. ToSet(s \o t) \subseteq S /\ IsList(s \o t)
  BY <1>2, ListIntro
<1> QED BY <1>4, <1>5, <1>6

(* A list without its first element.                                       *)
LEMMA RestListed ==
    ASSUME NEW s, IsList(s), s # <<>>
    PROVE  /\ IsList(Tail(s)) /\ Head(s) \in ToSet(s) /\ Head(s) = s[1]
           /\ ToSet(s) = {Head(s)} \cup ToSet(Tail(s))
           /\ Len(s) \in Nat \ {0} /\ Len(Tail(s)) = Len(s) - 1
           /\ \A j \in 1 .. Len(s) - 1 : Tail(s)[j] = s[j + 1]
<1> DEFINE S == ToSet(s)
<1>1. s \in Seq(S)
  BY DEF IsList
<1>2. /\ Len(s) \in Nat \ {0} /\ DOMAIN s = 1 .. Len(s) /\ Len(Tail(s)) = Len(s) - 1
      /\ DOMAIN Tail(s) = 1 .. (Len(s) - 1) /\ Head(s) = s[1]
  BY <1>1
<1>3. \A j \in 1 .. Len(s) - 1 : Tail(s)[j] = s[j + 1]
  BY <1>1, <1>2
<1>4. Tail(s) \in Seq(S)
  BY <1>1
<1>5. IsList(Tail(s)) /\ ToSet(Tail(s)) \subseteq S
  BY <1>4, ListIntro
<1>6. Head(s) \in S
  BY <1>2 DEF ToSet
<1>7. ASSUME NEW x \in S, x # Head(s) PROVE x \in ToSet(Tail(s))
  <2>1. PICK i \in 1 .. Len(s) : x = s[i]
    BY <1>2 DEF ToSet
  <2>2. i # 1
    BY <1>2, <1>7, <2>1
  <2>3. i - 1 \in 1 .. Len(s) - 1 /\ Tail(s)[i - 1] = x
    BY <1>2, <1>3, <2>1, <2>2
  <2> QED BY <1>2, <2>3 DEF ToSet
<1> QED BY <1>2, <1>3, <1>5, <1>6, <1>7

-----------------------------------------------------------------------------
(* Resources and calls.                                                    *)

(* Objects have their types, a uid, and a version that was given out.      *)
StoreTyped ==
    /\ DOMAIN store = Kind
    /\ \A k \in Kind :
         /\ DOMAIN store[k] = Name
         /\ \A n \in Name : store[k][n] # None =>
              /\ store[k][n] \in Object(k, n)
              /\ store[k][n].uid # None
              /\ store[k][n].rv > 0 /\ store[k][n].rv <= version[k][n]
    /\ version \in [Kind -> [Name -> Nat]]

-----------------------------------------------------------------------------
(* Contents and calls have their types.                                    *)

(* The contents of packages, functions and triggers, spelled out.          *)
LEMMA ContentsOf ==
    /\ Contents("fn") = [v : Strategies, to : {{p} : p \in Name}, at : Nat]
    /\ Contents("pkg") = [v : Nat \cup {Bad}, to : {{}}, at : Nat]
    /\ Contents("http") = [v : Route \cup {Bad}, to : SUBSET Name, at : Nat]
    /\ \A k \in Kind \ {"fn", "pkg", "http"} :
          Contents(k) = [v : Nat \cup {Bad}, to : SUBSET Name, at : Nat]
BY DEF Contents, Value, Refs, Kind

(* What the calls of commands look like: one that creates a resource,      *)
Creates(x, k, n, spec) ==
    /\ IsCall(x) /\ x.op = "create" /\ x.k = k /\ x.n = n /\ x.o.spec = spec
    /\ x.lax = FALSE

(* one that changes a resource that was read,                              *)
Updates(x, k, n, spec) ==
    IsCall(x) /\ x.op = "update" /\ x.k = k /\ x.n = n /\ x.o.spec = spec

(* and one that removes a resource or looks whether it may.                *)
Removes(x, k, n) == IsCall(x) /\ x.op = "delete" /\ x.k = k /\ x.n = n

LEMMA CreateTyped ==
    ASSUME NEW k \in Kind, NEW n \in Name, NEW spec \in Contents(k), NEW st \in Status
    PROVE  Creates(Call("create", k, n, Obj(spec, st)), k, n, spec)
<1> DEFINE o == Obj(spec, st)
<1>1. o \in Object(k, n) /\ o.spec = spec
  BY DEF Obj, Object
<1> HIDE DEF o
<1> DEFINE x == Call("create", k, n, o)
<1>2. IsCall(x) /\ x.op = "create" /\ x.k = k /\ x.n = n /\ x.lax = FALSE /\ x.o = o
  BY <1>1 DEF Call, IsCall, ReadOnly
<1> HIDE DEF x
<1>3. Creates(x, k, n, spec)
  BY <1>1, <1>2 DEF Creates
<1> QED BY <1>3 DEF x, o

(* What is stored, with another content and status.                        *)
Revised(o, k, n) ==
    o \in [uid : {Get(k, n).uid}, rv : {Get(k, n).rv}, by : {Get(k, n).by},
           spec : Contents(k), status : Status]

LEMMA RevisedTyped ==
    ASSUME StoreTyped, NEW k \in Kind, NEW n \in Objects(k), NEW o, Revised(o, k, n)
    PROVE  n \in Name /\ o \in Object(k, n)
<1>1. n \in Name /\ Get(k, n) \in Object(k, n)
  BY DEF StoreTyped, Objects, Get
<1> QED BY <1>1 DEF Object, Revised

LEMMA UpdateTyped ==
    ASSUME StoreTyped, NEW k \in Kind, NEW n \in Objects(k), NEW spec \in Contents(k)
    PROVE  /\ Updates(Update(k, n, spec), k, n, spec)
           /\ Updates(Lax(Update(k, n, spec)), k, n, spec)
<1> DEFINE o == [Get(k, n) EXCEPT !.spec = spec]
<1>1. Get(k, n) \in Object(k, n)
  BY DEF StoreTyped, Objects, Get
<1>2. Revised(o, k, n) /\ o.spec = spec
  BY <1>1 DEF Object, Revised
<1>3. n \in Name /\ o \in Object(k, n)
  BY <1>2, RevisedTyped
<1> HIDE DEF o
<1> DEFINE x == Call("update", k, n, o)  y == Lax(x)
<1>4. /\ IsCall(x) /\ x.op = "update" /\ x.k = k /\ x.n = n /\ x.o = o
      /\ IsCall(y) /\ y.op = "update" /\ y.k = k /\ y.n = n /\ y.o = o
  BY <1>3 DEF Call, Lax, IsCall, ReadOnly
<1>5. x = Update(k, n, spec) /\ y = Lax(Update(k, n, spec))
  BY DEF Update, o
<1> HIDE DEF x, y
<1>6. Updates(x, k, n, spec) /\ Updates(y, k, n, spec)
  BY <1>2, <1>4 DEF Updates
<1> QED BY <1>5, <1>6

LEMMA DeleteTyped ==
    ASSUME NEW k \in Kind, NEW n \in Name
    PROVE  Removes(Delete(k, n), k, n) /\ Removes(Lax(Delete(k, n)), k, n)
BY DEF Delete, Lax, Call, IsCall, ReadOnly, Removes

-----------------------------------------------------------------------------
(* What a call becomes when it is sent, and what it writes.                *)

(* Resolving a call changes the version of a function reference only.      *)
LEMMA ResolveFacts ==
    ASSUME NEW c, cl[c].meta \in [Name -> Nat], NEW y, IsCall(y)
    PROVE  LET x == Resolve(c, y) IN
           /\ IsCall(x) /\ x.op = y.op /\ x.k = y.k /\ x.n = y.n /\ x.lax = y.lax
           /\ y.k # "fn" => x = y
           /\ y.op = "delete" => x = y
           /\ y.op \in {"create", "update", "status"} =>
                /\ x.o.uid = y.o.uid /\ x.o.rv = y.o.rv /\ x.o.by = y.o.by
                /\ x.o.status = y.o.status
                /\ x.o.spec.v = y.o.spec.v /\ x.o.spec.to = y.o.spec.to
                /\ y.k = "fn" => \A p \in y.o.spec.to :
                     x.o.spec.at = IF cl[c].meta[p] = 0 THEN y.o.spec.at
                                   ELSE cl[c].meta[p]
<1> DEFINE x == Resolve(c, y)
<1>0. y.op = "orphan" => y.k = "pkg"
  BY DEF IsCall
<1>1. CASE y.k # "fn" \/ y.op = "delete"
  <2>1. x = y
    BY <1>1 DEF Resolve
  <2> QED BY <1>1, <2>1 DEF IsCall
<1>2. CASE y.k = "fn" /\ y.op # "delete"
  <2>1. /\ ~ReadOnly(y) /\ y.o \in Object("fn", y.n) /\ y.n \in Name
        /\ y = [op |-> y.op, k |-> y.k, n |-> y.n, o |-> y.o, lax |-> y.lax]
        /\ y.op \in {"create", "update", "status"} /\ y.lax \in BOOLEAN
    BY <1>0, <1>2 DEF IsCall, ReadOnly, Kind
  <2>2. y.o.spec \in [v : Strategies, to : {{p} : p \in Name}, at : Nat]
    BY <2>1, ContentsOf DEF Object
  <2>3. PICK p \in Name : y.o.spec.to = {p}
    BY <2>2
  <2> DEFINE ver == {cl[c].meta[q] : q \in y.o.spec.to} \ {0}
  <2>4. ver = {cl[c].meta[p]} \ {0}
    BY <2>3
  <2>5. CASE cl[c].meta[p] = 0
    <3>1. ver = {}
      BY <2>4, <2>5
    <3>2. x = y
      BY <1>2, <3>1 DEF Resolve
    <3> QED BY <3>2, <2>3, <2>5, <1>2
  <2>6. CASE cl[c].meta[p] # 0
    <3>1. ver = {cl[c].meta[p]}
      BY <2>4, <2>6
    <3> DEFINE m == cl[c].meta[p]
    <3>2. (CHOOSE v \in ver : TRUE) = m
      BY <3>1
    <3>3. x = [y EXCEPT !.o.spec.at = m]
      BY <1>2, <3>1, <3>2 DEF Resolve
    <3>4. m \in Nat
      OBVIOUS
    <3> HIDE DEF m, x
    <3> DEFINE sp == [y.o.spec EXCEPT !.at = m]
               ob == [y.o EXCEPT !.spec = sp]
    <3>5. sp \in Contents("fn") /\ sp.v = y.o.spec.v /\ sp.to = y.o.spec.to /\ sp.at = m
      BY <2>2, <3>4, ContentsOf
    <3>6. x = [y EXCEPT !.o = [y.o EXCEPT !.spec = sp]]
      BY <3>3
    <3> HIDE DEF sp
    <3>7. /\ ob \in Object("fn", y.n) /\ ob.uid = y.o.uid /\ ob.rv = y.o.rv
          /\ ob.by = y.o.by /\ ob.status = y.o.status /\ ob.spec = sp
      BY <2>1, <3>5 DEF Object
    <3>8. x = [op |-> y.op, k |-> y.k, n |-> y.n, o |-> ob, lax |-> y.lax]
      BY <2>1, <3>6
    <3> HIDE DEF ob
    <3>9. IsCall(x) /\ x.op = y.op /\ x.k = y.k /\ x.n = y.n /\ x.lax = y.lax /\ x.o = ob
      BY <1>2, <2>1, <3>7, <3>8 DEF IsCall, ReadOnly, Kind
    <3>10. \A q \in y.o.spec.to : q = p
      BY <2>3
    <3> QED BY <1>2, <3>5, <3>7, <3>9, <3>10, <2>6 DEF m, x
  <2> QED BY <2>5, <2>6
<1> QED BY <1>1, <1>2

(* No other resource is written.                                           *)
Elsewhere(k, n) ==
    \A kk \in Kind, m \in Name : (kk # k \/ m # n) =>
        store'[kk][m] = store[kk][m] /\ version'[kk][m] = version[kk][m]

(* A call that the API server accepts and carries out.                     *)
LEMMA WriteFacts ==
    ASSUME StoreTyped, NEW x, IsCall(x), x.op # "orphan", Accepts(x), Write(x)
    PROVE  /\ StoreTyped' /\ Elsewhere(x.k, x.n)
           /\ x.k \in Kind /\ x.n \in Name
           /\ x.op = "create" <=> store[x.k][x.n] = None
           /\ x.op \in {"update", "status"} => x.o.rv = store[x.k][x.n].rv
           /\ x.op = "delete" => /\ store'[x.k][x.n] = None
                                 /\ version'[x.k][x.n] = version[x.k][x.n]
           /\ x.op # "delete" =>
                /\ store'[x.k][x.n] # None
                /\ store'[x.k][x.n].by = x.o.by
                /\ store'[x.k][x.n].spec = x.o.spec
                /\ store'[x.k][x.n].status = x.o.status
                /\ store'[x.k][x.n].rv = version[x.k][x.n] + 1
                /\ version'[x.k][x.n] = version[x.k][x.n] + 1
<1> DEFINE k == x.k  n == x.n  nrv == version[k][n] + 1
<1>1. k \in Kind /\ n \in Name /\ x.op \in {"create", "update", "status", "delete"}
  BY DEF IsCall
<1>2. /\ x.op = "create" <=> store[k][n] = None
      /\ x.op \in {"update", "status"} => x.o.rv = store[k][n].rv
  BY <1>1 DEF Accepts
<1>3. /\ DOMAIN store = Kind /\ \A kk \in Kind : DOMAIN store[kk] = Name
      /\ version \in [Kind -> [Name -> Nat]] /\ nrv \in Nat
  BY <1>1 DEF StoreTyped
<1>4. CASE x.op = "delete"
  <2>1. store' = [store EXCEPT ![k][n] = None] /\ version' = version
    BY <1>4 DEF Write
  <2>2. store'[k][n] = None
    BY <1>1, <1>3, <2>1
  <2>3. /\ DOMAIN store' = Kind /\ \A kk \in Kind : DOMAIN store'[kk] = Name
    BY <1>1, <1>3, <2>1
  <2>4. Elsewhere(k, n)
    BY <1>1, <1>3, <2>1 DEF Elsewhere
  <2>5. ASSUME NEW kk \in Kind, NEW m \in Name, store'[kk][m] # None
        PROVE  store'[kk][m] = store[kk][m]
    BY <2>2, <2>4, <2>5 DEF Elsewhere
  <2>6. StoreTyped'
    BY <2>1, <2>3, <2>5 DEF StoreTyped
  <2> QED BY <1>1, <1>2, <1>4, <2>1, <2>2, <2>4, <2>6
<1>5. CASE x.op # "delete"
  <2> DEFINE uid == IF x.op = "create" THEN <<n, nrv>> ELSE store[k][n].uid
             ob == [x.o EXCEPT !.rv = nrv, !.uid = uid]
  <2>1. store' = [store EXCEPT ![k][n] = ob] /\ version' = [version EXCEPT ![k][n] = nrv]
    BY <1>5 DEF Write
  <2>2. uid \in Uid(n) /\ uid # None
    <3>1. CASE x.op = "create"
      <4>1. uid = <<n, nrv>> /\ uid \in Name \X Nat /\ uid \in {n} \X Nat
        BY <1>1, <1>3, <3>1
      <4>2. uid # None
        BY <4>1, NothingAssumption
      <4> QED BY <4>1, <4>2 DEF Uid
    <3>2. CASE x.op # "create"
      <4>1. store[k][n] \in Object(k, n) /\ store[k][n].uid # None
        BY <1>1, <1>2, <3>2 DEF StoreTyped
      <4> QED BY <3>2, <4>1 DEF Object
    <3> QED BY <3>1, <3>2
  <2>3. x.o \in Object(k, n)
    BY <1>1, <1>5 DEF IsCall, ReadOnly
  <2> HIDE DEF uid, nrv
  <2>4. /\ ob \in Object(k, n) /\ ob.uid = uid /\ ob.rv = nrv /\ ob.by = x.o.by
        /\ ob.spec = x.o.spec /\ ob.status = x.o.status
    BY <1>3, <2>2, <2>3 DEF Object
  <2>5. ob # None
    BY <1>1, <2>4, NothingAssumption
  <2> HIDE DEF ob
  <2>6. store'[k][n] = ob /\ version'[k][n] = nrv
    BY <1>1, <1>3, <2>1
  <2>7. /\ DOMAIN store' = Kind /\ \A kk \in Kind : DOMAIN store'[kk] = Name
    BY <1>1, <1>3, <2>1
  <2>8. version' \in [Kind -> [Name -> Nat]]
    BY <1>1, <1>3, <2>1
  <2>9. Elsewhere(k, n)
    BY <1>1, <1>3, <2>1 DEF Elsewhere
  <2>10. nrv > 0
    BY <1>1, <1>3 DEF nrv
  <2>11. ASSUME NEW kk \in Kind, NEW m \in Name, store'[kk][m] # None
         PROVE  /\ store'[kk][m] \in Object(kk, m)
                /\ store'[kk][m].uid # None
                /\ store'[kk][m].rv > 0 /\ store'[kk][m].rv <= version'[kk][m]
    <3>1. CASE kk = k /\ m = n
      <4>1. nrv <= nrv
        BY <1>3
      <4> QED BY <3>1, <2>2, <2>4, <2>6, <2>10, <4>1
    <3>2. CASE kk # k \/ m # n
      <4>1. store'[kk][m] = store[kk][m] /\ version'[kk][m] = version[kk][m]
        BY <2>9, <3>2 DEF Elsewhere
      <4> QED BY <2>11, <4>1 DEF StoreTyped
    <3> QED BY <3>1, <3>2
  <2>12. StoreTyped'
    BY <2>7, <2>8, <2>11 DEF StoreTyped
  <2> QED BY <1>1, <1>2, <1>5, <2>4, <2>5, <2>6, <2>9, <2>12 DEF nrv
<1> QED BY <1>4, <1>5

-----------------------------------------------------------------------------
(* Clients, and what becomes of them after a call.                         *)

(* The type invariant.                                                     *)
ResourcesTypeOK ==
    /\ StoreTyped
    /\ DOMAIN cl = Client /\ \A c \in Client : IsClient(cl[c])
    /\ checked \in [Client -> BOOLEAN]
    /\ last \in [Client -> {"none", "ok", "failed"}]
    /\ commands \in Nat
    /\ fresh \in [Client -> BOOLEAN]
    /\ calm \in BOOLEAN /\ whole \in BOOLEAN
    /\ waived \subseteq Name

(* A client works through ApplyOrder, with specs that were validated; what *)
(* an apply writes is annotated.                                           *)
Form(s) ==
    /\ Len(s.kinds) <= 7
    /\ \A i \in 1 .. Len(s.kinds) : s.kinds[i] = ApplyOrder[i + 7 - Len(s.kinds)]
    /\ ReadSpecs(s.want) /\ Validate(s.want)
    /\ s.cmd # "apply" => s.kinds = <<>>
    /\ s.cmd \in {"idle", "wait"} => s.todo = <<>>
    /\ s.cmd = "apply" => \A x \in ToSet(s.todo) :
         /\ x.op \in {"create", "update", "delete"} /\ x.lax = FALSE
         /\ x.op # "delete" => x.o.by = s.by

(* The type invariant and the forms of clients, on which all else rests.   *)
Base == ResourcesTypeOK /\ \A c \in Client : Form(cl[c])

-----------------------------------------------------------------------------
(* Clients without the type of their calls, for the provers.               *)
ClientSet(work) ==
    [cmd : {"idle", "cli", "apply", "wait"}, todo : {work},
     err : BOOLEAN, kinds : Seq(Kind), by : Deployment \cup {None},
     want : Plans \cup {{}}, del : BOOLEAN, wait : BOOLEAN, force : BOOLEAN,
     meta : [Name -> Nat]]

AreCalls(work) == IsList(work) /\ \A x \in ToSet(work) : IsCall(x)

LEMMA ClientForm ==
    ASSUME NEW s
    PROVE  IsClient(s) <=> s \in ClientSet(s.todo) /\ AreCalls(s.todo)
<1>1. ASSUME IsClient(s) PROVE s \in ClientSet(s.todo) /\ AreCalls(s.todo)
  BY <1>1 DEF IsClient, ClientSet, AreCalls, IsList
<1>2. ASSUME s \in ClientSet(s.todo), AreCalls(s.todo) PROVE IsClient(s)
  BY <1>2 DEF IsClient, ClientSet, AreCalls, IsList
<1> QED BY <1>1, <1>2

LEMMA NoneCalled == AreCalls(<<>>)
BY NoneListed DEF AreCalls

LEMMA IdleTyped == IsClient(Idle) /\ Form(Idle)
<1>1. <<>> \in Seq(Kind) /\ Len(<<>>) = 0
  OBVIOUS
<1>2. Idle \in ClientSet(<<>>) /\ Idle.todo = <<>> /\ Idle.kinds = <<>> /\ Idle.want = {}
      /\ Idle.cmd = "idle"
  BY <1>1 DEF Idle, ClientSet
<1>3. IsClient(Idle)
  BY <1>2, ClientForm, NoneCalled
<1>4. ReadSpecs({}) /\ Validate({})
  BY DEF ReadSpecs, Validate
<1> QED BY <1>1, <1>2, <1>3, <1>4 DEF Form

(* What becomes of a client after a call.                                  *)
Settled(s) ==
    IF Dead(s) THEN Idle
    ELSE IF ~Done(s) THEN s
    ELSE IF s.cmd = "cli" THEN Idle
    ELSE [s EXCEPT !.cmd = IF s.wait THEN "wait" ELSE "idle"]

(* A command that is done keeps what it was about, for the properties.     *)
Rested(r, s) ==
    /\ Done(s) /\ ~Dead(s) /\ s.cmd # "cli" /\ r.cmd \in {"wait", "idle"}
    /\ r.todo = <<>> /\ r.kinds = <<>>
    /\ r.by = s.by /\ r.want = s.want /\ r.del = s.del /\ r.meta = s.meta

(* It is idle, goes on, or rests.                                          *)
LEMMA SettledForms ==
    ASSUME NEW s, IsClient(s)
    PROVE  \/ Dead(s) /\ Settled(s) = Idle
           \/ ~Dead(s) /\ ~Done(s) /\ Settled(s) = s
           \/ ~Dead(s) /\ Done(s) /\ s.cmd = "cli" /\ Settled(s) = Idle
           \/ Rested(Settled(s), s)
<1>1. s \in ClientSet(s.todo)
  BY ClientForm
<1>2. CASE ~Dead(s) /\ Done(s) /\ s.cmd # "cli"
  <2> DEFINE r == [s EXCEPT !.cmd = IF s.wait THEN "wait" ELSE "idle"]
  <2>1. Settled(s) = r
    BY <1>2 DEF Settled
  <2>2. /\ r.cmd \in {"wait", "idle"} /\ r.todo = s.todo /\ r.kinds = s.kinds
        /\ r.by = s.by /\ r.want = s.want /\ r.del = s.del /\ r.meta = s.meta
    BY <1>1 DEF ClientSet
  <2> QED BY <1>2, <2>1, <2>2 DEF Rested, Done
<1> QED BY <1>2 DEF Settled

LEMMA SettledTyped ==
    ASSUME NEW s, IsClient(s), Form(s)
    PROVE  IsClient(Settled(s)) /\ Form(Settled(s))
<1>1. s \in ClientSet(s.todo) /\ AreCalls(s.todo)
  BY ClientForm
<1>2. CASE ~Dead(s) /\ Done(s) /\ s.cmd # "cli"
  <2> DEFINE r == [s EXCEPT !.cmd = IF s.wait THEN "wait" ELSE "idle"]
  <2>1. Settled(s) = r
    BY <1>2 DEF Settled
  <2>2. /\ r.cmd \in {"wait", "idle"} /\ r.todo = s.todo /\ r.kinds = s.kinds
        /\ r.by = s.by /\ r.want = s.want /\ r \in ClientSet(s.todo)
    BY <1>1 DEF ClientSet
  <2> HIDE DEF r
  <2>3. IsClient(r)
    BY <1>1, <2>2, ClientForm
  <2>4. Form(r)
    BY <1>2, <2>2 DEF Form, Done
  <2> QED BY <2>1, <2>3, <2>4
<1> QED BY <1>2, IdleTyped DEF Settled

(* The state of a client whose next call is dealt with.                    *)
LEMMA PopTyped ==
    ASSUME NEW c, IsClient(cl[c]), Form(cl[c]), Pending(c), NEW ok \in BOOLEAN
    PROVE  LET s == cl[c]
               r == Pop(c, ok) IN
           /\ IsClient(r) /\ Form(r) /\ r.todo = Tail(s.todo)
           /\ r.err = (s.err \/ ~ok) /\ r.cmd = s.cmd /\ r.kinds = s.kinds
           /\ r.by = s.by /\ r.want = s.want /\ r.del = s.del /\ r.meta = s.meta
           /\ r.force = s.force /\ r.wait = s.wait
           /\ s.cmd \in {"cli", "apply"}
           /\ IsCall(Head(s.todo)) /\ Head(s.todo) = s.todo[1]
           /\ ToSet(s.todo) = {Head(s.todo)} \cup ToSet(r.todo)
           /\ Len(s.todo) \in Nat \ {0} /\ Len(r.todo) = Len(s.todo) - 1
           /\ \A j \in 1 .. Len(s.todo) - 1 : r.todo[j] = s.todo[j + 1]
<1> DEFINE s == cl[c]  r == Pop(c, ok)
<1>1. s \in ClientSet(s.todo) /\ AreCalls(s.todo)
  BY ClientForm
<1>2. s.todo # <<>> /\ s.cmd \in {"cli", "apply"}
  BY <1>1 DEF Pending, Busy, Form, ClientSet
<1>3. /\ IsList(Tail(s.todo)) /\ Head(s.todo) \in ToSet(s.todo) /\ Head(s.todo) = s.todo[1]
      /\ ToSet(s.todo) = {Head(s.todo)} \cup ToSet(Tail(s.todo))
      /\ Len(s.todo) \in Nat \ {0} /\ Len(Tail(s.todo)) = Len(s.todo) - 1
      /\ \A j \in 1 .. Len(s.todo) - 1 : Tail(s.todo)[j] = s.todo[j + 1]
  BY <1>1, <1>2, RestListed DEF AreCalls
<1> DEFINE t == Tail(s.todo)  e == s.err \/ ~ok
<1>4. e \in BOOLEAN
  BY <1>1 DEF ClientSet
<1>5. r = [s EXCEPT !.todo = t, !.err = e]
  BY DEF Pop
<1> HIDE DEF t, e
<1>6. /\ r \in ClientSet(t) /\ r.todo = t /\ r.err = e /\ r.cmd = s.cmd
      /\ r.kinds = s.kinds /\ r.by = s.by /\ r.want = s.want /\ r.del = s.del
      /\ r.meta = s.meta /\ r.force = s.force /\ r.wait = s.wait
  BY <1>1, <1>4, <1>5 DEF ClientSet
<1>7. AreCalls(t)
  BY <1>1, <1>3 DEF AreCalls, t
<1> HIDE DEF r
<1>8. IsClient(r)
  BY <1>6, <1>7, ClientForm
<1>9. Form(r)
  BY <1>2, <1>3, <1>6 DEF Form, t
<1>10. IsCall(Head(s.todo))
  BY <1>1, <1>3 DEF AreCalls
<1> QED BY <1>2, <1>3, <1>6, <1>8, <1>9, <1>10 DEF r, t, e

(* The versions that a client remembers do not matter for its form.        *)
LEMMA MetaTyped ==
    ASSUME NEW s, IsClient(s), Form(s), NEW m \in [Name -> Nat]
    PROVE  LET r == [s EXCEPT !.meta = m] IN
           /\ IsClient(r) /\ Form(r) /\ r.todo = s.todo
           /\ r.err = s.err /\ r.cmd = s.cmd /\ r.kinds = s.kinds
           /\ r.by = s.by /\ r.want = s.want /\ r.del = s.del /\ r.meta = m
           /\ r.force = s.force /\ r.wait = s.wait
<1> DEFINE r == [s EXCEPT !.meta = m]
<1>1. s \in ClientSet(s.todo) /\ AreCalls(s.todo)
  BY ClientForm
<1>2. /\ r \in ClientSet(s.todo) /\ r.todo = s.todo /\ r.err = s.err /\ r.cmd = s.cmd
      /\ r.kinds = s.kinds /\ r.by = s.by /\ r.want = s.want /\ r.del = s.del
      /\ r.meta = m /\ r.force = s.force /\ r.wait = s.wait
  BY <1>1 DEF ClientSet
<1> HIDE DEF r
<1>3. IsClient(r)
  BY <1>1, <1>2, ClientForm
<1>4. Form(r)
  BY <1>2 DEF Form
<1> QED BY <1>2, <1>3, <1>4 DEF r

(* A call y that succeeds: x is what is sent, r the client after it.       *)
Sent(c, y, x, r) ==
    /\ Pending(c) /\ y = Head(cl[c].todo) /\ x = NextCall(c) /\ Accepts(x)
    /\ IsCall(y) /\ IsCall(x) /\ x.op \in {"create", "update", "status", "delete"}
    /\ x.op = "status" => x.k \in {"pkg", "canary"}
    /\ Write(x) /\ Ready(c)
    /\ IsClient(r) /\ Form(r) /\ r.todo = Tail(cl[c].todo)
    /\ r.err = cl[c].err /\ r.cmd = cl[c].cmd /\ r.kinds = cl[c].kinds
    /\ r.by = cl[c].by /\ r.want = cl[c].want /\ r.del = cl[c].del
    /\ r.force = cl[c].force /\ r.wait = cl[c].wait
    /\ \A p \in Name : r.meta[p] = IF x.k = "pkg" /\ x.op # "delete" /\ p = x.n
                                     THEN version["pkg"][p] + 1 ELSE cl[c].meta[p]
    /\ cl' = [cl EXCEPT ![c] = Settled(r)]
    /\ last' \in [Client -> {"none", "ok", "failed"}]
    /\ commands' = commands
    /\ checked' = [checked EXCEPT ![c] = FALSE]
    /\ fresh' = [d \in Client |-> fresh[d] /\ d = c]
    /\ waived' = IF x.k = "pkg" /\ x.op = "delete" /\ (cl[c].force \/ cl[c].cmd = "apply")
                   THEN waived \cup {x.n} ELSE waived
    /\ calm' = calm /\ whole' = whole

LEMMA SettleLast ==
    ASSUME last \in [Client -> {"none", "ok", "failed"}], NEW c \in Client, NEW s,
           Settle(c, s)
    PROVE  /\ cl' = [cl EXCEPT ![c] = Settled(s)]
           /\ last' \in [Client -> {"none", "ok", "failed"}]
           /\ commands' = commands
BY DEF Settle, Settled

(* Do is such a call.                                                      *)
LEMMA DoSends ==
    ASSUME Base, NEW c \in Client, Do(c)
    PROVE  \E r : Sent(c, Head(cl[c].todo), NextCall(c), r)
<1> DEFINE s == cl[c]  y == Head(s.todo)  x == NextCall(c)
           pop == Pop(c, TRUE)
           r == [pop EXCEPT !.meta[x.n] =
                    IF x.k = "pkg" /\ x.op # "delete" THEN version[x.k][x.n] + 1 ELSE @]
<1>1. /\ Pending(c) /\ x.op # "orphan" /\ Ready(c) /\ Sends(x) /\ Handles(x) /\ Write(x)
      /\ Settle(c, r)
      /\ checked' = [checked EXCEPT ![c] = FALSE]
      /\ fresh' = [d \in Client |-> fresh[d] /\ d = c]
      /\ waived' = IF x.k = "pkg" /\ x.op = "delete" /\ (s.force \/ s.cmd = "apply")
                     THEN waived \cup {x.n} ELSE waived
      /\ calm' = calm /\ whole' = whole
  BY DEF Do
<1>2. IsClient(s) /\ Form(s) /\ version \in [Kind -> [Name -> Nat]]
      /\ last \in [Client -> {"none", "ok", "failed"}]
  BY DEF Base, ResourcesTypeOK, StoreTyped
<1>3. /\ IsClient(pop) /\ Form(pop) /\ pop.todo = Tail(s.todo)
      /\ pop.err = (s.err \/ ~TRUE) /\ pop.cmd = s.cmd /\ pop.kinds = s.kinds
      /\ pop.by = s.by /\ pop.want = s.want /\ pop.del = s.del /\ pop.meta = s.meta
      /\ pop.force = s.force /\ pop.wait = s.wait /\ IsCall(y)
  BY <1>1, <1>2, PopTyped
<1>4. s.meta \in [Name -> Nat] /\ s.err \in BOOLEAN
  BY <1>2, ClientForm DEF ClientSet
<1>5. IsCall(x)
  BY <1>3, <1>4, ResolveFacts DEF NextCall
<1>6. x.k \in Kind /\ x.n \in Name /\ x.op \in {"create", "update", "status", "delete"}
  BY <1>1, <1>5 DEF IsCall
<1>7. Accepts(x) /\ (x.op = "status" => x.k \in {"pkg", "canary"})
  BY <1>1, <1>6 DEF Handles, FunctionApi, PackageApi, HTTPTriggerApi, TimeTriggerApi,
        MessageQueueTriggerApi, WatchApi, EnvironmentApi, CanaryConfigApi, Routed, Kind
<1> DEFINE m == [s.meta EXCEPT ![x.n] =
                    IF x.k = "pkg" /\ x.op # "delete" THEN version[x.k][x.n] + 1 ELSE @]
<1>8. r = [pop EXCEPT !.meta = m]
  BY <1>3
<1>9. version[x.k][x.n] + 1 \in Nat
  BY <1>2, <1>6
<1> HIDE DEF pop, x, y
<1>10. m \in [Name -> Nat]
  BY <1>4, <1>6, <1>9
<1>11. \A p \in Name : m[p] = IF x.k = "pkg" /\ x.op # "delete" /\ p = x.n
                                THEN version["pkg"][p] + 1 ELSE s.meta[p]
  BY <1>4, <1>6
<1> HIDE DEF m
<1> DEFINE q == [pop EXCEPT !.meta = m]
<1>12. /\ IsClient(q) /\ Form(q) /\ q.todo = pop.todo
       /\ q.err = pop.err /\ q.cmd = pop.cmd /\ q.kinds = pop.kinds
       /\ q.by = pop.by /\ q.want = pop.want /\ q.del = pop.del /\ q.meta = m
       /\ q.force = pop.force /\ q.wait = pop.wait
  BY <1>3, <1>10, MetaTyped
<1>13. r = q
  BY <1>8
<1> HIDE DEF r, q
<1>14. /\ cl' = [cl EXCEPT ![c] = Settled(r)]
       /\ last' \in [Client -> {"none", "ok", "failed"}]
       /\ commands' = commands
  BY <1>1, <1>2, SettleLast
<1>15. r.err = s.err
  BY <1>3, <1>4, <1>12, <1>13
<1>16. Sent(c, y, x, r)
  <2>1. y = Head(cl[c].todo) /\ x = NextCall(c)
    BY DEF y, x
  <2> QED BY <1>1, <1>3, <1>5, <1>6, <1>7, <1>11, <1>12, <1>13, <1>14, <1>15, <2>1 DEF Sent
<1> QED BY <1>16 DEF y, x

(* What the call that is sent has of the one that was planned.             *)
LEMMA SentFacts ==
    ASSUME Base, NEW c \in Client, NEW y, NEW x, NEW r, Sent(c, y, x, r)
    PROVE  /\ x.op = y.op /\ x.k = y.k /\ x.n = y.n /\ x.lax = y.lax
           /\ x.k \in Kind /\ x.n \in Name /\ StoreTyped' /\ Elsewhere(x.k, x.n)
           /\ y.k # "fn" => x = y
           /\ y.op = "delete" => x = y
           /\ y.op # "delete" =>
                /\ x.o.uid = y.o.uid /\ x.o.rv = y.o.rv /\ x.o.by = y.o.by
                /\ x.o.status = y.o.status
                /\ x.o.spec.v = y.o.spec.v /\ x.o.spec.to = y.o.spec.to
                /\ y.k = "fn" => \A p \in y.o.spec.to :
                     x.o.spec.at = IF cl[c].meta[p] = 0 THEN y.o.spec.at
                                   ELSE cl[c].meta[p]
           /\ cl[c].cmd \in {"cli", "apply"}
           /\ ToSet(cl[c].todo) = {y} \cup ToSet(r.todo)
           /\ y = cl[c].todo[1] /\ Len(cl[c].todo) \in Nat \ {0}
           /\ Len(r.todo) = Len(cl[c].todo) - 1
           /\ \A j \in 1 .. Len(cl[c].todo) - 1 : r.todo[j] = cl[c].todo[j + 1]
           /\ cl'[c] = Settled(r) /\ DOMAIN cl' = Client
           /\ \A d \in Client \ {c} : cl'[d] = cl[d]
<1> DEFINE s == cl[c]
<1>1. /\ IsClient(s) /\ Form(s) /\ DOMAIN cl = Client /\ StoreTyped
      /\ Pending(c) /\ y = Head(s.todo) /\ x = Resolve(c, y) /\ IsCall(y)
      /\ IsCall(x) /\ Accepts(x) /\ Write(x) /\ r.todo = Tail(s.todo)
      /\ x.op \in {"create", "update", "status", "delete"}
      /\ cl' = [cl EXCEPT ![c] = Settled(r)]
  BY DEF Sent, Base, ResourcesTypeOK, NextCall
<1>2. s.meta \in [Name -> Nat]
  BY <1>1, ClientForm DEF ClientSet
<1>3. /\ x.op = y.op /\ x.k = y.k /\ x.n = y.n /\ x.lax = y.lax
      /\ y.k # "fn" => x = y
      /\ y.op = "delete" => x = y
      /\ y.op \in {"create", "update", "status"} =>
           /\ x.o.uid = y.o.uid /\ x.o.rv = y.o.rv /\ x.o.by = y.o.by
           /\ x.o.status = y.o.status
           /\ x.o.spec.v = y.o.spec.v /\ x.o.spec.to = y.o.spec.to
           /\ y.k = "fn" => \A p \in y.o.spec.to :
                x.o.spec.at = IF s.meta[p] = 0 THEN y.o.spec.at ELSE s.meta[p]
  BY <1>1, <1>2, ResolveFacts
<1>4. x.op # "orphan"
  BY <1>1
<1>5. StoreTyped' /\ Elsewhere(x.k, x.n) /\ x.k \in Kind /\ x.n \in Name
  BY <1>1, <1>4, WriteFacts
<1> DEFINE q == Pop(c, TRUE)
<1>6. /\ q.todo = Tail(s.todo) /\ s.cmd \in {"cli", "apply"}
      /\ Head(s.todo) = s.todo[1]
      /\ ToSet(s.todo) = {Head(s.todo)} \cup ToSet(q.todo)
      /\ Len(s.todo) \in Nat \ {0} /\ Len(q.todo) = Len(s.todo) - 1
      /\ \A j \in 1 .. Len(s.todo) - 1 : q.todo[j] = s.todo[j + 1]
  BY <1>1, PopTyped
<1>7. /\ cl'[c] = Settled(r) /\ DOMAIN cl' = Client
      /\ \A d \in Client \ {c} : cl'[d] = cl[d]
  BY <1>1
<1> HIDE DEF q
<1>8. y.op \in {"create", "update", "status", "delete"}
  BY <1>1, <1>3
<1>9. q.todo = r.todo
  BY <1>1, <1>6
<1>10. /\ ToSet(s.todo) = {y} \cup ToSet(r.todo)
       /\ y = s.todo[1] /\ Len(s.todo) \in Nat \ {0} /\ s.cmd \in {"cli", "apply"}
       /\ Len(r.todo) = Len(s.todo) - 1
       /\ \A j \in 1 .. Len(s.todo) - 1 : r.todo[j] = s.todo[j + 1]
  BY <1>1, <1>6, <1>9
<1>11. y.op # "delete" =>
           /\ x.o.uid = y.o.uid /\ x.o.rv = y.o.rv /\ x.o.by = y.o.by
           /\ x.o.status = y.o.status
           /\ x.o.spec.v = y.o.spec.v /\ x.o.spec.to = y.o.spec.to
           /\ y.k = "fn" => \A p \in y.o.spec.to :
                x.o.spec.at = IF s.meta[p] = 0 THEN y.o.spec.at ELSE s.meta[p]
  BY <1>3, <1>8
<1> QED BY <1>3, <1>5, <1>7, <1>10, <1>11

LEMMA SentBase ==
    ASSUME Base, NEW c \in Client, NEW y, NEW x, NEW r, Sent(c, y, x, r)
    PROVE  Base'
<1>2. /\ StoreTyped' /\ cl'[c] = Settled(r) /\ DOMAIN cl' = Client /\ x.n \in Name
      /\ \A d \in Client \ {c} : cl'[d] = cl[d]
  BY SentFacts
<1>3. IsClient(r) /\ Form(r)
  BY DEF Sent
<1>4. IsClient(cl'[c]) /\ Form(cl'[c])
  BY <1>2, <1>3, SettledTyped
<1>5. \A d \in Client : IsClient(cl'[d]) /\ Form(cl'[d])
  BY <1>2, <1>4 DEF Base, ResourcesTypeOK
<1>6. /\ last' \in [Client -> {"none", "ok", "failed"}] /\ commands' = commands
      /\ calm' = calm /\ whole' = whole
      /\ checked' = [checked EXCEPT ![c] = FALSE]
      /\ fresh' = [d \in Client |-> fresh[d] /\ d = c]
      /\ waived' \in {waived, waived \cup {x.n}}
  BY DEF Sent
<1>7. checked' \in [Client -> BOOLEAN] /\ fresh' \in [Client -> BOOLEAN]
  BY <1>6 DEF Base, ResourcesTypeOK
<1>8. waived' \subseteq Name
  BY <1>2, <1>6 DEF Base, ResourcesTypeOK
<1> QED BY <1>2, <1>5, <1>6, <1>7, <1>8 DEF Base, ResourcesTypeOK

-----------------------------------------------------------------------------
(* What an apply plans.                                                    *)

(* The image of a finite set is finite.                                    *)
LEMMA ImageFinite ==
    ASSUME NEW S, IsFiniteSet(S), NEW f, DOMAIN f = S
    PROVE  IsFiniteSet({f[x] : x \in S})
<1> DEFINE T == {f[x] : x \in S}  g == [x \in S |-> f[x]]
<1>1. g \in Surjection(S, T)
  BY DEF Surjection
<1> QED BY <1>1, FS_Surjection

(* An item of the specs, as it is applied.                                 *)
LEMMA ItemTyped ==
    ASSUME NEW s, IsClient(s), NEW i \in s.want
    PROVE  LET w == WithVersion(s, i) IN
           /\ i.k \in ToSet(ApplyOrder) /\ i.k \in Kind /\ i.n \in Name
           /\ i.status \in Status /\ i.spec \in Contents(i.k)
           /\ w.k = i.k /\ w.n = i.n /\ w.status = i.status /\ w.spec \in Contents(i.k)
           /\ w.spec.v = i.spec.v /\ w.spec.to = i.spec.to
           /\ i.k # "fn" => w = i
           /\ i.k = "fn" => \A p \in i.spec.to : w.spec.at = s.meta[p]
<1> DEFINE w == WithVersion(s, i)
<1>1. s.want \in Plans \cup {{}} /\ s.meta \in [Name -> Nat]
  BY ClientForm DEF ClientSet
<1>2. /\ i \in [k : ToSet(ApplyOrder), n : Name, spec : {i.spec}, status : Status]
      /\ i.spec \in Contents(i.k)
  BY <1>1, PlanAssumption
<1>3. ToSet(ApplyOrder) \subseteq Kind
  BY DEF ToSet, ApplyOrder, Kind
<1>4. CASE i.k # "fn"
  BY <1>2, <1>3, <1>4 DEF WithVersion
<1>5. CASE i.k = "fn"
  <2>1. i.spec \in [v : Strategies, to : {{p} : p \in Name}, at : Nat]
    BY <1>2, <1>5, ContentsOf
  <2>2. PICK p \in Name : i.spec.to = {p}
    BY <2>1
  <2>3. (CHOOSE q \in Name : i.spec.to = {q}) = p
    BY <2>2
  <2> DEFINE m == s.meta[p]
             sp == [i.spec EXCEPT !.at = m]
  <2>4. w = [i EXCEPT !.spec.at = m]
    BY <1>5, <2>3 DEF WithVersion
  <2>5. m \in Nat
    BY <1>1
  <2>6. w = [i EXCEPT !.spec = sp]
    BY <2>4
  <2> HIDE DEF m, w
  <2>7. sp \in Contents("fn") /\ sp.v = i.spec.v /\ sp.to = i.spec.to /\ sp.at = m
    BY <2>1, <2>5, ContentsOf
  <2> HIDE DEF sp
  <2>8. w.k = i.k /\ w.n = i.n /\ w.status = i.status /\ w.spec = sp
    BY <1>2, <2>6
  <2>9. \A q \in i.spec.to : w.spec.at = s.meta[q]
    BY <2>2, <2>7, <2>8 DEF m
  <2> QED BY <1>2, <1>3, <1>5, <2>7, <2>8, <2>9 DEF w
<1> QED BY <1>4, <1>5

(* The calls for it.                                                       *)
LEMMA ApplyItemTyped ==
    ASSUME StoreTyped, NEW s, IsClient(s), NEW i \in s.want, NEW x,
           x \in ApplyItem(s, WithVersion(s, i), Owned(i.k, s.by))
    PROVE  /\ IsCall(x) /\ x.k = i.k /\ x.n = i.n /\ x.lax = FALSE
           /\ x.op \in {"create", "update"}
           /\ x.o.by = s.by /\ x.o.spec = WithVersion(s, i).spec
           /\ x.op = "update" => /\ i.n \in Owned(i.k, s.by)
                                 /\ x.o.rv = Get(i.k, i.n).rv
<1> DEFINE w == WithVersion(s, i)
<1>1. /\ i.k \in Kind /\ i.n \in Name /\ w.k = i.k /\ w.n = i.n /\ w.status \in Status
      /\ w.spec \in Contents(i.k)
  BY ItemTyped
<1>2. s.by \in Deployment \cup {None}
  BY ClientForm DEF ClientSet
<1> HIDE DEF w
<1> DEFINE o == Applied(s, w)
<1>3. /\ o \in Object(i.k, i.n) /\ o.by = s.by /\ o.spec = w.spec
  BY <1>1, <1>2 DEF Applied, Obj, Object
<1>4. CASE w.n \notin Owned(i.k, s.by)
  <2>1. x = Call("create", i.k, i.n, o)
    BY <1>1, <1>4 DEF ApplyItem, w
  <2> HIDE DEF o
  <2> QED BY <1>1, <1>3, <2>1 DEF Call, IsCall, ReadOnly, w
<1>5. CASE w.n \in Owned(i.k, s.by)
  <2>1. Get(i.k, i.n) \in Object(i.k, i.n)
    BY <1>1, <1>5 DEF Owned, Objects, StoreTyped, Get
  <2> DEFINE v == Get(i.k, i.n).rv
             u == [o EXCEPT !.rv = v]
  <2>2. v \in Nat
    BY <2>1 DEF Object
  <2>3. x = Call("update", i.k, i.n, u)
    BY <1>1, <1>5 DEF ApplyItem, w
  <2> HIDE DEF v, o
  <2>4. u \in Object(i.k, i.n) /\ u.by = s.by /\ u.spec = w.spec /\ u.rv = v
    BY <1>3, <2>2 DEF Object
  <2> HIDE DEF u
  <2> QED BY <1>1, <1>5, <2>3, <2>4 DEF Call, IsCall, ReadOnly, v, w
<1> QED BY <1>4, <1>5

(* The calls that bring the items of a kind, and those that remove what is *)
(* not wanted.                                                             *)
Items(s, k) ==
    UNION {ApplyItem(s, WithVersion(s, i), Owned(k, s.by)) : i \in Wanted(s, k)}

Drops(s, k) ==
    IF s.del THEN {Delete(k, n) : n \in Owned(k, s.by) \ Names(s.want, k)} ELSE {}

LEMMA PlanListed ==
    ASSUME StoreTyped, NEW s, IsClient(s), NEW k \in Kind
    PROVE  LET work == SetToSeq(Items(s, k)) \o Deletes(s, k, Owned(k, s.by)) IN
           AreCalls(work) /\ ToSet(work) = Items(s, k) \cup Drops(s, k)
<1> DEFINE owned == Owned(k, s.by)
           A(i) == ApplyItem(s, WithVersion(s, i), owned)
<1>1. s.want \in Plans \cup {{}} /\ s.del \in BOOLEAN
  BY ClientForm DEF ClientSet
<1>2. IsFiniteSet(s.want)
  BY <1>1, PlanAssumption, FS_EmptySet
<1>3. Wanted(s, k) \in SUBSET s.want /\ \A i \in Wanted(s, k) : i.k = k
  BY DEF Wanted
<1>4. IsFiniteSet(Wanted(s, k))
  BY <1>2, <1>3, FS_Subset
<1> DEFINE f == [i \in Wanted(s, k) |-> A(i)]
<1>5. IsFiniteSet({f[i] : i \in Wanted(s, k)})
  <2> HIDE DEF A
  <2>1. DOMAIN f = Wanted(s, k)
    OBVIOUS
  <2> HIDE DEF f
  <2> QED BY <1>4, <2>1, ImageFinite
<1>6. {f[i] : i \in Wanted(s, k)} = {A(i) : i \in Wanted(s, k)}
  <2> HIDE DEF A
  <2> QED OBVIOUS
<1>7. \A i \in Wanted(s, k) : IsFiniteSet(A(i))
  <2>1. TAKE i \in Wanted(s, k)
  <2>2. A(i) = {} \/ \E x : A(i) = {x}
    BY DEF ApplyItem
  <2> HIDE DEF A
  <2> QED BY <2>2, FS_EmptySet, FS_Singleton
<1>8. IsFiniteSet(UNION {A(i) : i \in Wanted(s, k)})
  <2> HIDE DEF A
  <2>1. \A T \in {A(i) : i \in Wanted(s, k)} : IsFiniteSet(T)
    BY <1>7
  <2> QED BY <1>5, <1>6, <2>1, FS_UNION
<1>9. Items(s, k) = UNION {A(i) : i \in Wanted(s, k)}
  BY DEF Items
<1> HIDE DEF A
<1>10. IsList(SetToSeq(Items(s, k))) /\ ToSet(SetToSeq(Items(s, k))) = Items(s, k)
  BY <1>8, <1>9, SetListed
<1>11. IsList(Deletes(s, k, owned)) /\ ToSet(Deletes(s, k, owned)) = Drops(s, k)
  <2>1. CASE s.del
    <3> DEFINE N == owned \ Names(s.want, k)
               g == [n \in N |-> Delete(k, n)]
    <3>1. N \in SUBSET Name
      BY DEF Owned, Objects
    <3>2. IsFiniteSet(N)
      BY <3>1, NothingAssumption, FS_Subset
    <3> HIDE DEF N
    <3>3. DOMAIN g = N /\ {g[n] : n \in N} = {Delete(k, n) : n \in N}
      OBVIOUS
    <3> HIDE DEF g
    <3>4. IsFiniteSet({Delete(k, n) : n \in N})
      BY <3>2, <3>3, ImageFinite
    <3>5. Deletes(s, k, owned) = SetToSeq({Delete(k, n) : n \in N})
      BY <2>1 DEF Deletes, N
    <3>6. Drops(s, k) = {Delete(k, n) : n \in N}
      BY <2>1 DEF Drops, N
    <3> QED BY <3>4, <3>5, <3>6, SetListed
  <2>2. CASE ~s.del
    <3>1. Deletes(s, k, owned) = <<>> /\ Drops(s, k) = {}
      BY <2>2 DEF Deletes, Drops
    <3> QED BY <3>1, NoneListed
  <2> QED BY <2>1, <2>2
<1> DEFINE work == SetToSeq(Items(s, k)) \o Deletes(s, k, owned)
<1>12. IsList(work) /\ ToSet(work) = Items(s, k) \cup Drops(s, k)
  BY <1>10, <1>11, BothListed
<1>13. ASSUME NEW x \in Items(s, k) PROVE IsCall(x)
  <2>1. PICK i \in Wanted(s, k) : x \in A(i)
    BY <1>9
  <2>2. i \in s.want /\ i.k = k
    BY <1>3
  <2>3. x \in ApplyItem(s, WithVersion(s, i), Owned(i.k, s.by))
    BY <2>1, <2>2 DEF A
  <2> QED BY <2>2, <2>3, ApplyItemTyped
<1>14. ASSUME NEW x \in Drops(s, k) PROVE IsCall(x)
  <2>1. PICK n \in Owned(k, s.by) : x = Delete(k, n)
    BY DEF Drops
  <2>2. n \in Name
    BY DEF Owned, Objects
  <2> QED BY <2>1, <2>2, DeleteTyped DEF Removes
<1> HIDE DEF work
<1>15. AreCalls(work)
  BY <1>12, <1>13, <1>14 DEF AreCalls
<1> QED BY <1>12, <1>15 DEF work

(* The packages that are kept as they are.                                 *)
KeptItems(s, k) ==
    {i.n : i \in {i \in Wanted(s, k) :
        i.n \in Owned(k, s.by) /\ Keeps(k, Get(k, i.n), i.spec)}}

(* A kind k is begun by an apply: r is the client with the calls for it.   *)
Planned(c, k, r) ==
    /\ cl[c].cmd = "apply" /\ cl[c].todo = <<>> /\ k \in Kind
    /\ Len(cl[c].kinds) \in 1 .. 7 /\ k = ApplyOrder[8 - Len(cl[c].kinds)]
    /\ IsClient(r) /\ Form(r) /\ r.cmd = "apply"
    /\ r.kinds = Tail(cl[c].kinds) /\ Len(r.kinds) = Len(cl[c].kinds) - 1
    /\ r.by = cl[c].by /\ r.want = cl[c].want /\ r.del = cl[c].del /\ r.err = cl[c].err
    /\ ToSet(r.todo) = Items(cl[c], k) \cup Drops(cl[c], k)
    /\ k # "pkg" => r.meta = cl[c].meta
    /\ k = "pkg" => \A n \in Name :
         r.meta[n] = IF n \in KeptItems(cl[c], k) THEN Get("pkg", n).rv ELSE cl[c].meta[n]
    /\ cl' = [cl EXCEPT ![c] = Settled(r)]
    /\ last' \in [Client -> {"none", "ok", "failed"}] /\ commands' = commands
    /\ UNCHANGED <<apiVars, checked, historyVars>>

(* Each step of applyResources plans the calls of one kind.                *)
LEMMA ApplyPlans ==
    ASSUME Base, NEW c \in Client, NEW k \in Kind, ApplyKind(c, k)
    PROVE  \E r : Planned(c, k, r)
<1> DEFINE s == cl[c]
           owned == Owned(k, s.by)
           work == SetToSeq(Items(s, k)) \o Deletes(s, k, owned)
           kinds == Tail(s.kinds)
           meta == IF k # "pkg" THEN s.meta
                   ELSE [n \in Name |-> IF n \in KeptItems(s, k)
                                         THEN Get("pkg", n).rv ELSE s.meta[n]]
           r == [s EXCEPT !.kinds = kinds, !.todo = work, !.meta = meta]
<1>1. IsClient(s) /\ Form(s) /\ StoreTyped /\ last \in [Client -> {"none", "ok", "failed"}]
  BY DEF Base, ResourcesTypeOK
<1>2. s \in ClientSet(s.todo)
  BY <1>1, ClientForm
<1>3. /\ s.cmd = "apply" /\ s.todo = <<>> /\ s.kinds # <<>> /\ Head(s.kinds) = k
      /\ Settle(c, r)
      /\ UNCHANGED <<apiVars, checked, historyVars>>
  BY DEF ApplyKind, Items, KeptItems
<1>4. AreCalls(work) /\ ToSet(work) = Items(s, k) \cup Drops(s, k)
  BY <1>1, PlanListed
<1>5. s.kinds \in Seq(Kind) /\ s.meta \in [Name -> Nat]
  BY <1>2 DEF ClientSet
<1>6. /\ Len(s.kinds) \in Nat \ {0} /\ kinds \in Seq(Kind) /\ Len(kinds) = Len(s.kinds) - 1
      /\ Head(s.kinds) = s.kinds[1]
      /\ \A j \in 1 .. Len(s.kinds) - 1 : kinds[j] = s.kinds[j + 1]
  BY <1>3, <1>5
<1>7. Len(s.kinds) <= 7
  BY <1>1 DEF Form
<1> DEFINE L == Len(s.kinds)  M == Len(kinds)
<1>0. L \in Nat \ {0} /\ M = L - 1 /\ L <= 7
  BY <1>6, <1>7
<1> HIDE DEF L, M
<1>x. L \in 1 .. 7 /\ 1 + 7 - L = 8 - L /\ 1 \in 1 .. L /\ M <= 7
  BY <1>0
<1>8. meta \in [Name -> Nat]
  <2>1. ASSUME NEW n \in KeptItems(s, "pkg") PROVE Get("pkg", n).rv \in Nat
    <3>1. n \in Objects("pkg")
      BY DEF KeptItems, Owned
    <3>2. Get("pkg", n) \in Object("pkg", n)
      BY <1>1, <3>1 DEF StoreTyped, Objects, Get, Kind
    <3> QED BY <3>2 DEF Object
  <2> QED BY <1>5, <2>1
<1>9. /\ k # "pkg" => meta = s.meta
      /\ k = "pkg" => \A n \in Name :
           meta[n] = IF n \in KeptItems(s, k) THEN Get("pkg", n).rv ELSE s.meta[n]
  OBVIOUS
<1> HIDE DEF work, meta
<1>10. /\ r \in ClientSet(work) /\ r.todo = work /\ r.kinds = kinds /\ r.meta = meta
       /\ r.cmd = s.cmd /\ r.by = s.by /\ r.want = s.want /\ r.del = s.del
       /\ r.err = s.err
  BY <1>2, <1>6, <1>8 DEF ClientSet
<1> HIDE DEF r
<1>11. IsClient(r)
  BY <1>4, <1>10, ClientForm
<1>12. ASSUME NEW x \in ToSet(work)
       PROVE  /\ x.op \in {"create", "update", "delete"} /\ x.lax = FALSE
              /\ x.op # "delete" => x.o.by = s.by
  <2>1. CASE x \in Items(s, k)
    <3>1. PICK i \in Wanted(s, k) : x \in ApplyItem(s, WithVersion(s, i), Owned(k, s.by))
      BY <2>1 DEF Items
    <3>2. i \in s.want /\ i.k = k
      BY <3>1 DEF Wanted
    <3>3. x.lax = FALSE /\ x.op \in {"create", "update"} /\ x.o.by = s.by
      BY <1>1, <3>1, <3>2, ApplyItemTyped
    <3> QED BY <3>3
  <2>2. CASE x \in Drops(s, k)
    <3>1. PICK n \in Owned(k, s.by) : x = Delete(k, n)
      BY <2>2 DEF Drops
    <3> QED BY <3>1 DEF Delete, Call
  <2> QED BY <1>4, <2>1, <2>2
<1>13. \A i \in 1 .. Len(kinds) : kinds[i] = ApplyOrder[i + 7 - Len(kinds)]
  <2>1. TAKE i \in 1 .. Len(kinds)
  <2>1x. i \in 1 .. M
    BY DEF M
  <2>2. kinds[i] = s.kinds[i + 1] /\ i + 1 \in 1 .. Len(s.kinds)
    BY <1>6
  <2>3. s.kinds[i + 1] = ApplyOrder[(i + 1) + 7 - Len(s.kinds)]
    BY <1>1, <2>2 DEF Form
  <2>3x. (i + 1) + 7 - L = i + 7 - M
    BY <1>0, <2>1x
  <2>4. (i + 1) + 7 - Len(s.kinds) = i + 7 - Len(kinds)
    BY <2>3x DEF L, M
  <2> QED BY <2>2, <2>3, <2>4
<1>14. Form(r)
  <2>1. Len(r.kinds) <= 7
    BY <1>6, <1>7, <1>10
  <2> QED BY <1>1, <1>3, <1>10, <1>12, <1>13, <2>1 DEF Form
<1>15. k = ApplyOrder[8 - Len(s.kinds)]
  <2>1. s.kinds[1] = ApplyOrder[1 + 7 - Len(s.kinds)]
    BY <1>1, <1>x DEF Form, L
  <2>2. 1 + 7 - Len(s.kinds) = 8 - Len(s.kinds)
    BY <1>x DEF L
  <2> QED BY <1>3, <1>6, <2>1, <2>2
<1>16. /\ cl' = [cl EXCEPT ![c] = Settled(r)]
       /\ last' \in [Client -> {"none", "ok", "failed"}] /\ commands' = commands
  BY <1>1, <1>3, SettleLast
<1>17. Planned(c, k, r)
  <2>1. Len(s.kinds) \in 1 .. 7
    BY <1>x DEF L
  <2> QED BY <1>3, <1>4, <1>6, <1>9, <1>10, <1>11, <1>14, <1>15, <1>16, <2>1 DEF Planned
<1> QED BY <1>17

(* One client goes on and nothing else changes that has a type.            *)
LEMMA ClientBase ==
    ASSUME Base, NEW c \in Client, NEW r, IsClient(r), Form(r),
           cl' = [cl EXCEPT ![c] = r], last' \in [Client -> {"none", "ok", "failed"}],
           commands' \in Nat, UNCHANGED apiVars, checked' \in [Client -> BOOLEAN],
           fresh' \in [Client -> BOOLEAN], calm' \in BOOLEAN, whole' \in BOOLEAN,
           waived' = waived
    PROVE  Base'
<1>1. cl'[c] = r /\ DOMAIN cl' = Client /\ \A d \in Client \ {c} : cl'[d] = cl[d]
  BY DEF Base, ResourcesTypeOK
<1>2. \A d \in Client : IsClient(cl'[d]) /\ Form(cl'[d])
  BY <1>1 DEF Base, ResourcesTypeOK
<1>3. StoreTyped'
  BY DEF Base, ResourcesTypeOK, StoreTyped, apiVars
<1> QED BY <1>1, <1>2, <1>3 DEF Base, ResourcesTypeOK

LEMMA PlannedBase ==
    ASSUME Base, NEW c \in Client, NEW k, NEW r, Planned(c, k, r)
    PROVE  Base'
<1>1. /\ IsClient(r) /\ Form(r) /\ cl' = [cl EXCEPT ![c] = Settled(r)]
      /\ last' \in [Client -> {"none", "ok", "failed"}] /\ commands' = commands
      /\ UNCHANGED <<apiVars, checked, historyVars>>
  BY DEF Planned
<1>2. IsClient(Settled(r)) /\ Form(Settled(r))
  BY <1>1, SettledTyped
<1>3. /\ UNCHANGED apiVars /\ checked' \in [Client -> BOOLEAN] /\ commands' \in Nat
      /\ fresh' \in [Client -> BOOLEAN] /\ calm' \in BOOLEAN /\ whole' \in BOOLEAN
      /\ waived' = waived
  BY <1>1 DEF historyVars, Base, ResourcesTypeOK
<1> QED BY <1>1, <1>2, <1>3, ClientBase

(* A call that fails: r is the client without it.                          *)
Failed(c, r) ==
    /\ Pending(c) /\ IsClient(r) /\ Form(r) /\ r.todo = Tail(cl[c].todo)
    /\ r.err = TRUE /\ r.cmd = cl[c].cmd /\ r.kinds = cl[c].kinds
    /\ r.by = cl[c].by /\ r.want = cl[c].want /\ r.meta = cl[c].meta
    /\ cl[c].cmd \in {"cli", "apply"} /\ IsList(r.todo)
    /\ ToSet(cl[c].todo) = {Head(cl[c].todo)} \cup ToSet(r.todo)
    /\ Len(cl[c].todo) \in Nat \ {0} /\ Len(r.todo) = Len(cl[c].todo) - 1
    /\ \A j \in 1 .. Len(cl[c].todo) - 1 : r.todo[j] = cl[c].todo[j + 1]
    /\ r.force = cl[c].force
    /\ cl' = [cl EXCEPT ![c] = Settled(r)]
    /\ last' \in [Client -> {"none", "ok", "failed"}] /\ commands' = commands
    /\ checked' = [checked EXCEPT ![c] = FALSE] /\ whole' = FALSE
    /\ UNCHANGED <<apiVars, fresh, calm, waived>>

(* A call that fails.                                                      *)
LEMMA FailForm ==
    ASSUME Base, NEW c \in Client, Pending(c), Fail(c)
    PROVE  \E r : Failed(c, r)
<1> DEFINE s == cl[c]  r == Pop(c, FALSE)
<1>1. IsClient(s) /\ Form(s) /\ last \in [Client -> {"none", "ok", "failed"}]
  BY DEF Base, ResourcesTypeOK
<1>2. /\ Settle(c, r) /\ checked' = [checked EXCEPT ![c] = FALSE] /\ whole' = FALSE
      /\ UNCHANGED <<apiVars, fresh, calm, waived>>
  BY DEF Fail
<1>3. /\ IsClient(r) /\ Form(r) /\ r.todo = Tail(s.todo)
      /\ r.err = (s.err \/ ~FALSE) /\ r.cmd = s.cmd /\ r.kinds = s.kinds
      /\ r.by = s.by /\ r.want = s.want /\ r.meta = s.meta
      /\ s.cmd \in {"cli", "apply"} /\ r.force = s.force
      /\ ToSet(s.todo) = {Head(s.todo)} \cup ToSet(r.todo)
      /\ Len(s.todo) \in Nat \ {0} /\ Len(r.todo) = Len(s.todo) - 1
      /\ \A j \in 1 .. Len(s.todo) - 1 : r.todo[j] = s.todo[j + 1]
  BY <1>1, PopTyped
<1> HIDE DEF r
<1>4. /\ cl' = [cl EXCEPT ![c] = Settled(r)] /\ commands' = commands
      /\ last' \in [Client -> {"none", "ok", "failed"}]
  BY <1>1, <1>2, SettleLast
<1>5. r.err = TRUE
  BY <1>3
<1>6. IsList(r.todo)
  BY <1>3, ClientForm DEF AreCalls
<1> QED BY <1>2, <1>3, <1>4, <1>5, <1>6 DEF Failed

LEMMA FailedBase ==
    ASSUME Base, NEW c \in Client, NEW r, Failed(c, r)
    PROVE  Base'
<1>1. /\ IsClient(r) /\ Form(r) /\ cl' = [cl EXCEPT ![c] = Settled(r)]
      /\ last' \in [Client -> {"none", "ok", "failed"}] /\ commands' = commands
      /\ checked' = [checked EXCEPT ![c] = FALSE] /\ whole' = FALSE
      /\ UNCHANGED <<apiVars, fresh, calm, waived>>
  BY DEF Failed
<1>2. IsClient(Settled(r)) /\ Form(Settled(r))
  BY <1>1, SettledTyped
<1>3. /\ UNCHANGED apiVars /\ checked' \in [Client -> BOOLEAN] /\ commands' \in Nat
      /\ fresh' \in [Client -> BOOLEAN] /\ calm' \in BOOLEAN /\ whole' \in BOOLEAN
      /\ waived' = waived
  BY <1>1 DEF Base, ResourcesTypeOK
<1> QED BY <1>1, <1>2, <1>3, ClientBase

(* A package that was listed is looked at: r is the client after it.       *)
Looked(c, y, r) ==
    /\ Pending(c) /\ y = Head(cl[c].todo) /\ y.op = "orphan" /\ y.k = "pkg" /\ y.n \in Name
    /\ cl[c].cmd = "cli" /\ IsClient(r) /\ Form(r) /\ r.cmd = "cli" /\ r.kinds = <<>>
    /\ r.by = cl[c].by /\ r.want = cl[c].want /\ r.meta = cl[c].meta
    /\ r.force = cl[c].force /\ r.err = cl[c].err
    /\ Len(cl[c].todo) \in Nat \ {0} /\ y = cl[c].todo[1]
    /\ \/ /\ FunctionsByPackage(y.n) # {}
          /\ ToSet(cl[c].todo) = {y} \cup ToSet(r.todo)
          /\ Len(r.todo) = Len(cl[c].todo) - 1
          /\ \A j \in 1 .. Len(cl[c].todo) - 1 : r.todo[j] = cl[c].todo[j + 1]
       \/ /\ FunctionsByPackage(y.n) = {}
          /\ ToSet(r.todo) \subseteq {Delete("pkg", y.n)} \cup ToSet(cl[c].todo)
          /\ Len(r.todo) = Len(cl[c].todo) /\ r.todo[1] = Delete("pkg", y.n)
          /\ \A j \in 2 .. Len(cl[c].todo) : r.todo[j] = cl[c].todo[j]
    /\ cl' = [cl EXCEPT ![c] = Settled(r)]
    /\ last' \in [Client -> {"none", "ok", "failed"}] /\ commands' = commands
    /\ UNCHANGED <<apiVars, checked, historyVars>>

(* A turn of deleteOrphanPkgs.                                             *)
LEMMA OrphanLooks ==
    ASSUME Base, NEW c \in Client, Orphan(c)
    PROVE  \E r : Looked(c, Head(cl[c].todo), r)
<1> DEFINE s == cl[c]  y == Head(s.todo)  x == NextCall(c)
<1>1. IsClient(s) /\ Form(s) /\ last \in [Client -> {"none", "ok", "failed"}]
  BY DEF Base, ResourcesTypeOK
<1>2. s \in ClientSet(s.todo) /\ AreCalls(s.todo) /\ s.meta \in [Name -> Nat]
  BY <1>1, ClientForm DEF ClientSet
<1>3. /\ Pending(c) /\ x.op = "orphan" /\ UNCHANGED <<apiVars, checked, historyVars>>
      /\ IF FunctionsByPackage(x.n) = {}
           THEN Settle(c, [s EXCEPT !.todo[1] = Delete("pkg", x.n)])
           ELSE Settle(c, Pop(c, TRUE))
  BY DEF Orphan
<1> DEFINE q == Pop(c, TRUE)
<1>4. /\ IsClient(q) /\ Form(q) /\ q.cmd = s.cmd /\ q.kinds = s.kinds
      /\ q.by = s.by /\ q.want = s.want /\ q.meta = s.meta /\ q.force = s.force
      /\ q.err = (s.err \/ ~TRUE)
      /\ s.cmd \in {"cli", "apply"} /\ IsCall(y) /\ y = s.todo[1]
      /\ ToSet(s.todo) = {y} \cup ToSet(q.todo)
      /\ Len(s.todo) \in Nat \ {0} /\ Len(q.todo) = Len(s.todo) - 1
      /\ \A j \in 1 .. Len(s.todo) - 1 : q.todo[j] = s.todo[j + 1]
  BY <1>1, <1>3, PopTyped
<1>5. x.op = y.op /\ x.n = y.n /\ y.op = "orphan"
  BY <1>2, <1>3, <1>4, ResolveFacts DEF NextCall
<1>6. y.k = "pkg" /\ y.n \in Name
  BY <1>4, <1>5 DEF IsCall
<1>7. s.cmd = "cli" /\ s.kinds = <<>>
  BY <1>1, <1>4, <1>5 DEF Form
<1>x. q.err = s.err
  BY <1>2, <1>4 DEF ClientSet
<1> HIDE DEF q, x, y
<1>8. CASE FunctionsByPackage(y.n) # {}
  <2>1. Settle(c, q)
    BY <1>3, <1>5, <1>8 DEF q
  <2>2. /\ cl' = [cl EXCEPT ![c] = Settled(q)] /\ commands' = commands
        /\ last' \in [Client -> {"none", "ok", "failed"}]
    BY <1>1, <2>1, SettleLast
  <2>3. Looked(c, y, q)
    BY <1>3, <1>4, <1>5, <1>6, <1>7, <1>8, <1>x, <2>2 DEF Looked, y
  <2> QED BY <2>3 DEF y
<1>9. CASE FunctionsByPackage(y.n) = {}
  <2> DEFINE z == Delete("pkg", y.n)
             t == [s.todo EXCEPT ![1] = z]
             r == [s EXCEPT !.todo = t]
  <2>1. Settle(c, r)
    <3>1. r = [s EXCEPT !.todo[1] = z]
      BY <1>2 DEF ClientSet
    <3> QED BY <1>3, <1>5, <1>9, <3>1
  <2>2. IsCall(z) /\ z.op = "delete"
    <3>1. "pkg" \in Kind
      BY DEF Kind
    <3> QED BY <1>6, <3>1, DeleteTyped DEF Removes
  <2> DEFINE S == {z} \cup ToSet(s.todo)
  <2> HIDE DEF z
  <2>3. s.todo \in Seq(S) /\ Len(s.todo) \in Nat \ {0} /\ z \in S
    BY <1>2, <1>4 DEF AreCalls, IsList
  <2>4. /\ t \in Seq(S) /\ Len(t) = Len(s.todo) /\ t[1] = z
        /\ \A j \in 2 .. Len(s.todo) : t[j] = s.todo[j]
    <3> HIDE DEF S
    <3>1. 1 \in 1 .. Len(s.todo) /\ DOMAIN s.todo = 1 .. Len(s.todo)
      BY <2>3
    <3> QED BY <2>3, <3>1
  <2> HIDE DEF t
  <2>5. IsList(t) /\ ToSet(t) \subseteq S
    BY <2>4, ListIntro
  <2>6. AreCalls(t)
    BY <1>2, <2>2, <2>5 DEF AreCalls
  <2>7. /\ r \in ClientSet(t) /\ r.todo = t /\ r.cmd = s.cmd /\ r.kinds = s.kinds
        /\ r.by = s.by /\ r.want = s.want /\ r.meta = s.meta /\ r.force = s.force
        /\ r.err = s.err
    BY <1>2 DEF ClientSet
  <2> HIDE DEF r
  <2>8. IsClient(r)
    BY <2>6, <2>7, ClientForm
  <2>9. Form(r)
    BY <1>1, <1>7, <2>7 DEF Form
  <2>10. /\ cl' = [cl EXCEPT ![c] = Settled(r)] /\ commands' = commands
         /\ last' \in [Client -> {"none", "ok", "failed"}]
    BY <1>1, <2>1, SettleLast
  <2>11. /\ FunctionsByPackage(y.n) = {}
         /\ ToSet(r.todo) \subseteq {Delete("pkg", y.n)} \cup ToSet(s.todo)
         /\ Len(r.todo) = Len(s.todo) /\ r.todo[1] = Delete("pkg", y.n)
         /\ \A j \in 2 .. Len(s.todo) : r.todo[j] = s.todo[j]
    BY <1>9, <2>4, <2>5, <2>7 DEF z
  <2>12. Looked(c, y, r)
    BY <1>3, <1>4, <1>5, <1>6, <1>7, <2>7, <2>8, <2>9, <2>10, <2>11 DEF Looked, y
  <2> QED BY <2>12 DEF y
<1> QED BY <1>8, <1>9

LEMMA LookedBase ==
    ASSUME Base, NEW c \in Client, NEW y, NEW r, Looked(c, y, r)
    PROVE  Base'
<1>1. /\ IsClient(r) /\ Form(r) /\ cl' = [cl EXCEPT ![c] = Settled(r)]
      /\ last' \in [Client -> {"none", "ok", "failed"}] /\ commands' = commands
      /\ UNCHANGED <<apiVars, checked, historyVars>>
  BY DEF Looked
<1>2. IsClient(Settled(r)) /\ Form(Settled(r))
  BY <1>1, SettledTyped
<1>3. /\ UNCHANGED apiVars /\ checked' \in [Client -> BOOLEAN] /\ commands' \in Nat
      /\ fresh' \in [Client -> BOOLEAN] /\ calm' \in BOOLEAN /\ whole' \in BOOLEAN
      /\ waived' = waived
  BY <1>1 DEF historyVars, Base, ResourcesTypeOK
<1> QED BY <1>1, <1>2, <1>3, ClientBase

-----------------------------------------------------------------------------
(* A wait that is over.                                                    *)
Waited(c, r) ==
    /\ cl[c].cmd = "wait" /\ IsClient(r) /\ Form(r) /\ r.cmd = "idle"
    /\ r.todo = cl[c].todo /\ r.kinds = cl[c].kinds /\ r.by = cl[c].by
    /\ r.want = cl[c].want /\ r.del = cl[c].del /\ r.meta = cl[c].meta
    /\ cl' = [cl EXCEPT ![c] = r]
    /\ last' = [last EXCEPT ![c] = "ok"]
    /\ UNCHANGED <<apiVars, checked, commands, historyVars>>

LEMMA WaitOverForm ==
    ASSUME Base, NEW c \in Client, WaitOver(c)
    PROVE  \E r : Waited(c, r)
<1> DEFINE s == cl[c]  r == [s EXCEPT !.cmd = "idle"]
<1>1. IsClient(s) /\ Form(s) /\ DOMAIN cl = Client
  BY DEF Base, ResourcesTypeOK
<1>2. s \in ClientSet(s.todo) /\ AreCalls(s.todo)
  BY <1>1, ClientForm
<1>3. /\ s.cmd = "wait" /\ cl' = [cl EXCEPT ![c].cmd = "idle"]
      /\ last' = [last EXCEPT ![c] = "ok"]
      /\ UNCHANGED <<apiVars, checked, commands, historyVars>>
  BY DEF WaitOver
<1>4. cl' = [cl EXCEPT ![c] = r]
  BY <1>1, <1>3
<1>5. /\ r \in ClientSet(s.todo) /\ r.cmd = "idle" /\ r.todo = s.todo
      /\ r.kinds = s.kinds /\ r.by = s.by /\ r.want = s.want /\ r.del = s.del
      /\ r.meta = s.meta
  BY <1>2 DEF ClientSet
<1> HIDE DEF r
<1>6. IsClient(r)
  BY <1>2, <1>5, ClientForm
<1>7. Form(r)
  BY <1>1, <1>3, <1>5 DEF Form
<1> QED BY <1>3, <1>4, <1>5, <1>6, <1>7 DEF Waited

LEMMA WaitedBase ==
    ASSUME Base, NEW c \in Client, NEW r, Waited(c, r)
    PROVE  Base'
<1>1. /\ IsClient(r) /\ Form(r) /\ cl' = [cl EXCEPT ![c] = r]
      /\ last' = [last EXCEPT ![c] = "ok"]
      /\ UNCHANGED <<apiVars, checked, commands, historyVars>>
  BY DEF Waited
<1>2. /\ UNCHANGED apiVars /\ checked' \in [Client -> BOOLEAN] /\ commands' \in Nat
      /\ fresh' \in [Client -> BOOLEAN] /\ calm' \in BOOLEAN /\ whole' \in BOOLEAN
      /\ waived' = waived /\ last' \in [Client -> {"none", "ok", "failed"}]
  BY <1>1 DEF historyVars, Base, ResourcesTypeOK
<1> QED BY <1>1, <1>2, ClientBase

-----------------------------------------------------------------------------
(* The builder writes the status st of a package, and after a success the  *)
(* functions that use it.                                                  *)
Touched(p, st) == IF st = "succeeded" THEN FunctionsByPackage(p) ELSE {}

(* A step of the builder: a package gets a status, and after a success its *)
(* functions get its version.                                              *)
Built(p, st) ==
    /\ p \in Name /\ Exists("pkg", p) /\ st \in {"running", "failed", "succeeded"}
    /\ StoreTyped' /\ BuilderWrites
    /\ LET o == store["pkg"][p]
           o2 == store'["pkg"][p]
       IN  /\ o2 # None /\ o2.by = o.by /\ o2.spec = o.spec /\ o2.status = st
           /\ o2.rv = version["pkg"][p] + 1 /\ version'["pkg"][p] = version["pkg"][p] + 1
    /\ \A n \in Name \ {p} : /\ store'["pkg"][n] = store["pkg"][n]
                             /\ version'["pkg"][n] = version["pkg"][n]
    /\ \A f \in Touched(p, st) :
         LET o == store["fn"][f]
             o2 == store'["fn"][f]
         IN  /\ o2 # None /\ o2.by = o.by /\ o2.spec.v = o.spec.v /\ o2.spec.to = o.spec.to
             /\ o2.spec.at = version["pkg"][p] + 1
             /\ o2.rv = version["fn"][f] + 1 /\ version'["fn"][f] = version["fn"][f] + 1
    /\ \A f \in Name \ Touched(p, st) : /\ store'["fn"][f] = store["fn"][f]
                                        /\ version'["fn"][f] = version["fn"][f]
    /\ \A k \in Kind \ {"pkg", "fn"}, n \in Name :
         store'[k][n] = store[k][n] /\ version'[k][n] = version[k][n]

LEMMA BuildStartsForm ==
    ASSUME Base, NEW p \in Name, BuildStarts(p)
    PROVE  Built(p, "running")
<1> DEFINE g == Get("pkg", p)
           o == [g EXCEPT !.status = "running"]
           x == Call("status", "pkg", p, o)
<1>1. StoreTyped /\ "pkg" \in Kind /\ "fn" \in Kind
  BY DEF Base, ResourcesTypeOK, Kind
<1>2. Exists("pkg", p) /\ Write(x) /\ BuilderWrites
  BY DEF BuildStarts
<1>3. g \in Object("pkg", p) /\ g = store["pkg"][p] /\ g # None
  BY <1>1, <1>2 DEF StoreTyped, Get, Exists
<1>4. /\ o \in Object("pkg", p) /\ o.by = g.by /\ o.spec = g.spec /\ o.status = "running"
      /\ o.rv = g.rv
  BY <1>3 DEF Object, Status
<1> HIDE DEF o, g
<1>5. IsCall(x) /\ x.op = "status" /\ x.k = "pkg" /\ x.n = p /\ x.o = o
  BY <1>1, <1>4 DEF IsCall, Call, ReadOnly
<1> HIDE DEF x
<1>6. Accepts(x)
  BY <1>3, <1>4, <1>5 DEF Accepts
<1>7. /\ StoreTyped' /\ Elsewhere(x.k, x.n)
      /\ x.op # "delete" =>
           /\ store'[x.k][x.n] # None
           /\ store'[x.k][x.n].by = x.o.by
           /\ store'[x.k][x.n].spec = x.o.spec
           /\ store'[x.k][x.n].status = x.o.status
           /\ store'[x.k][x.n].rv = version[x.k][x.n] + 1
           /\ version'[x.k][x.n] = version[x.k][x.n] + 1
  <2>1. x.op # "orphan"
    BY <1>5
  <2> QED BY <1>1, <1>2, <1>5, <1>6, <2>1, WriteFacts
<1>8. Touched(p, "running") = {}
  BY DEF Touched
<1>9. \A kk \in Kind, m \in Name : (kk # "pkg" \/ m # p) =>
        store'[kk][m] = store[kk][m] /\ version'[kk][m] = version[kk][m]
  BY <1>5, <1>7 DEF Elsewhere
<1> QED BY <1>1, <1>2, <1>3, <1>4, <1>5, <1>7, <1>8, <1>9 DEF Built, Kind

-----------------------------------------------------------------------------
(* The builder; commands and how they start.                               *)

(* The end of a build is such a step.                                      *)
LEMMA BuildEndsForm ==
    ASSUME Base, NEW p \in Name, BuildEnds(p)
    PROVE  \E st \in {"failed", "succeeded"} : Built(p, st)
<1> DEFINE g == Get("pkg", p)
           nrv == version["pkg"][p] + 1
           fns == FunctionsByPackage(p)
           fv(f) == version["fn"][f] + 1
           NewFn(f) == [Get("fn", f) EXCEPT !.spec.at = nrv, !.rv = fv(f)]
           PkgAs(st) == [Get("pkg", p) EXCEPT !.status = st, !.rv = nrv]
<1>1. /\ StoreTyped /\ "pkg" \in Kind /\ "fn" \in Kind /\ "pkg" # "fn"
      /\ version \in [Kind -> [Name -> Nat]]
      /\ DOMAIN store = Kind /\ \A k \in Kind : DOMAIN store[k] = Name
  BY DEF Base, ResourcesTypeOK, StoreTyped, Kind
<1>2. Exists("pkg", p) /\ BuilderWrites
  BY DEF BuildEnds
<1>3. g \in Object("pkg", p) /\ g = store["pkg"][p] /\ g.uid # None
  BY <1>1, <1>2 DEF StoreTyped, Get, Exists
<1>4. nrv \in Nat /\ nrv > 0 /\ nrv <= nrv
  BY <1>1
<1>5. ASSUME NEW st \in {"failed", "succeeded"}
      PROVE  /\ PkgAs(st) \in Object("pkg", p) /\ PkgAs(st) # None
             /\ PkgAs(st).by = g.by /\ PkgAs(st).spec = g.spec /\ PkgAs(st).status = st
             /\ PkgAs(st).rv = nrv /\ PkgAs(st).uid # None
  <2>1. st \in Status
    BY DEF Status
  <2> HIDE DEF nrv
  <2>2. /\ PkgAs(st) \in Object("pkg", p)
        /\ PkgAs(st).by = g.by /\ PkgAs(st).spec = g.spec /\ PkgAs(st).status = st
        /\ PkgAs(st).rv = nrv /\ PkgAs(st).uid # None
    BY <1>3, <1>4, <2>1 DEF Object
  <2> HIDE DEF PkgAs
  <2>3. PkgAs(st) # None
    BY <1>1, <2>2, NothingAssumption
  <2> QED BY <2>2, <2>3
<1>6. ASSUME NEW f \in fns
      PROVE  /\ f \in Name /\ NewFn(f) \in Object("fn", f) /\ NewFn(f) # None
             /\ NewFn(f).by = store["fn"][f].by /\ NewFn(f).spec.v = store["fn"][f].spec.v
             /\ NewFn(f).spec.to = store["fn"][f].spec.to
             /\ NewFn(f).spec.at = nrv /\ NewFn(f).rv = fv(f) /\ NewFn(f).uid # None
             /\ fv(f) \in Nat /\ fv(f) > 0 /\ fv(f) <= fv(f)
  <2> DEFINE h == Get("fn", f)  v == fv(f)
  <2>1. f \in Name /\ h = store["fn"][f] /\ h \in Object("fn", f) /\ h.uid # None
    BY <1>1 DEF FunctionsByPackage, Objects, StoreTyped, Get
  <2>2. v \in Nat /\ v > 0 /\ v <= v
    BY <1>1, <2>1
  <2>3. h.spec \in [v : Strategies, to : {{q} : q \in Name}, at : Nat]
    BY <2>1, ContentsOf DEF Object
  <2> DEFINE sp == [h.spec EXCEPT !.at = nrv]
             o == [h EXCEPT !.spec = sp, !.rv = v]
  <2>4. NewFn(f) = o
    BY <2>1 DEF Object
  <2> HIDE DEF nrv, v, h, NewFn
  <2>5. sp \in Contents("fn") /\ sp.v = h.spec.v /\ sp.to = h.spec.to /\ sp.at = nrv
    BY <1>4, <2>3, ContentsOf
  <2> HIDE DEF sp
  <2>6. /\ o \in Object("fn", f) /\ o.by = h.by /\ o.spec = sp /\ o.rv = v
        /\ o.uid = h.uid
    BY <2>1, <2>2, <2>5 DEF Object
  <2> HIDE DEF o
  <2>7. o # None
    BY <1>1, <2>1, <2>6, NothingAssumption
  <2>8. v = fv(f)
    BY DEF v
  <2> HIDE DEF fv
  <2> QED BY <2>1, <2>2, <2>4, <2>5, <2>6, <2>7, <2>8
<1>7. CASE /\ store' = [store EXCEPT !["pkg"][p] = PkgAs("failed")]
           /\ version' = [version EXCEPT !["pkg"][p] = nrv]
  <2> HIDE DEF PkgAs, nrv
  <2> DEFINE st == "failed"
  <2>1. store'["pkg"][p] = PkgAs(st) /\ version'["pkg"][p] = nrv
    BY <1>1, <1>7
  <2>2. \A k \in Kind, n \in Name : (k # "pkg" \/ n # p) =>
           store'[k][n] = store[k][n] /\ version'[k][n] = version[k][n]
    BY <1>1, <1>7
  <2>3. /\ DOMAIN store' = Kind /\ \A k \in Kind : DOMAIN store'[k] = Name
        /\ version' \in [Kind -> [Name -> Nat]]
    BY <1>1, <1>4, <1>7
  <2>4. ASSUME NEW k \in Kind, NEW n \in Name, store'[k][n] # None
        PROVE  /\ store'[k][n] \in Object(k, n) /\ store'[k][n].uid # None
               /\ store'[k][n].rv > 0 /\ store'[k][n].rv <= version'[k][n]
    <3>1. CASE k = "pkg" /\ n = p
      BY <1>4, <1>5, <2>1, <3>1
    <3>2. CASE k # "pkg" \/ n # p
      BY <1>1, <2>2, <2>4, <3>2 DEF StoreTyped
    <3> QED BY <3>1, <3>2
  <2>5. StoreTyped'
    BY <2>3, <2>4 DEF StoreTyped
  <2>6. Touched(p, st) = {}
    BY DEF Touched
  <2>7. Built(p, st)
    BY <1>1, <1>2, <1>3, <1>5, <2>1, <2>2, <2>5, <2>6 DEF Built, nrv
  <2> QED BY <2>7
<1>8. CASE /\ store' = [store EXCEPT !["pkg"][p] = PkgAs("succeeded"),
                !["fn"] = [f \in Name |-> IF f \in fns THEN NewFn(f) ELSE @[f]]]
           /\ version' = [version EXCEPT !["pkg"][p] = nrv,
                !["fn"] = [f \in Name |-> IF f \in fns THEN fv(f) ELSE @[f]]]
  <2> HIDE DEF PkgAs, nrv, NewFn, fns, fv
  <2> DEFINE st == "succeeded"
  <2>1. store'["pkg"][p] = PkgAs(st) /\ version'["pkg"][p] = nrv
    BY <1>1, <1>8
  <2>2. \A f \in fns : store'["fn"][f] = NewFn(f) /\ version'["fn"][f] = fv(f)
    BY <1>1, <1>6, <1>8
  <2>3. \A f \in Name \ fns : /\ store'["fn"][f] = store["fn"][f]
                              /\ version'["fn"][f] = version["fn"][f]
    BY <1>1, <1>8
  <2>4. \A k \in Kind \ {"fn"}, n \in Name : (k # "pkg" \/ n # p) =>
           store'[k][n] = store[k][n] /\ version'[k][n] = version[k][n]
    BY <1>1, <1>8
  <2>5. DOMAIN store' = Kind /\ \A k \in Kind : DOMAIN store'[k] = Name
    BY <1>1, <1>8
  <2>6. version' \in [Kind -> [Name -> Nat]]
    <3>1. DOMAIN version' = Kind /\ \A k \in Kind : DOMAIN version'[k] = Name
      BY <1>1, <1>8
    <3>2. \A k \in Kind, n \in Name : version'[k][n] \in Nat
      BY <1>1, <1>4, <1>6, <2>1, <2>2, <2>3, <2>4
    <3>3. version' = [k \in Kind |-> version'[k]]
      BY <1>1, <1>8
    <3>4. \A k \in Kind : version'[k] = [n \in Name |-> version'[k][n]]
      BY <1>1, <1>8
    <3> QED BY <3>1, <3>2, <3>3, <3>4
  <2>7. ASSUME NEW k \in Kind, NEW n \in Name, store'[k][n] # None
        PROVE  /\ store'[k][n] \in Object(k, n) /\ store'[k][n].uid # None
               /\ store'[k][n].rv > 0 /\ store'[k][n].rv <= version'[k][n]
    <3>1. CASE k = "pkg" /\ n = p
      BY <1>4, <1>5, <2>1, <3>1
    <3>2. CASE k = "fn" /\ n \in fns
      BY <1>6, <2>2, <3>2
    <3>3. CASE (k # "pkg" \/ n # p) /\ (k # "fn" \/ n \notin fns)
      <4>1. store'[k][n] = store[k][n] /\ version'[k][n] = version[k][n]
        BY <2>3, <2>4, <3>3
      <4> QED BY <1>1, <2>7, <4>1 DEF StoreTyped
    <3> QED BY <3>1, <3>2, <3>3
  <2>8. StoreTyped'
    BY <2>5, <2>6, <2>7 DEF StoreTyped
  <2>9. Touched(p, st) = fns
    BY DEF Touched, fns
  <2>10. /\ p \in Name /\ Exists("pkg", p) /\ st \in {"running", "failed", "succeeded"}
         /\ StoreTyped' /\ BuilderWrites
         /\ LET o == store["pkg"][p]
                o2 == store'["pkg"][p]
            IN  /\ o2 # None /\ o2.by = o.by /\ o2.spec = o.spec /\ o2.status = st
                /\ o2.rv = version["pkg"][p] + 1 /\ version'["pkg"][p] = version["pkg"][p] + 1
         /\ \A n \in Name \ {p} : /\ store'["pkg"][n] = store["pkg"][n]
                                  /\ version'["pkg"][n] = version["pkg"][n]
    BY <1>1, <1>2, <1>3, <1>5, <2>1, <2>4, <2>8 DEF nrv
  <2>11. \A f \in Touched(p, st) :
         LET o == store["fn"][f]
             o2 == store'["fn"][f]
         IN  /\ o2 # None /\ o2.by = o.by /\ o2.spec.v = o.spec.v /\ o2.spec.to = o.spec.to
             /\ o2.spec.at = version["pkg"][p] + 1
             /\ o2.rv = version["fn"][f] + 1 /\ version'["fn"][f] = version["fn"][f] + 1
    BY <1>6, <2>2, <2>9 DEF nrv, fv
  <2>12. /\ \A f \in Name \ Touched(p, st) : /\ store'["fn"][f] = store["fn"][f]
                                             /\ version'["fn"][f] = version["fn"][f]
         /\ \A k \in Kind \ {"pkg", "fn"}, n \in Name :
              store'[k][n] = store[k][n] /\ version'[k][n] = version[k][n]
    BY <2>3, <2>4, <2>9
  <2>13. Built(p, st)
    BY <2>10, <2>11, <2>12 DEF Built
  <2> QED BY <2>13
<1> QED BY <1>7, <1>8 DEF BuildEnds

LEMMA BuiltBase ==
    ASSUME Base, NEW p, NEW st, Built(p, st)
    PROVE  Base'
<1>1. StoreTyped' /\ BuilderWrites
  BY DEF Built
<1>2. /\ UNCHANGED <<cl, checked, last, commands, whole, waived>>
      /\ fresh' \in [Client -> BOOLEAN] /\ calm' \in BOOLEAN
  BY <1>1 DEF BuilderWrites, clientVars, Base, ResourcesTypeOK
<1> QED BY <1>1, <1>2 DEF Base, ResourcesTypeOK

-----------------------------------------------------------------------------
(* Calls that write a function, write a package, remove a package.         *)
FnWrite(x) == x.k = "fn" /\ x.op \in {"create", "update", "status"}

PkgWrite(x) == x.k = "pkg" /\ x.op \in {"create", "update", "status"}

PkgGone(x) == x.k = "pkg" /\ ReadOnly(x)

(* What a command of the command line has left to do.  It writes a package *)
(* first and once, or it removes packages and does nothing else.           *)
CliForm(s) ==
    /\ (\E x \in ToSet(s.todo) : PkgGone(x)) => \A x \in ToSet(s.todo) : PkgGone(x)
    /\ \A j \in 2 .. Len(s.todo) : ~PkgWrite(s.todo[j])
    /\ \A x \in ToSet(s.todo) :
         (x.k = "pkg" /\ x.op = "status") => x.o.status = "pending"

(* The packages of the functions that it writes are there, or it is about  *)
(* to create them; without --force it deletes packages without functions.  *)
CliKept(s) ==
    /\ \A j \in 1 .. Len(s.todo) : FnWrite(s.todo[j]) =>
         \A p \in s.todo[j].o.spec.to \ waived :
            \/ Exists("pkg", p)
            \/ /\ j = 2 /\ s.todo[1].k = "pkg" /\ s.todo[1].op = "create"
               /\ s.todo[1].n = p /\ s.todo[2].lax = FALSE
    /\ s.force \/ \A x \in ToSet(s.todo) :
         (x.k = "pkg" /\ x.op = "delete") => FunctionsByPackage(x.n) = {}

(* A function that is written gets the version of its package.             *)
CliVersion(s, x) ==
    \A p \in x.o.spec.to \ waived :
       \/ PkgWrite(s.todo[1]) /\ s.todo[1].n = p
       \/ /\ Exists("pkg", p)
          /\ \/ s.meta[p] = Get("pkg", p).rv
             \/ s.meta[p] = 0 /\ x.o.spec.at = Get("pkg", p).rv

(* A function whose package is written is written too.                     *)
CliVersions(s) ==
    /\ \A x \in ToSet(s.todo) :
         (x.k = "pkg" /\ x.op = "update") =>
            \A f \in FunctionsByPackage(x.n) :
               \E z \in ToSet(s.todo) : FnWrite(z) /\ z.n = f
    /\ \A x \in ToSet(s.todo) : FnWrite(x) => CliVersion(s, x)

(* How a command begins.                                                   *)
Starts(s) ==
    /\ IsClient(s) /\ Form(s) /\ s.cmd \in {"cli", "apply"} /\ s.err = FALSE
    /\ s.cmd = "apply" => s.todo = <<>> /\ Len(s.kinds) = 7
    /\ s.cmd = "cli" => CliForm(s) /\ CliKept(s) /\ CliVersions(s)

(* A command that starts well keeps the types.                             *)
LEMMA BeginBase ==
    ASSUME Base, NEW c \in Client, NEW s, Begin(c, s), Starts(s)
    PROVE  Base'
<1>1. /\ IsClient(s) /\ Form(s) /\ cl' = [cl EXCEPT ![c] = s]
      /\ commands' = commands + 1 /\ last' = [last EXCEPT ![c] = "none"]
      /\ fresh' = [fresh EXCEPT ![c] = TRUE]
      /\ calm' = (calm /\ \A d \in Client : ~Busy(d))
      /\ whole' = (whole /\ ~LeavesOut(s))
      /\ UNCHANGED apiVars /\ checked' = checked /\ waived' = waived
  BY DEF Begin, Starts
<1>2. /\ checked' \in [Client -> BOOLEAN] /\ commands' \in Nat
      /\ fresh' \in [Client -> BOOLEAN] /\ calm' \in BOOLEAN /\ whole' \in BOOLEAN
      /\ last' \in [Client -> {"none", "ok", "failed"}]
  BY <1>1 DEF Base, ResourcesTypeOK
<1> QED BY <1>1, <1>2, ClientBase

-----------------------------------------------------------------------------
(* The commands begin as they should.                                      *)

(* A list that begins with u and goes on with elements of S.               *)
LedBy(t, u, S) ==
    IsList(t) /\ Len(t) > 0 /\ t[1] = u /\ \A j \in 2 .. Len(t) : t[j] \in S

(* Lists with a first call of their own.                                   *)
LEMMA LedOne ==
    ASSUME NEW u
    PROVE  LedBy(<<u>>, u, {}) /\ ToSet(<<u>>) = {u}
<1>1. IsList(<<u>>) /\ ToSet(<<u>>) = {u}
  BY OneListed
<1>2. Len(<<u>>) = 1 /\ <<u>>[1] = u /\ \A j \in 2 .. Len(<<u>>) : FALSE
  OBVIOUS
<1> QED BY <1>1, <1>2 DEF LedBy

LEMMA LedMore ==
    ASSUME NEW t, NEW u, NEW S, LedBy(t, u, S), NEW v, IsList(v)
    PROVE  /\ LedBy(t \o v, u, S \cup ToSet(v))
           /\ ToSet(t \o v) = ToSet(t) \cup ToSet(v)
           /\ t \o v # <<>>
<1> DEFINE E == ToSet(t) \cup ToSet(v)
<1>1. IsList(t) /\ Len(t) > 0 /\ t[1] = u /\ \A j \in 2 .. Len(t) : t[j] \in S
  BY DEF LedBy
<1>2. IsList(t \o v) /\ ToSet(t \o v) = E
  BY <1>1, BothListed
<1>3. t \in Seq(E) /\ v \in Seq(E)
  BY <1>1 DEF IsList
<1>4. /\ Len(t) \in Nat /\ Len(v) \in Nat /\ Len(t \o v) = Len(t) + Len(v)
      /\ \A j \in 1 .. Len(t) : (t \o v)[j] = t[j]
      /\ \A j \in Len(t) + 1 .. Len(t) + Len(v) : (t \o v)[j] = v[j - Len(t)]
  BY <1>3
<1>5. \A j \in 1 .. Len(v) : v[j] \in ToSet(v)
  BY <1>3 DEF ToSet
<1>6. ASSUME NEW j \in 2 .. Len(t \o v) PROVE (t \o v)[j] \in S \cup ToSet(v)
  <2>1. CASE j \in 2 .. Len(t)
    BY <1>1, <1>4, <2>1
  <2>2. CASE j \in Len(t) + 1 .. Len(t) + Len(v)
    <3>1. j - Len(t) \in 1 .. Len(v)
      BY <1>4, <2>2
    <3> QED BY <1>4, <1>5, <2>2, <3>1
  <2> QED BY <1>1, <1>4, <2>1, <2>2
<1>7. (t \o v)[1] = u /\ Len(t \o v) > 0
  BY <1>1, <1>4
<1> QED BY <1>2, <1>6, <1>7 DEF LedBy

(* The state in which a command of the command line begins.                *)
CliState(work, force) == [Idle EXCEPT !.cmd = "cli", !.todo = work, !.force = force]

LEMMA CliStateFields ==
    ASSUME NEW work, NEW force
    PROVE  LET s == CliState(work, force) IN
           s.todo = work /\ s.force = force /\ s.meta = [n \in Name |-> 0] /\ s.cmd = "cli"
BY DEF CliState, Idle

(* When such a state starts well.                                          *)
LEMMA CliStarts ==
    ASSUME NEW c, NEW work, NEW force \in BOOLEAN, AreCalls(work), RunForced(c, work, force),
           CliForm(CliState(work, force)), CliKept(CliState(work, force)),
           CliVersions(CliState(work, force))
    PROVE  \E s : Begin(c, s) /\ Starts(s)
<1> DEFINE s == CliState(work, force)
<1>1. Begin(c, s)
  BY DEF RunForced, CliState
<1>2. Idle \in ClientSet(<<>>) /\ Idle.kinds = <<>> /\ Idle.want = {} /\ Idle.err = FALSE
  <2>1. Idle.todo = <<>> /\ Idle.kinds = <<>> /\ Idle.want = {} /\ Idle.err = FALSE
    BY DEF Idle
  <2> QED BY <2>1, IdleTyped, ClientForm
<1>3. /\ s \in ClientSet(work) /\ s.todo = work /\ s.cmd = "cli" /\ s.kinds = <<>>
      /\ s.want = {} /\ s.err = FALSE
  BY <1>2 DEF CliState, ClientSet
<1> HIDE DEF s
<1>4. IsClient(s)
  BY <1>3, ClientForm
<1>5. Form(s)
  <2>1. Form(Idle) /\ Idle.kinds = <<>> /\ Idle.want = {}
    BY <1>2, IdleTyped
  <2> QED BY <1>3, <2>1 DEF Form
<1>6. Starts(s)
  BY <1>3, <1>4, <1>5 DEF Starts, s
<1> QED BY <1>1, <1>6

(* Commands that write neither a package nor a function.                   *)
LEMMA PlainStarts ==
    ASSUME NEW c, NEW work, NEW force \in BOOLEAN, AreCalls(work), RunForced(c, work, force),
           \A x \in ToSet(work) : x.k # "pkg" /\ ~FnWrite(x)
    PROVE  \E s : Begin(c, s) /\ Starts(s)
<1> DEFINE s == CliState(work, force)
<1>1. s.todo = work
  BY CliStateFields
<1>2. \A j \in 1 .. Len(work) : work[j] \in ToSet(work)
  BY DEF AreCalls, IsList, ToSet
<1>3. \A j \in 1 .. Len(work) : ~PkgWrite(work[j]) /\ ~FnWrite(work[j])
  BY <1>2 DEF PkgWrite
<1>4. \A j \in 2 .. Len(work) : j \in 1 .. Len(work)
  BY DEF AreCalls, IsList
<1> HIDE DEF s
<1>5. CliForm(s) /\ CliKept(s) /\ CliVersions(s)
  BY <1>1, <1>3, <1>4 DEF CliForm, CliKept, CliVersions, PkgGone
<1> QED BY <1>5, CliStarts DEF s

(* Commands that remove packages.                                          *)
LEMMA RemovalStarts ==
    ASSUME NEW c, NEW work, NEW force \in BOOLEAN, AreCalls(work), RunForced(c, work, force),
           \A x \in ToSet(work) :
              PkgGone(x) /\ (x.op = "delete" => force \/ FunctionsByPackage(x.n) = {})
    PROVE  \E s : Begin(c, s) /\ Starts(s)
<1> DEFINE s == CliState(work, force)
<1>1. s.todo = work /\ s.force = force
  BY CliStateFields
<1>2. \A j \in 1 .. Len(work) : work[j] \in ToSet(work)
  BY DEF AreCalls, IsList, ToSet
<1>3. \A j \in 1 .. Len(work) : ~PkgWrite(work[j]) /\ ~FnWrite(work[j])
  BY <1>2 DEF PkgWrite, FnWrite, PkgGone, ReadOnly
<1>4. \A j \in 2 .. Len(work) : j \in 1 .. Len(work)
  BY DEF AreCalls, IsList
<1> HIDE DEF s
<1>5. \A x \in ToSet(work) : ~FnWrite(x) /\ x.op \in {"delete", "orphan"}
  BY DEF PkgGone, FnWrite, ReadOnly
<1>6. CliForm(s) /\ CliKept(s) /\ CliVersions(s)
  BY <1>1, <1>3, <1>4, <1>5 DEF CliForm, CliKept, CliVersions
<1> QED BY <1>6, CliStarts DEF s

LEMMA OneCalled ==
    ASSUME NEW x, IsCall(x)
    PROVE  AreCalls(<<x>>) /\ ToSet(<<x>>) = {x}
BY OneListed DEF AreCalls

(* Commands whose first call writes a package and whose others, if any,    *)
(* write the functions that use it.                                        *)
LEMMA PackageStarts ==
    ASSUME NEW c, NEW work, AreCalls(work), RunForced(c, work, FALSE),
           NEW u, NEW S, LedBy(work, u, S), ToSet(work) = {u} \cup S,
           PkgWrite(u), u.op = "status" => u.o.status = "pending",
           \A x \in S : x.k # "pkg",
           \A x \in S : FnWrite(x) => x.o.spec.to = {u.n},
           u.op = "create" \/ Exists("pkg", u.n),
           u.op = "create" =>
              \A j \in 2 .. Len(work) : FnWrite(work[j]) => j = 2 /\ work[j].lax = FALSE,
           u.op = "update" => \A f \in FunctionsByPackage(u.n) :
                                 \E x \in S : FnWrite(x) /\ x.n = f
    PROVE  \E s : Begin(c, s) /\ Starts(s)
<1> DEFINE s == CliState(work, FALSE)
<1>1. s.todo = work /\ s.force = FALSE
  BY DEF CliState, Idle
<1>2. work[1] = u /\ \A j \in 2 .. Len(work) : work[j] \in S
  BY DEF LedBy
<1>3. Len(work) \in Nat
  BY DEF AreCalls, IsList
<1>4. u.k = "pkg" /\ u.op \in {"create", "update", "status"} /\ ~FnWrite(u) /\ ~PkgGone(u)
  BY DEF PkgWrite, FnWrite, PkgGone, ReadOnly
<1>5. \A x \in S : ~PkgWrite(x) /\ ~PkgGone(x)
  BY DEF PkgWrite, PkgGone
<1> HIDE DEF s
<1>6. CliForm(s)
  BY <1>1, <1>2, <1>4, <1>5 DEF CliForm
<1>7. ASSUME NEW j \in 1 .. Len(work), FnWrite(work[j]), NEW p \in work[j].o.spec.to
      PROVE  \/ Exists("pkg", p)
             \/ j = 2 /\ u.k = "pkg" /\ u.op = "create" /\ u.n = p /\ work[2].lax = FALSE
  <2>1. j # 1
    BY <1>2, <1>4, <1>7
  <2>2. j \in 2 .. Len(work)
    BY <1>3, <2>1
  <2>3. work[j] \in S
    BY <1>2, <2>2
  <2>4. p = u.n
    BY <1>7, <2>3
  <2> QED BY <1>4, <1>7, <2>2, <2>4
<1>8. CliKept(s)
  <2>1. \A x \in ToSet(work) : ~(x.k = "pkg" /\ x.op = "delete")
    BY <1>4
  <2> QED BY <1>1, <1>2, <1>7, <2>1 DEF CliKept
<1>9. CliVersions(s)
  <2>1. \A x \in ToSet(work) : FnWrite(x) => CliVersion(s, x)
    <3>1. \A x \in ToSet(work) : FnWrite(x) => x.o.spec.to = {u.n}
      BY <1>4
    <3> QED BY <1>1, <1>2, <3>1 DEF CliVersion
  <2>2. \A x \in ToSet(work) : (x.k = "pkg" /\ x.op = "update") =>
            \A f \in FunctionsByPackage(x.n) :
               \E z \in ToSet(work) : FnWrite(z) /\ z.n = f
    BY <1>4
  <2> QED BY <1>1, <2>1, <2>2 DEF CliVersions
<1> QED BY <1>6, <1>8, <1>9, CliStarts DEF s

(* Commands that write functions whose package is there.                   *)
LEMMA FunctionStarts ==
    ASSUME NEW c, NEW work, AreCalls(work), RunForced(c, work, FALSE),
           \A x \in ToSet(work) : x.k # "pkg",
           \A x \in ToSet(work) : FnWrite(x) => \A p \in x.o.spec.to :
              p \in Name /\ Exists("pkg", p) /\ x.o.spec.at = Get("pkg", p).rv
    PROVE  \E s : Begin(c, s) /\ Starts(s)
<1> DEFINE s == CliState(work, FALSE)
<1>1. s.todo = work /\ s.force = FALSE /\ s.meta = [n \in Name |-> 0]
  BY DEF CliState, Idle
<1>2. \A j \in 1 .. Len(work) : work[j] \in ToSet(work)
  BY DEF AreCalls, IsList, ToSet
<1>3. \A j \in 2 .. Len(work) : j \in 1 .. Len(work)
  BY DEF AreCalls, IsList
<1>4. \A x \in ToSet(work) : ~PkgWrite(x) /\ ~PkgGone(x)
  BY DEF PkgWrite, PkgGone
<1> HIDE DEF s
<1>5. CliForm(s)
  BY <1>1, <1>2, <1>3, <1>4 DEF CliForm
<1>6. CliKept(s)
  BY <1>1, <1>2 DEF CliKept
<1>7. CliVersions(s)
  BY <1>1 DEF CliVersions, CliVersion
<1> QED BY <1>5, <1>6, <1>7, CliStarts DEF s

-----------------------------------------------------------------------------
(* Every command starts well.                                              *)

(* A command begins, and starts well.                                      *)
Commenced(c) == \E s : Begin(c, s) /\ Starts(s)

LEMMA KindsAre ==
    /\ "env" \in Kind /\ "pkg" \in Kind /\ "fn" \in Kind /\ "http" \in Kind
    /\ "watch" \in Kind /\ "time" \in Kind /\ "mq" \in Kind /\ "canary" \in Kind
BY DEF Kind

LEMMA CreatePackageTyped ==
    ASSUME NEW p \in Name, NEW v \in Archive, NEW x, x = CreatePackage(p, v)
    PROVE  \E spec : Creates(x, "pkg", p, spec)
<1> DEFINE spec == Content(v, {}, 0)
           st == IF v = 2 THEN "pending" ELSE "succeeded"
           k == "pkg"
<1>1. spec \in Contents(k)
  <2>1. spec \in [v : Nat \cup {Bad}, to : {{}}, at : Nat]
    BY DEF Content, Archive
  <2> QED BY <2>1, ContentsOf
<1>2. st \in Status /\ k \in Kind
  BY KindsAre DEF Status
<1>3. x = Call("create", k, p, Obj(spec, st))
  BY DEF CreatePackage
<1> HIDE DEF spec, st, k
<1>4. Creates(x, k, p, spec)
  BY <1>1, <1>2, <1>3, CreateTyped
<1> QED BY <1>4 DEF k

(* Every command of the package group starts well.                         *)
LEMMA PackageCreateStarts ==
    ASSUME Base, NEW c \in Client, PackageCreate(c)
    PROVE  Commenced(c)
<1>1. PICK p \in Name, v \in Archive : Run(c, <<CreatePackage(p, v)>>)
  BY DEF PackageCreate
<1> DEFINE u == CreatePackage(p, v)
<1> HIDE DEF u
<1>2. IsCall(u) /\ u.op = "create" /\ u.k = "pkg" /\ u.n = p
  <2>1. PICK spec : Creates(u, "pkg", p, spec)
    BY CreatePackageTyped DEF u
  <2> QED BY <2>1 DEF Creates
<1>3. AreCalls(<<u>>) /\ ToSet(<<u>>) = {u}
  BY <1>2, OneCalled
<1>4. LedBy(<<u>>, u, {})
  BY LedOne
<1>5. RunForced(c, <<u>>, FALSE)
  BY <1>1 DEF Run, u
<1>6. PkgWrite(u) /\ ~FnWrite(u)
  BY <1>2 DEF PkgWrite, FnWrite
<1>7. \A j \in 2 .. Len(<<u>>) : FALSE
  OBVIOUS
<1> QED BY <1>2, <1>3, <1>4, <1>5, <1>6, <1>7, PackageStarts DEF Commenced

LEMMA UpdatePackageTyped ==
    ASSUME StoreTyped, NEW p \in Objects("pkg"), NEW v \in Archive
    PROVE  \E u : /\ UpdatePackage(p, v) = <<u>>
                  /\ IsCall(u) /\ u.op = "update" /\ u.k = "pkg" /\ u.n = p
<1> DEFINE g == Get("pkg", p)
           st == IF v = 2 THEN "pending" ELSE g.status
           sp == [g.spec EXCEPT !.v = v]
           o == [g EXCEPT !.spec = sp, !.status = st]
           u == Call("update", "pkg", p, o)
<1>1. v # None /\ v \in Nat
  BY NothingAssumption DEF Archive
<1>2. g \in Object("pkg", p) /\ p \in Name
  BY KindsAre DEF StoreTyped, Objects, Get
<1>3. UpdatePackage(p, v) = <<u>>
  <2>1. [g EXCEPT !.spec.v = v, !.status = IF v = 2 THEN "pending" ELSE @] = o
    BY <1>2 DEF Object
  <2> QED BY <1>1, <2>1 DEF UpdatePackage
<1>4. g.spec \in [v : Nat \cup {Bad}, to : {{}}, at : Nat] /\ g.status \in Status
  BY <1>2, ContentsOf DEF Object
<1>5. sp \in Contents("pkg")
  BY <1>1, <1>4, ContentsOf
<1>6. st \in Status
  BY <1>4 DEF Status
<1> HIDE DEF sp, st, g
<1>7. o \in Object("pkg", p)
  BY <1>2, <1>5, <1>6 DEF Object
<1> HIDE DEF o
<1>8. IsCall(u) /\ u.op = "update" /\ u.k = "pkg" /\ u.n = p
  BY <1>2, <1>7, KindsAre DEF Call, IsCall, ReadOnly
<1> QED BY <1>3, <1>8

(* The functions of a package are written again.                           *)
LEMMA VersionsListed ==
    ASSUME StoreTyped, NEW p, NEW fns \in SUBSET FunctionsByPackage(p), NEW t,
           t = UpdateFunctionPackageResourceVersion(fns)
    PROVE  /\ AreCalls(t)
           /\ \A x \in ToSet(t) : x.k = "fn" /\ FnWrite(x) /\ x.o.spec.to = {p}
           /\ \A f \in fns : \E x \in ToSet(t) : FnWrite(x) /\ x.n = f
<1> DEFINE F(f) == Lax(Update("fn", f, Get("fn", f).spec))
           g == [f \in fns |-> F(f)]
<1>1. fns \in SUBSET Name /\ \A f \in fns : f \in Objects("fn") /\ Get("fn", f).spec.to = {p}
  BY DEF FunctionsByPackage, Objects
<1>2. IsFiniteSet(fns)
  BY <1>1, NothingAssumption, FS_Subset
<1>3. ASSUME NEW f \in fns
      PROVE  /\ IsCall(F(f)) /\ F(f).op = "update" /\ F(f).k = "fn" /\ F(f).n = f
             /\ F(f).o.spec.to = {p}
  <2>1. Get("fn", f).spec \in Contents("fn")
    BY <1>1, KindsAre DEF StoreTyped, Objects, Object, Get
  <2> DEFINE k == "fn"
             sp == Get(k, f).spec
  <2>2. k \in Kind /\ f \in Objects(k) /\ sp \in Contents(k)
    BY <1>1, <2>1, KindsAre
  <2> HIDE DEF sp, k
  <2> DEFINE y == Lax(Update(k, f, sp))
  <2>3. Updates(y, k, f, sp)
    BY <2>2, UpdateTyped
  <2>4. y = F(f)
    BY DEF k, sp
  <2> HIDE DEF y, F
  <2> QED BY <1>1, <2>3, <2>4 DEF k, sp, Updates
<1>4. t = SetToSeq({F(f) : f \in fns})
  BY DEF UpdateFunctionPackageResourceVersion
<1> HIDE DEF F
<1>5. DOMAIN g = fns /\ {g[f] : f \in fns} = {F(f) : f \in fns}
  OBVIOUS
<1> HIDE DEF g
<1>6. IsFiniteSet({F(f) : f \in fns})
  BY <1>2, <1>5, ImageFinite
<1>7. IsList(t) /\ ToSet(t) = {F(f) : f \in fns}
  BY <1>4, <1>6, SetListed
<1>8. \A x \in ToSet(t) : IsCall(x) /\ x.k = "fn" /\ FnWrite(x) /\ x.o.spec.to = {p}
  BY <1>3, <1>7 DEF FnWrite
<1>9. AreCalls(t)
  BY <1>7, <1>8 DEF AreCalls
<1>10. \A f \in fns : F(f) \in ToSet(t) /\ FnWrite(F(f)) /\ F(f).n = f
  BY <1>3, <1>7 DEF FnWrite
<1> QED BY <1>8, <1>9, <1>10

LEMMA PackageUpdateStarts ==
    ASSUME Base, NEW c \in Client, PackageUpdate(c)
    PROVE  Commenced(c)
<1>1. PICK p \in Objects("pkg"), v \in Archive, force \in BOOLEAN :
         Run(c, UpdatePackage(p, v)
                \o UpdateFunctionPackageResourceVersion(FunctionsByPackage(p)))
  BY DEF PackageUpdate
<1>2. StoreTyped
  BY DEF Base, ResourcesTypeOK
<1>3. PICK u : /\ UpdatePackage(p, v) = <<u>>
               /\ IsCall(u) /\ u.op = "update" /\ u.k = "pkg" /\ u.n = p
  BY <1>2, UpdatePackageTyped
<1> DEFINE t == UpdateFunctionPackageResourceVersion(FunctionsByPackage(p))
<1>4. /\ AreCalls(t)
      /\ \A x \in ToSet(t) : x.k = "fn" /\ FnWrite(x) /\ x.o.spec.to = {p}
      /\ \A f \in FunctionsByPackage(p) : \E x \in ToSet(t) : FnWrite(x) /\ x.n = f
  BY <1>2, VersionsListed
<1> DEFINE work == <<u>> \o t
<1>5. RunForced(c, work, FALSE)
  BY <1>1, <1>3 DEF Run
<1> HIDE DEF t
<1>6. LedBy(<<u>>, u, {}) /\ ToSet(<<u>>) = {u}
  BY LedOne
<1>7. LedBy(work, u, ToSet(t)) /\ ToSet(work) = {u} \cup ToSet(t)
  <2>1. LedBy(work, u, {} \cup ToSet(t)) /\ ToSet(work) = {u} \cup ToSet(t)
    BY <1>4, <1>6, LedMore DEF AreCalls
  <2>2. {} \cup ToSet(t) = ToSet(t)
    OBVIOUS
  <2> QED BY <2>1, <2>2
<1> HIDE DEF work
<1>8. AreCalls(work)
  BY <1>3, <1>4, <1>7 DEF AreCalls, LedBy
<1>9. PkgWrite(u) /\ Exists("pkg", u.n)
  BY <1>3 DEF PkgWrite, Exists, Objects
<1>10. u.op # "create" /\ u.op # "status" /\ \A x \in ToSet(t) : x.k # "pkg"
  BY <1>3, <1>4
<1> QED BY <1>3, <1>4, <1>5, <1>7, <1>8, <1>9, <1>10, PackageStarts DEF Commenced

LEMMA PackageDeleteStarts ==
    ASSUME Base, NEW c \in Client, PackageDelete(c)
    PROVE  Commenced(c)
<1>1. PICK p \in Objects("pkg"), force \in BOOLEAN :
         /\ force \/ FunctionsByPackage(p) = {}
         /\ RunForced(c, <<Delete("pkg", p)>>, force)
  BY DEF PackageDelete
<1> DEFINE x == Delete("pkg", p)
<1> HIDE DEF x
<1>2. IsCall(x) /\ x.op = "delete" /\ x.k = "pkg" /\ x.n = p
  <2>1. p \in Name
    BY DEF Objects
  <2>2. Removes(x, "pkg", p)
    BY <2>1, KindsAre, DeleteTyped DEF x
  <2> QED BY <2>2 DEF Removes
<1>3. AreCalls(<<x>>) /\ ToSet(<<x>>) = {x}
  BY <1>2, OneCalled
<1>4. PkgGone(x)
  BY <1>2 DEF PkgGone, ReadOnly
<1>5. RunForced(c, <<x>>, force)
  BY <1>1 DEF x
<1> QED BY <1>1, <1>2, <1>3, <1>4, <1>5, RemovalStarts DEF Commenced

LEMMA DeleteOrphanPkgsStarts ==
    ASSUME Base, NEW c \in Client, DeleteOrphanPkgs(c)
    PROVE  Commenced(c)
<1> DEFINE F(p) == Call("orphan", "pkg", p, None)
           N == Objects("pkg")
           g == [p \in N |-> F(p)]
           work == SetToSeq({F(p) : p \in N})
<1>1. RunForced(c, work, FALSE)
  BY DEF DeleteOrphanPkgs, Run
<1>2. N \in SUBSET Name
  BY DEF Objects
<1>3. IsFiniteSet(N)
  BY <1>2, NothingAssumption, FS_Subset
<1>4. \A p \in N : IsCall(F(p)) /\ PkgGone(F(p)) /\ F(p).op = "orphan"
  BY <1>2, KindsAre DEF IsCall, Call, ReadOnly, PkgGone
<1> HIDE DEF F, N
<1>5. DOMAIN g = N /\ {g[p] : p \in N} = {F(p) : p \in N}
  OBVIOUS
<1> HIDE DEF g
<1>6. IsFiniteSet({F(p) : p \in N})
  BY <1>3, <1>5, ImageFinite
<1>7. IsList(work) /\ ToSet(work) = {F(p) : p \in N}
  BY <1>6, SetListed
<1> HIDE DEF work
<1>8. AreCalls(work)
  BY <1>4, <1>7 DEF AreCalls
<1>9. \A x \in ToSet(work) : PkgGone(x) /\ x.op # "delete"
  BY <1>4, <1>7
<1> QED BY <1>1, <1>8, <1>9, RemovalStarts DEF Commenced

LEMMA PackageRebuildStarts ==
    ASSUME Base, NEW c \in Client, PackageRebuild(c)
    PROVE  Commenced(c)
<1>1. PICK p \in Objects("pkg") :
         Run(c, <<Call("status", "pkg", p, [Get("pkg", p) EXCEPT !.status = "pending"])>>)
  BY DEF PackageRebuild
<1>2. Get("pkg", p) \in Object("pkg", p) /\ p \in Name
  BY KindsAre DEF StoreTyped, Objects, Get, Base, ResourcesTypeOK
<1> DEFINE o == [Get("pkg", p) EXCEPT !.status = "pending"]
           u == Call("status", "pkg", p, o)
<1>3. o \in Object("pkg", p) /\ o.status = "pending"
  BY <1>2 DEF Object, Status
<1>4. RunForced(c, <<u>>, FALSE)
  BY <1>1 DEF Run
<1> HIDE DEF o
<1>5. IsCall(u) /\ u.op = "status" /\ u.k = "pkg" /\ u.n = p /\ u.o = o
  BY <1>2, <1>3, KindsAre DEF Call, IsCall, ReadOnly
<1> HIDE DEF u
<1>6. AreCalls(<<u>>) /\ ToSet(<<u>>) = {u}
  BY <1>5, OneCalled
<1>7. LedBy(<<u>>, u, {})
  BY LedOne
<1>8. PkgWrite(u) /\ Exists("pkg", u.n)
  BY <1>5 DEF PkgWrite, Exists, Objects
<1>9. u.op # "create" /\ u.op # "update" /\ u.o.status = "pending"
  BY <1>3, <1>5
<1> DEFINE work == <<u>>  S == {}
<1>10. /\ AreCalls(work) /\ RunForced(c, work, FALSE) /\ LedBy(work, u, S)
       /\ ToSet(work) = {u} \cup S
       /\ (\A x \in S : x.k # "pkg") /\ (\A x \in S : FnWrite(x) => x.o.spec.to = {u.n})
  BY <1>4, <1>6, <1>7
<1> HIDE DEF work, S
<1>11. Commenced(c)
  BY <1>8, <1>9, <1>10, PackageStarts DEF Commenced
<1> QED BY <1>11

LEMMA StrategiesTyped ==
    ASSUME NEW f \in Flags, NEW old, old # None => old.v \in Strategies
    PROVE  InvokeStrategies(f, old) \subseteq Strategies
<1>1. f.type \in {"poolmgr", "newdeploy"} /\ f.max = None /\ (f.min = None \/ f.min \in Int)
  BY DEF Flags
<1>2. Pool \in Strategies
  BY DEF Pool, Strategy, Strategies
<1>3. \A a, b \in Int : Strategy("newdeploy", a, b) \in Strategies
  BY DEF Strategy, Strategies
<1>4. CASE old = None
  <2>1. \A s \in GetExecutionStrategy(f) :
           s = Pool \/ \E a \in Int : s = Strategy("newdeploy", a, a)
    BY <1>1 DEF GetExecutionStrategy
  <2> QED BY <1>2, <1>3, <1>4, <2>1 DEF InvokeStrategies
<1>5. CASE old # None
  <2> DEFINE o == old.v
             base == IF o.type = "newdeploy" THEN o ELSE Strategy("newdeploy", 1, 1)
             min == IF f.min = None THEN base.min ELSE f.min
             max == IF base.max <= 0 THEN 1 ELSE base.max
  <2>1. base \in Strategies
    BY <1>3, <1>5
  <2>2. base.min \in Int /\ base.max \in Int
    BY <2>1 DEF Strategies
  <2> HIDE DEF base
  <2>3. min \in Int /\ max \in Int
    BY <1>1, <2>2
  <2>4. \A s \in UpdateExecutionStrategy(f, o) :
           s = Pool \/ s = Strategy("newdeploy", min, max)
    <3> DEFINE max2 == IF f.max # None THEN f.max ELSE max
    <3>1. max2 = max
      BY <1>1
    <3> QED BY <3>1 DEF UpdateExecutionStrategy, base
  <2> HIDE DEF min, max
  <2> QED BY <1>2, <1>3, <1>5, <2>3, <2>4 DEF InvokeStrategies
<1> QED BY <1>4, <1>5

LEMMA FunctionSpecTyped ==
    ASSUME NEW s \in Strategies, NEW p \in Name, NEW ver \in Nat
    PROVE  /\ FunctionSpec(s, p, ver) \in Contents("fn")
           /\ FunctionSpec(s, p, ver).to = {p} /\ FunctionSpec(s, p, ver).at = ver
<1> DEFINE sp == FunctionSpec(s, p, ver)
<1>1. /\ sp \in [v : Strategies, to : {{q} : q \in Name}, at : Nat]
      /\ sp.to = {p} /\ sp.at = ver
  BY DEF FunctionSpec, Content
<1> QED BY <1>1, ContentsOf

LEMMA CreateListed ==
    ASSUME NEW k \in Kind, NEW n \in Name, NEW spec \in Contents(k)
    PROVE  Creates(Create(k, n, spec), k, n, spec)
<1>1. "none" \in Status
  BY DEF Status
<1> QED BY <1>1, CreateTyped DEF Create

(* The function, and a trigger if a URL was given.                         *)
LEMMA CreateFunctionListed ==
    ASSUME NEW n \in Name, NEW spec \in Contents("fn"), NEW routes \in {{}, {AnyRoute}},
           NEW t, t = CreateFunction(n, spec, routes)
    PROVE  \E x, S : /\ LedBy(t, x, S) /\ AreCalls(t) /\ ToSet(t) = {x} \cup S
                     /\ Creates(x, "fn", n, spec) /\ \A y \in S : y.k = "http"
<1> DEFINE k == "fn"  h == "http"
           x == Create(k, n, spec)
           F(r) == Create(h, n, Content(r, {n}, 0))
           S == {F(r) : r \in routes}
           v == SetToSeq(S)
<1>1. k \in Kind /\ h \in Kind /\ spec \in Contents(k)
  BY KindsAre
<1>2. t = <<x>> \o v
  BY DEF CreateFunction
<1>3. \A r \in routes : Content(r, {n}, 0) \in Contents(h)
  <2>1. \A r \in routes : Content(r, {n}, 0) \in
           [v : Route \cup {Bad}, to : SUBSET Name, at : Nat]
    BY NameAssumption DEF Content
  <2> QED BY <2>1, ContentsOf
<1> HIDE DEF k, h
<1>4. Creates(x, k, n, spec)
  BY <1>1, CreateListed
<1>5. \A r \in routes : Creates(F(r), h, n, Content(r, {n}, 0))
  BY <1>1, <1>3, CreateListed
<1> HIDE DEF F, x
<1>6. IsFiniteSet(S)
  <2>1. S = {} \/ \E z : S = {z}
    OBVIOUS
  <2> HIDE DEF S
  <2>2. CASE S = {}
    BY <2>2, FS_EmptySet
  <2>3. CASE \E z : S = {z}
    <3>1. PICK z : S = {z}
      BY <2>3
    <3> QED BY <3>1, FS_Singleton
  <2> QED BY <2>1, <2>2, <2>3
<1>7. \A y \in S : IsCall(y) /\ y.k = h
  BY <1>5 DEF Creates
<1> HIDE DEF S
<1>8. IsList(v) /\ ToSet(v) = S
  BY <1>6, SetListed
<1> HIDE DEF v
<1>9. LedBy(<<x>>, x, {}) /\ ToSet(<<x>>) = {x}
  BY LedOne
<1>10. LedBy(t, x, {} \cup S) /\ ToSet(t) = {x} \cup S
  <2>1. /\ LedBy(<<x>> \o v, x, {} \cup ToSet(v))
        /\ ToSet(<<x>> \o v) = ToSet(<<x>>) \cup ToSet(v)
    BY <1>8, <1>9, LedMore
  <2> QED BY <1>2, <1>8, <1>9, <2>1
<1>11. {} \cup S = S
  OBVIOUS
<1>12. AreCalls(t)
  BY <1>4, <1>7, <1>10 DEF AreCalls, LedBy, Creates
<1> QED BY <1>4, <1>7, <1>10, <1>11, <1>12 DEF k, h

(* `function create`, with a package or without.                           *)
LEMMA FunctionCreateStarts ==
    ASSUME Base, NEW c \in Client, FunctionCreate(c)
    PROVE  Commenced(c)
<1>0. PICK n \in Name, f \in Flags, routes \in {{}, {AnyRoute}} :
         \E s \in InvokeStrategies(f, None) :
            \/ \E p \in Objects("pkg") :
                  Run(c, CreateFunction(n, FunctionSpec(s, p, Get("pkg", p).rv), routes))
            \/ \E v \in Archive :
                  Run(c, <<CreatePackage(n, v)>>
                         \o CreateFunction(n, FunctionSpec(s, n, 0), routes))
  BY DEF FunctionCreate
<1>1. PICK s \in InvokeStrategies(f, None) :
         \/ \E p \in Objects("pkg") :
               Run(c, CreateFunction(n, FunctionSpec(s, p, Get("pkg", p).rv), routes))
         \/ \E v \in Archive :
               Run(c, <<CreatePackage(n, v)>>
                      \o CreateFunction(n, FunctionSpec(s, n, 0), routes))
  BY <1>0
<1>2. s \in Strategies
  BY <1>1, StrategiesTyped
<1>3. ASSUME NEW p \in Objects("pkg"),
             Run(c, CreateFunction(n, FunctionSpec(s, p, Get("pkg", p).rv), routes))
      PROVE  Commenced(c)
  <2> DEFINE ver == Get("pkg", p).rv
             spec == FunctionSpec(s, p, ver)
             t == CreateFunction(n, spec, routes)
  <2>1. p \in Name /\ ver \in Nat /\ Exists("pkg", p)
    BY KindsAre DEF Objects, Base, ResourcesTypeOK, StoreTyped, Object, Get, Exists
  <2>2. spec \in Contents("fn") /\ spec.to = {p} /\ spec.at = ver
    BY <1>2, <2>1, FunctionSpecTyped
  <2>3. RunForced(c, t, FALSE)
    BY <1>3 DEF Run
  <2> HIDE DEF spec
  <2>4. PICK x, S : /\ LedBy(t, x, S) /\ AreCalls(t) /\ ToSet(t) = {x} \cup S
                    /\ Creates(x, "fn", n, spec) /\ \A y \in S : y.k = "http"
    BY <1>1, <2>2, CreateFunctionListed
  <2> HIDE DEF t
  <2>5. x.k = "fn" /\ x.o.spec = spec
    BY <2>4 DEF Creates
  <2>6. \A y \in ToSet(t) : y.k # "pkg"
    BY <2>4, <2>5
  <2>7. \A y \in ToSet(t) : FnWrite(y) => y = x
    BY <2>4 DEF FnWrite
  <2>8. \A y \in ToSet(t) : FnWrite(y) => \A q \in y.o.spec.to :
              q \in Name /\ Exists("pkg", q) /\ y.o.spec.at = Get("pkg", q).rv
    BY <2>1, <2>2, <2>5, <2>7
  <2> QED BY <2>3, <2>4, <2>6, <2>8, FunctionStarts DEF Commenced
<1>4. ASSUME NEW v \in Archive,
             Run(c, <<CreatePackage(n, v)>>
                    \o CreateFunction(n, FunctionSpec(s, n, 0), routes))
      PROVE  Commenced(c)
  <2> DEFINE spec == FunctionSpec(s, n, 0)
             t == CreateFunction(n, spec, routes)
             u == CreatePackage(n, v)
             work == <<u>> \o t
  <2>1. spec \in Contents("fn") /\ spec.to = {n}
    BY <1>2, FunctionSpecTyped
  <2>2. RunForced(c, work, FALSE)
    BY <1>4 DEF Run
  <2> HIDE DEF spec
  <2>3. PICK x, S : /\ LedBy(t, x, S) /\ AreCalls(t) /\ ToSet(t) = {x} \cup S
                    /\ Creates(x, "fn", n, spec) /\ \A y \in S : y.k = "http"
    BY <1>1, <2>1, CreateFunctionListed
  <2>4. PICK sp : Creates(u, "pkg", n, sp)
    BY CreatePackageTyped
  <2> HIDE DEF t, u
  <2>5. /\ u.op = "create" /\ u.k = "pkg" /\ u.n = n /\ IsCall(u)
        /\ x.k = "fn" /\ x.o.spec = spec /\ x.lax = FALSE /\ x.op = "create"
    BY <2>3, <2>4 DEF Creates
  <2>6. LedBy(<<u>>, u, {}) /\ ToSet(<<u>>) = {u}
    BY LedOne
  <2>7. LedBy(work, u, ToSet(t)) /\ ToSet(work) = {u} \cup ToSet(t)
    <3>1. LedBy(work, u, {} \cup ToSet(t)) /\ ToSet(work) = {u} \cup ToSet(t)
      BY <2>3, <2>6, LedMore DEF AreCalls
    <3>2. {} \cup ToSet(t) = ToSet(t)
      OBVIOUS
    <3> QED BY <3>1, <3>2
  <2>8. AreCalls(work)
    BY <2>3, <2>5, <2>7 DEF AreCalls, LedBy
  <2>9. ASSUME NEW j \in 2 .. Len(work), FnWrite(work[j])
        PROVE  j = 2 /\ work[j].lax = FALSE
    <3>1. t \in Seq(ToSet(t)) /\ Len(t) \in Nat /\ Len(t) > 0
      BY <2>3 DEF AreCalls, IsList, LedBy
    <3>2. /\ Len(work) = 1 + Len(t) /\ \A i \in 2 .. 1 + Len(t) : work[i] = t[i - 1]
      <4>1. <<u>> \in Seq({u} \cup ToSet(t)) /\ t \in Seq({u} \cup ToSet(t)) /\ Len(<<u>>) = 1
        BY <3>1
      <4> QED BY <4>1, <3>1
    <3>3. work[j] = t[j - 1] /\ j - 1 \in 1 .. Len(t)
      BY <3>1, <3>2
    <3>4. CASE j = 2
      BY <2>3, <2>5, <3>3, <3>4 DEF LedBy
    <3>5. CASE j # 2
      <4>1. j - 1 \in 2 .. Len(t)
        BY <3>1, <3>3, <3>5
      <4>2. t[j - 1] \in S
        BY <2>3, <4>1 DEF LedBy
      <4> QED BY <2>3, <2>9, <3>3, <4>2 DEF FnWrite
    <3> QED BY <3>4, <3>5
  <2> HIDE DEF work
  <2>10. PkgWrite(u)
    BY <2>5 DEF PkgWrite
  <2>11. \A y \in ToSet(t) : y.k # "pkg" /\ (FnWrite(y) => y.o.spec.to = {u.n})
    BY <2>1, <2>3, <2>5 DEF FnWrite
  <2>12. u.op # "update" /\ u.op # "status"
    BY <2>5
  <2> QED BY <2>2, <2>5, <2>7, <2>8, <2>9, <2>10, <2>11, <2>12, PackageStarts DEF Commenced
<1> QED BY <1>1, <1>3, <1>4

LEMMA EmptyFirst ==
    ASSUME NEW x
    PROVE  (<<>> \o <<>>) \o <<x>> = <<x>>
<1>1. <<>> \in Seq({x}) /\ <<x>> \in Seq({x})
  OBVIOUS
<1>2. <<>> \o <<>> = <<>>
  OBVIOUS
<1>3. <<>> \o <<x>> = <<x>>
  BY <1>1
<1> QED BY <1>2, <1>3

(* `function update`: the package first, then the functions that use it.   *)
LEMMA FunctionUpdateStarts ==
    ASSUME Base, NEW c \in Client, FunctionUpdate(c)
    PROVE  Commenced(c)
<1>0. PICK n \in Objects("fn"), f \in Flags, v \in {None, 2} :
         LET old == Get("fn", n).spec
             p == CHOOSE p \in Name : old.to = {p}
             fns == FunctionsByPackage(p)
         IN  /\ Exists("pkg", p)
             /\ \E s \in InvokeStrategies(f, old) :
                   Run(c, UpdatePackage(p, v)
                          \o (IF v = None THEN <<>>
                              ELSE UpdateFunctionPackageResourceVersion(fns \ {n}))
                          \o <<Update("fn", n, FunctionSpec(s, p, Get("pkg", p).rv))>>)
  BY DEF FunctionUpdate
<1> DEFINE k == "fn"
           old == Get(k, n).spec
           p == CHOOSE p \in Name : old.to = {p}
           fns == FunctionsByPackage(p)
           ver == Get("pkg", p).rv
<1>1. Exists("pkg", p) /\ n \in Name /\ StoreTyped /\ k \in Kind /\ n \in Objects(k)
  BY <1>0, KindsAre DEF Objects, Base, ResourcesTypeOK
<1>2. PICK s \in InvokeStrategies(f, old) :
         Run(c, UpdatePackage(p, v)
                \o (IF v = None THEN <<>>
                    ELSE UpdateFunctionPackageResourceVersion(fns \ {n}))
                \o <<Update(k, n, FunctionSpec(s, p, ver))>>)
  BY <1>0
<1>3. old \in Contents("fn")
  BY <1>1 DEF StoreTyped, Objects, Object, Get
<1>4. old \in [v : Strategies, to : {{q} : q \in Name}, at : Nat]
  BY <1>3, ContentsOf
<1>5. p \in Name /\ old.to = {p} /\ old.v \in Strategies
  BY <1>4
<1>6. s \in Strategies
  <2> HIDE DEF old
  <2> QED BY <1>2, <1>5, StrategiesTyped
<1>7. p \in Objects("pkg") /\ ver \in Nat
  BY <1>1, <1>5, KindsAre DEF Exists, Objects, StoreTyped, Object, Get
<1> HIDE DEF p, ver, old
<1> DEFINE spec == FunctionSpec(s, p, ver)
           x == Update(k, n, spec)
<1>8. spec \in Contents(k) /\ spec.to = {p} /\ spec.at = ver
  BY <1>5, <1>6, <1>7, FunctionSpecTyped
<1> HIDE DEF spec, k
<1>9. Updates(x, k, n, spec)
  BY <1>1, <1>8, UpdateTyped
<1> HIDE DEF x
<1>10. IsCall(x) /\ x.op = "update" /\ x.k = "fn" /\ x.n = n /\ x.o.spec = spec /\ FnWrite(x)
  BY <1>9 DEF Updates, FnWrite, k
<1>11. AreCalls(<<x>>) /\ ToSet(<<x>>) = {x}
  BY <1>10, OneCalled
<1>12. CASE v = None
  <2>1. UpdatePackage(p, v) = <<>>
    BY <1>12 DEF UpdatePackage
  <2>2. Run(c, (<<>> \o <<>>) \o <<x>>)
    BY <1>2, <1>12, <2>1 DEF x, spec
  <2>3. RunForced(c, <<x>>, FALSE)
    BY <2>2, EmptyFirst DEF Run
  <2> DEFINE work == <<x>>
  <2>4. \A y \in ToSet(work) : y.k # "pkg" /\
           (FnWrite(y) => \A q \in y.o.spec.to :
              q \in Name /\ Exists("pkg", q) /\ y.o.spec.at = Get("pkg", q).rv)
    BY <1>1, <1>5, <1>8, <1>10, <1>11 DEF ver
  <2>5. AreCalls(work) /\ RunForced(c, work, FALSE)
    BY <1>11, <2>3
  <2> HIDE DEF work
  <2> QED BY <2>4, <2>5, FunctionStarts DEF Commenced
<1>13. CASE v # None
  <2>1. v = 2 /\ v \in Archive
    BY <1>0, <1>13 DEF Archive
  <2>2. PICK u : /\ UpdatePackage(p, v) = <<u>>
                 /\ IsCall(u) /\ u.op = "update" /\ u.k = "pkg" /\ u.n = p
    BY <1>1, <1>7, <2>1, UpdatePackageTyped
  <2> DEFINE t == UpdateFunctionPackageResourceVersion(fns \ {n})
             work == (<<u>> \o t) \o <<x>>
  <2>3. /\ AreCalls(t)
        /\ \A y \in ToSet(t) : y.k = "fn" /\ FnWrite(y) /\ y.o.spec.to = {p}
        /\ \A g \in fns \ {n} : \E y \in ToSet(t) : FnWrite(y) /\ y.n = g
    BY <1>1, VersionsListed
  <2>4. RunForced(c, work, FALSE)
    BY <1>2, <1>13, <2>2 DEF Run, x, spec
  <2> HIDE DEF t
  <2>5. LedBy(<<u>>, u, {}) /\ ToSet(<<u>>) = {u}
    BY LedOne
  <2>6. LedBy(<<u>> \o t, u, {} \cup ToSet(t)) /\ ToSet(<<u>> \o t) = {u} \cup ToSet(t)
    BY <2>3, <2>5, LedMore DEF AreCalls
  <2> DEFINE S == ({} \cup ToSet(t)) \cup {x}
             m == <<u>> \o t
             w == <<x>>
  <2>7. LedBy(m \o w, u, S) /\ ToSet(m \o w) = {u} \cup S
    <3>1. LedBy(m, u, {} \cup ToSet(t)) /\ IsList(w) /\ ToSet(w) = {x}
      BY <1>11, <2>6 DEF AreCalls
    <3>2. ToSet(m) = {u} \cup ToSet(t)
      BY <2>6
    <3> HIDE DEF m, w
    <3>3. LedBy(m \o w, u, ({} \cup ToSet(t)) \cup ToSet(w))
          /\ ToSet(m \o w) = ToSet(m) \cup ToSet(w)
      BY <3>1, LedMore
    <3> QED BY <3>1, <3>2, <3>3
  <2>8. work = m \o w
    OBVIOUS
  <2>9. \A y \in S : IsCall(y) /\ y.k = "fn" /\ y.k # "pkg" /\ FnWrite(y) /\ y.o.spec.to = {p}
    BY <1>8, <1>10, <2>3 DEF AreCalls
  <2>10. \A g \in fns : \E y \in S : FnWrite(y) /\ y.n = g
    <3>1. TAKE g \in fns
    <3>2. CASE g = n
      BY <1>10, <3>2
    <3>3. CASE g # n
      BY <2>3, <3>3
    <3> QED BY <3>2, <3>3
  <2>11. LedBy(work, u, S) /\ ToSet(work) = {u} \cup S
    BY <2>7, <2>8
  <2> HIDE DEF work, S, m, w
  <2>12. AreCalls(work)
    BY <2>2, <2>9, <2>11 DEF AreCalls, LedBy
  <2>13. PkgWrite(u) /\ u.op # "create" /\ u.op # "status" /\ Exists("pkg", u.n)
    BY <1>1, <2>2 DEF PkgWrite
  <2> QED BY <2>2, <2>4, <2>9, <2>10, <2>11, <2>12, <2>13, PackageStarts DEF Commenced
<1> QED BY <1>12, <1>13

-----------------------------------------------------------------------------
(* Commands with one call, about neither a package nor the content of a    *)
(* function.                                                               *)
LEMMA OnePlain ==
    ASSUME NEW c, NEW x, IsCall(x), x.k # "pkg", ~FnWrite(x), Run(c, <<x>>)
    PROVE  Commenced(c)
<1> DEFINE work == <<x>>
<1>1. AreCalls(work) /\ ToSet(work) = {x}
  BY OneCalled
<1>2. RunForced(c, work, FALSE) /\ FALSE \in BOOLEAN
  BY DEF Run
<1> HIDE DEF work
<1>3. \A y \in ToSet(work) : y.k # "pkg" /\ ~FnWrite(y)
  BY <1>1
<1> QED BY <1>1, <1>2, <1>3, PlainStarts DEF Commenced

LEMMA OneCreated ==
    ASSUME NEW c, NEW k \in Kind \ {"pkg", "fn"}, NEW n \in Name, NEW spec \in Contents(k),
           Run(c, <<Create(k, n, spec)>>)
    PROVE  Commenced(c)
<1> DEFINE x == Create(k, n, spec)
<1>1. Creates(x, k, n, spec)
  BY CreateListed
<1>2. Run(c, <<x>>)
  OBVIOUS
<1> HIDE DEF x
<1>3. IsCall(x) /\ x.k # "pkg" /\ ~FnWrite(x)
  BY <1>1 DEF Creates, FnWrite
<1> QED BY <1>2, <1>3, OnePlain

LEMMA OneUpdated ==
    ASSUME Base, NEW c, NEW k \in Kind \ {"pkg", "fn"}, NEW n \in Objects(k),
           NEW spec \in Contents(k), Run(c, <<Update(k, n, spec)>>)
    PROVE  Commenced(c)
<1> DEFINE x == Update(k, n, spec)
<1>1. Updates(x, k, n, spec)
  BY UpdateTyped DEF Base, ResourcesTypeOK
<1>2. Run(c, <<x>>)
  OBVIOUS
<1> HIDE DEF x
<1>3. IsCall(x) /\ x.k # "pkg" /\ ~FnWrite(x)
  BY <1>1 DEF Updates, FnWrite
<1> QED BY <1>2, <1>3, OnePlain

LEMMA OneDeleted ==
    ASSUME NEW c, NEW k \in Kind \ {"pkg"}, NEW n \in Name,
           Run(c, <<Delete(k, n)>>) \/ Run(c, <<Lax(Delete(k, n))>>)
    PROVE  Commenced(c)
<1>1. Removes(Delete(k, n), k, n) /\ Removes(Lax(Delete(k, n)), k, n)
  BY DeleteTyped
<1>2. ASSUME NEW x, Removes(x, k, n), Run(c, <<x>>) PROVE Commenced(c)
  <2>1. IsCall(x) /\ x.k # "pkg" /\ ~FnWrite(x)
    BY <1>2 DEF Removes, FnWrite
  <2> QED BY <1>2, <2>1, OnePlain
<1> QED BY <1>1, <1>2

LEMMA FunctionDeleteStarts ==
    ASSUME Base, NEW c \in Client, FunctionDelete(c)
    PROVE  Commenced(c)
<1>1. PICK n \in Name : Run(c, <<Delete("fn", n)>>)
  BY DEF FunctionDelete
<1> DEFINE k == "fn"
<1>2. k \in Kind \ {"pkg"} /\ Run(c, <<Delete(k, n)>>)
  BY <1>1, KindsAre
<1> HIDE DEF k
<1> QED BY <1>2, OneDeleted

(* The commands for HTTP triggers start well.                              *)
LEMMA HTTPTriggerStarts ==
    ASSUME Base, NEW c \in Client,
           HTTPTriggerCreate(c) \/ HTTPTriggerUpdate(c) \/ HTTPTriggerDelete(c)
    PROVE  Commenced(c)
<1> DEFINE k == "http"
<1>1. k \in Kind \ {"pkg", "fn"} /\ k \in Kind \ {"pkg"} /\ k \in Kind /\ k # "pkg" /\ k # "fn"
  BY KindsAre
<1>2. \A r \in Route, fns \in SUBSET Name : Content(r, fns, 0) \in Contents(k)
  <2>1. \A r \in Route, fns \in SUBSET Name :
           Content(r, fns, 0) \in [v : Route \cup {Bad}, to : SUBSET Name, at : Nat]
    BY DEF Content
  <2> QED BY <2>1, ContentsOf
<1>3. First \in Name /\ {First} \in SUBSET Name /\ Name \in SUBSET Name
  BY NameAssumption
<1>4. CASE HTTPTriggerCreate(c)
  <2>1. PICK n \in Name, r \in Route, fns \in FunctionRefs :
           Run(c, <<Create(k, n, Content(r, fns, 0))>>)
    BY <1>4 DEF HTTPTriggerCreate
  <2>2. Content(r, fns, 0) \in Contents(k)
    BY <1>2, <1>3, <2>1 DEF FunctionRefs
  <2> HIDE DEF k
  <2> QED BY <1>1, <2>1, <2>2, OneCreated
<1>5. CASE HTTPTriggerUpdate(c)
  <2>1. PICK n \in Objects(k), r \in Route : Run(c, <<Update(k, n, Content(r, {First}, 0))>>)
    BY <1>5 DEF HTTPTriggerUpdate
  <2>2. Content(r, {First}, 0) \in Contents(k)
    BY <1>2, <1>3, <2>1
  <2> HIDE DEF k
  <2> QED BY <1>1, <2>1, <2>2, OneUpdated
<1>6. ASSUME NEW n \in Name, Run(c, <<Lax(Delete(k, n))>>) PROVE Commenced(c)
  <2> HIDE DEF k
  <2> QED BY <1>1, <1>6, OneDeleted
<1>7. ASSUME NEW f, Run(c, SetToSeq({Lax(Delete(k, n)) :
                               n \in {n \in Objects(k) : Get(k, n).spec.to = {f}}}))
      PROVE  Commenced(c)
  <2> DEFINE N == {n \in Objects(k) : Get(k, n).spec.to = {f}}
             F(n) == Lax(Delete(k, n))
             g == [n \in N |-> F(n)]
             work == SetToSeq({F(n) : n \in N})
  <2>1. N \in SUBSET Name
    BY DEF Objects
  <2>2. IsFiniteSet(N)
    BY <2>1, NothingAssumption, FS_Subset
  <2>3. RunForced(c, work, FALSE) /\ FALSE \in BOOLEAN
    BY <1>7 DEF Run
  <2> HIDE DEF k, N
  <2>4. \A n \in N : Removes(F(n), k, n)
    BY <1>1, <2>1, DeleteTyped
  <2> HIDE DEF F
  <2>5. DOMAIN g = N /\ {g[n] : n \in N} = {F(n) : n \in N}
    OBVIOUS
  <2> HIDE DEF g
  <2>6. IsFiniteSet({F(n) : n \in N})
    BY <2>2, <2>5, ImageFinite
  <2>7. IsList(work) /\ ToSet(work) = {F(n) : n \in N}
    BY <2>6, SetListed
  <2> HIDE DEF work
  <2>8. \A x \in ToSet(work) : IsCall(x) /\ x.k # "pkg" /\ ~FnWrite(x)
    BY <1>1, <2>4, <2>7 DEF Removes, FnWrite
  <2>9. AreCalls(work)
    BY <2>7, <2>8 DEF AreCalls
  <2> QED BY <2>3, <2>8, <2>9, PlainStarts DEF Commenced
<1> QED BY <1>4, <1>5, <1>6, <1>7 DEF HTTPTriggerDelete

LEMMA SimpleTyped ==
    ASSUME NEW v \in {1, 2, Bad}, NEW k \in {"mq", "time", "watch", "env"}
    PROVE  Simple(v) \in Contents(k) /\ k \in Kind \ {"pkg", "fn"} /\ k \in Kind \ {"pkg"}
<1>1. Simple(v) \in [v : Nat \cup {Bad}, to : SUBSET Name, at : Nat]
  BY NameAssumption DEF Simple, Content
<1>2. k \in Kind \ {"fn", "pkg", "http"}
  BY DEF Kind
<1> QED BY <1>1, <1>2, ContentsOf

(* So do those for kinds of which one resource is enough.                  *)
LEMMA OneStarts ==
    ASSUME Base, NEW c \in Client, NEW k \in {"mq", "time", "watch", "env"},
           NEW V \in SUBSET {1, 2, Bad},
           CreateOne(c, k, V) \/ UpdateOne(c, k, V) \/ DeleteOne(c, k)
    PROVE  Commenced(c)
<1>1. First \in Name
  BY NameAssumption
<1>2. CASE CreateOne(c, k, V)
  <2>1. PICK v \in V : Run(c, <<Create(k, First, Simple(v))>>)
    BY <1>2 DEF CreateOne
  <2>2. Simple(v) \in Contents(k) /\ k \in Kind \ {"pkg", "fn"}
    BY <2>1, SimpleTyped
  <2> QED BY <1>1, <2>1, <2>2, OneCreated
<1>3. CASE UpdateOne(c, k, V)
  <2>1. Exists(k, First) /\ \E v \in V : Run(c, <<Update(k, First, Simple(v))>>)
    BY <1>3 DEF UpdateOne
  <2>2. PICK v \in V : Run(c, <<Update(k, First, Simple(v))>>)
    BY <2>1
  <2>3. Simple(v) \in Contents(k) /\ k \in Kind \ {"pkg", "fn"}
    BY <2>2, SimpleTyped
  <2>4. First \in Objects(k)
    BY <1>1, <2>1 DEF Objects, Exists
  <2> QED BY <2>2, <2>3, <2>4, OneUpdated
<1>4. CASE DeleteOne(c, k)
  <2>1. Run(c, <<Delete(k, First)>>)
    BY <1>4 DEF DeleteOne
  <2>2. k \in Kind \ {"pkg"}
    BY DEF Kind
  <2> QED BY <1>1, <2>1, <2>2, OneDeleted
<1> QED BY <1>2, <1>3, <1>4

LEMMA CanaryStarts ==
    ASSUME Base, NEW c \in Client, CanaryCreate(c) \/ CanaryUpdate(c) \/ CanaryDelete(c)
    PROVE  Commenced(c)
<1> DEFINE k == "canary"
<1>1. /\ k \in Kind \ {"pkg", "fn"} /\ k \in Kind \ {"pkg"} /\ k \in Kind
      /\ k \in Kind \ {"fn", "pkg", "http"} /\ First \in Name
  BY KindsAre, NameAssumption
<1>2. Contents(k) = [v : Nat \cup {Bad}, to : SUBSET Name, at : Nat]
  BY <1>1, ContentsOf
<1>3. CASE CanaryCreate(c)
  <2>1. PICK t \in Objects("http") : Run(c, <<Create(k, First, Content(1, {t}, 0))>>)
    BY <1>3 DEF CanaryCreate
  <2>2. Content(1, {t}, 0) \in Contents(k)
    BY <1>2 DEF Content, Objects
  <2> HIDE DEF k
  <2> QED BY <1>1, <2>1, <2>2, OneCreated
<1>4. CASE CanaryUpdate(c)
  <2> DEFINE g == Get(k, First)
             sp == [g.spec EXCEPT !.v = 2]
             o == [g EXCEPT !.spec = sp]
             x == Call("status", k, First, o)
  <2>1. Exists(k, First) /\ Run(c, <<Call("status", k, First, [g EXCEPT !.spec.v = 2])>>)
    BY <1>4 DEF CanaryUpdate
  <2>2. g \in Object(k, First)
    BY <1>1, <2>1 DEF Base, ResourcesTypeOK, StoreTyped, Exists, Get
  <2>3. [g EXCEPT !.spec.v = 2] = o
    BY <2>2 DEF Object
  <2>4. g.spec \in [v : Nat \cup {Bad}, to : SUBSET Name, at : Nat]
    BY <1>2, <2>2 DEF Object
  <2>5. sp \in Contents(k)
    BY <1>2, <2>4
  <2>6. Run(c, <<x>>)
    BY <2>1, <2>3
  <2> HIDE DEF sp, g
  <2>7. o \in Object(k, First)
    BY <2>2, <2>5 DEF Object
  <2> HIDE DEF o
  <2>8. IsCall(x) /\ x.k # "pkg" /\ ~FnWrite(x)
    BY <1>1, <2>7 DEF Call, IsCall, ReadOnly, FnWrite
  <2> HIDE DEF x
  <2> QED BY <2>6, <2>8, OnePlain
<1>5. CASE CanaryDelete(c)
  <2>1. Run(c, <<Delete(k, First)>>)
    BY <1>5 DEF CanaryDelete, DeleteOne
  <2> HIDE DEF k
  <2> QED BY <1>1, <2>1, OneDeleted
<1> QED BY <1>3, <1>4, <1>5

(* An apply begins with all of its kinds to come.                          *)
LEMMA ApplyStarts ==
    ASSUME NEW s \in ClientSet(<<>>), s.todo = <<>>, s.cmd = "apply", s.kinds = ApplyOrder,
           ReadSpecs(s.want), Validate(s.want), s.err = FALSE
    PROVE  Starts(s)
<1>1. Len(ApplyOrder) = 7
  BY DEF ApplyOrder
<1>2. IsClient(s)
  BY ClientForm, NoneCalled
<1>3. \A i \in 1 .. 7 : i + 7 - 7 = i
  OBVIOUS
<1>4. \A i \in 1 .. Len(s.kinds) : s.kinds[i] = ApplyOrder[i + 7 - Len(s.kinds)]
  BY <1>1, <1>3
<1>5. Len(s.kinds) <= 7 /\ ToSet(s.todo) = {}
  BY <1>1, NoneListed
<1>6. Form(s)
  BY <1>4, <1>5 DEF Form
<1> QED BY <1>1, <1>2, <1>6 DEF Starts

(* `spec apply` and `spec destroy` start well.                             *)
LEMMA ApplyBeginStarts ==
    ASSUME Base, NEW c \in Client, ApplyBegin(c) \/ DestroyBegin(c)
    PROVE  Commenced(c)
<1>1. ApplyOrder \in Seq(Kind)
  BY DEF ApplyOrder, Kind
<1>2. Idle \in ClientSet(<<>>) /\ Idle.todo = <<>> /\ Idle.want = {} /\ Idle.err = FALSE
  <2>1. Idle.todo = <<>> /\ Idle.want = {} /\ Idle.err = FALSE
    BY DEF Idle
  <2> QED BY <2>1, IdleTyped, ClientForm
<1>3. CASE ApplyBegin(c)
  <2>1. PICK plan \in Plans, d \in Deployment, del \in BOOLEAN, wait \in BOOLEAN :
          /\ ReadSpecs(plan) /\ Validate(plan)
          /\ Begin(c, [Idle EXCEPT !.cmd = "apply", !.kinds = ApplyOrder,
                                   !.want = plan, !.by = d, !.del = del,
                                   !.wait = wait])
    BY <1>3 DEF ApplyBegin
  <2> DEFINE s == [Idle EXCEPT !.cmd = "apply", !.kinds = ApplyOrder, !.want = plan,
                               !.by = d, !.del = del, !.wait = wait]
  <2>2. /\ s \in ClientSet(<<>>) /\ s.todo = <<>> /\ s.cmd = "apply"
        /\ s.kinds = ApplyOrder /\ s.want = plan /\ s.err = FALSE
    BY <1>1, <1>2, <2>1 DEF ClientSet
  <2> HIDE DEF s
  <2>3. Starts(s)
    BY <2>1, <2>2, ApplyStarts
  <2> QED BY <2>1, <2>3 DEF Commenced, s
<1>4. CASE DestroyBegin(c)
  <2>1. PICK d \in Deployment :
          Begin(c, [Idle EXCEPT !.cmd = "apply", !.kinds = ApplyOrder,
                                !.by = d, !.del = TRUE])
    BY <1>4 DEF DestroyBegin
  <2> DEFINE s == [Idle EXCEPT !.cmd = "apply", !.kinds = ApplyOrder, !.by = d,
                               !.del = TRUE]
  <2>2. /\ s \in ClientSet(<<>>) /\ s.todo = <<>> /\ s.cmd = "apply"
        /\ s.kinds = ApplyOrder /\ s.want = {} /\ s.err = FALSE
    BY <1>1, <1>2, <2>1 DEF ClientSet
  <2>3. ReadSpecs({}) /\ Validate({})
    BY DEF ReadSpecs, Validate
  <2> HIDE DEF s
  <2>4. Starts(s)
    BY <2>2, <2>3, ApplyStarts
  <2> QED BY <2>1, <2>4 DEF Commenced, s
<1> QED BY <1>3, <1>4

(* Every command starts well.                                              *)
LEMMA CommenceStarts ==
    ASSUME Base, NEW c \in Client, Commence(c)
    PROVE  ~Busy(c) /\ \E s : Begin(c, s) /\ Starts(s)
<1>1. Free(c)
  BY DEF Commence, PackageCreate, PackageUpdate, PackageDelete, DeleteOrphanPkgs,
         PackageRebuild, FunctionCreate, FunctionUpdate, FunctionDelete, HTTPTriggerCreate,
         HTTPTriggerUpdate, HTTPTriggerDelete, MqtCreate, MqtUpdate, MqtDelete,
         TimeTriggerCreate, TimeTriggerUpdate, TimeTriggerDelete, KubeWatchCreate,
         KubeWatchDelete, EnvironmentCreate, EnvironmentUpdate, EnvironmentDelete,
         CanaryCreate, CanaryUpdate, CanaryDelete, ApplyBegin, DestroyBegin,
         CreateOne, UpdateOne, DeleteOne
<1>2. ~Busy(c)
  BY <1>1 DEF Free
<1> DEFINE E == {v \in {1, Bad} : ValidEnvironment(Simple(v))}
<1>3. /\ {1} \in SUBSET {1, 2, Bad} /\ {2} \in SUBSET {1, 2, Bad}
      /\ {1, Bad} \in SUBSET {1, 2, Bad} /\ E \in SUBSET {1, 2, Bad}
  OBVIOUS
<1> SUFFICES Commenced(c)
  BY <1>2 DEF Commenced
<1>4. CASE \/ PackageCreate(c) \/ PackageUpdate(c) \/ PackageDelete(c)
           \/ DeleteOrphanPkgs(c) \/ PackageRebuild(c)
  BY <1>4, PackageCreateStarts, PackageUpdateStarts, PackageDeleteStarts,
     DeleteOrphanPkgsStarts, PackageRebuildStarts
<1>5. CASE FunctionCreate(c) \/ FunctionUpdate(c) \/ FunctionDelete(c)
  BY <1>5, FunctionCreateStarts, FunctionUpdateStarts, FunctionDeleteStarts
<1>6. CASE HTTPTriggerCreate(c) \/ HTTPTriggerUpdate(c) \/ HTTPTriggerDelete(c)
  BY <1>6, HTTPTriggerStarts
<1>7. CASE MqtCreate(c) \/ MqtUpdate(c) \/ MqtDelete(c)
  <2> DEFINE k == "mq"
  <2>1. k \in {"mq", "time", "watch", "env"}
    OBVIOUS
  <2>2. CreateOne(c, k, {1}) \/ UpdateOne(c, k, {2}) \/ DeleteOne(c, k)
    BY <1>7 DEF MqtCreate, MqtUpdate, MqtDelete
  <2> HIDE DEF k
  <2> QED BY <1>3, <2>1, <2>2, OneStarts
<1>8. CASE TimeTriggerCreate(c) \/ TimeTriggerUpdate(c) \/ TimeTriggerDelete(c)
  <2> DEFINE k == "time"
  <2>1. k \in {"mq", "time", "watch", "env"}
    OBVIOUS
  <2>2. CreateOne(c, k, {1, Bad}) \/ UpdateOne(c, k, {2}) \/ DeleteOne(c, k)
    BY <1>8 DEF TimeTriggerCreate, TimeTriggerUpdate, TimeTriggerDelete
  <2> HIDE DEF k
  <2> QED BY <1>3, <2>1, <2>2, OneStarts
<1>9. CASE KubeWatchCreate(c) \/ KubeWatchDelete(c)
  <2> DEFINE k == "watch"
  <2>1. k \in {"mq", "time", "watch", "env"}
    OBVIOUS
  <2>2. CreateOne(c, k, {1}) \/ DeleteOne(c, k)
    BY <1>9 DEF KubeWatchCreate, KubeWatchDelete
  <2> HIDE DEF k
  <2> QED BY <1>3, <2>1, <2>2, OneStarts
<1>10. CASE EnvironmentCreate(c) \/ EnvironmentUpdate(c) \/ EnvironmentDelete(c)
  <2> DEFINE k == "env"
  <2>1. k \in {"mq", "time", "watch", "env"}
    OBVIOUS
  <2>2. CreateOne(c, k, E) \/ UpdateOne(c, k, {2}) \/ DeleteOne(c, k)
    BY <1>10 DEF EnvironmentCreate, EnvironmentUpdate, EnvironmentDelete
  <2> HIDE DEF k, E
  <2> QED BY <1>3, <2>1, <2>2, OneStarts
<1>11. CASE CanaryCreate(c) \/ CanaryUpdate(c) \/ CanaryDelete(c)
  BY <1>11, CanaryStarts
<1>12. CASE ApplyBegin(c) \/ DestroyBegin(c)
  BY <1>12, ApplyBeginStarts
<1> QED BY <1>4, <1>5, <1>6, <1>7, <1>8, <1>9, <1>10, <1>11, <1>12 DEF Commence

-----------------------------------------------------------------------------
(* Steps of the specification, and types.                                  *)

(* The controller found no duplicate for the next call of a client.        *)
Passed(c) ==
    /\ Pending(c) /\ NeedsDuplicateCheck(NextCall(c)) /\ Duplicates(NextCall(c)) = {}
    /\ checked' = [checked EXCEPT ![c] = TRUE]
    /\ UNCHANGED <<apiVars, cl, last, commands, historyVars>>

(* A step of a client, and one of the specification.                       *)
ClientStep(c) ==
    \/ ~Busy(c) /\ Commenced(c)
    \/ Passed(c)
    \/ \E r : Failed(c, r)
    \/ \E r : Sent(c, Head(cl[c].todo), NextCall(c), r)
    \/ \E r : Looked(c, Head(cl[c].todo), r)
    \/ \E k, r : Planned(c, k, r)
    \/ \E r : Waited(c, r)

Stepped ==
    \/ \E c \in Client : ClientStep(c)
    \/ \E p, st : Built(p, st)
    \/ UNCHANGED vars

LEMMA KindPlanned ==
    ASSUME Base, NEW c \in Client, NEW k \in Kind, ApplyKind(c, k)
    PROVE  ClientStep(c)
BY ApplyPlans DEF ClientStep

(* Going on with a command is one of the steps above.                      *)
LEMMA ContinueSteps ==
    ASSUME Base, NEW c \in Client, Continue(c)
    PROVE  ClientStep(c)
<1>1. CASE CheckDuplicates(c)
  <2>1. CASE Duplicates(NextCall(c)) = {}
    <3>1. Passed(c)
      BY <1>1, <2>1 DEF CheckDuplicates, Passed
    <3> QED BY <3>1 DEF ClientStep
  <2>2. CASE Duplicates(NextCall(c)) # {}
    <3>1. Pending(c) /\ Fail(c)
      BY <1>1, <2>2 DEF CheckDuplicates
    <3>2. \E r : Failed(c, r)
      BY <3>1, FailForm
    <3> QED BY <3>2 DEF ClientStep
  <2> QED BY <2>1, <2>2
<1>2. CASE Do(c)
  <2>1. \E r : Sent(c, Head(cl[c].todo), NextCall(c), r)
    BY <1>2, DoSends
  <2> QED BY <2>1 DEF ClientStep
<1>3. CASE Refuse(c)
  <2>1. Pending(c) /\ Fail(c)
    BY <1>3 DEF Refuse
  <2>2. \E r : Failed(c, r)
    BY <2>1, FailForm
  <2> QED BY <2>2 DEF ClientStep
<1>4. CASE Orphan(c)
  <2>1. \E r : Looked(c, Head(cl[c].todo), r)
    BY <1>4, OrphanLooks
  <2> QED BY <2>1 DEF ClientStep
<1>5. CASE \/ ApplyEnvironments(c) \/ ApplyPackages(c) \/ ApplyFunctions(c)
           \/ ApplyHTTPTriggers(c) \/ ApplyKubernetesWatchTriggers(c)
           \/ ApplyTimeTriggers(c) \/ ApplyMessageQueueTriggers(c)
  <2>1. \E k \in Kind : ApplyKind(c, k)
    BY <1>5 DEF ApplyEnvironments, ApplyPackages, ApplyFunctions, ApplyHTTPTriggers,
       ApplyKubernetesWatchTriggers, ApplyTimeTriggers, ApplyMessageQueueTriggers, Kind
  <2> QED BY <2>1, KindPlanned
<1>6. CASE WaitOver(c)
  <2>1. \E r : Waited(c, r)
    BY <1>6, WaitOverForm
  <2> QED BY <2>1 DEF ClientStep
<1> QED BY <1>1, <1>2, <1>3, <1>4, <1>5, <1>6 DEF Continue

(* Every step is one of those above.                                       *)
LEMMA NextSteps ==
    ASSUME Base, [ResourcesNext]_vars
    PROVE  Stepped
<1>1. ASSUME NEW c \in Client, Commence(c) PROVE Stepped
  BY <1>1, CommenceStarts DEF Commenced, ClientStep, Stepped
<1>2. ASSUME NEW c \in Client, Continue(c) PROVE Stepped
  BY <1>2, ContinueSteps DEF Stepped
<1>3. ASSUME NEW p \in Name, BuildStarts(p) PROVE Stepped
  BY <1>3, BuildStartsForm DEF Stepped
<1>4. ASSUME NEW p \in Name, BuildEnds(p) PROVE Stepped
  BY <1>4, BuildEndsForm DEF Stepped
<1>5. ASSUME Rest \/ UNCHANGED vars PROVE Stepped
  BY <1>5 DEF Rest, Stepped
<1> QED BY <1>1, <1>2, <1>3, <1>4, <1>5 DEF ResourcesNext, Progress

(* Types and forms hold at first and are kept.                             *)
LEMMA BaseInit ==
    ASSUME ResourcesInit
    PROVE  Base
<1>1. /\ DOMAIN store = Kind
      /\ \A k \in Kind :
           /\ DOMAIN store[k] = Name
           /\ \A n \in Name : store[k][n] # None =>
                /\ store[k][n] \in Object(k, n)
                /\ store[k][n].uid # None /\ store[k][n].rv = 1
  BY StoreAssumption DEF ResourcesInit
<1>2. /\ version \in [Kind -> [Name -> Nat]]
      /\ \A k \in Kind, n \in Name : version[k][n] = 1
  BY DEF ResourcesInit
<1>3. StoreTyped
  BY <1>1, <1>2 DEF StoreTyped
<1>4. DOMAIN cl = Client /\ \A c \in Client : cl[c] = Idle
  BY DEF ResourcesInit
<1> QED BY <1>3, <1>4, IdleTyped DEF ResourcesInit, Base, ResourcesTypeOK

LEMMA BaseStep ==
    ASSUME Base, Stepped
    PROVE  Base'
<1>1. ASSUME NEW c \in Client, Commenced(c) PROVE Base'
  BY <1>1, BeginBase DEF Commenced
<1>2. ASSUME NEW c \in Client, Passed(c) PROVE Base'
  <2>1. checked' \in [Client -> BOOLEAN]
    BY <1>2 DEF Passed, Base, ResourcesTypeOK
  <2> QED BY <1>2, <2>1 DEF Passed, apiVars, historyVars, Base, ResourcesTypeOK, StoreTyped
<1>3. ASSUME NEW c \in Client, NEW r, Sent(c, Head(cl[c].todo), NextCall(c), r) PROVE Base'
  BY <1>3, SentBase
<1>4. CASE UNCHANGED vars
  BY <1>4 DEF vars, apiVars, clientVars, historyVars, Base, ResourcesTypeOK, StoreTyped
<1> QED
  BY <1>1, <1>2, <1>3, <1>4, FailedBase, LookedBase, PlannedBase, WaitedBase, BuiltBase
     DEF Stepped, ClientStep

LEMMA BaseHolds == ResourcesSpec => []Base
<1>1. Base /\ [ResourcesNext]_vars => Base'
  BY NextSteps, BaseStep
<1> QED BY <1>1, BaseInit, PTL DEF ResourcesSpec

(* Type correctness of the command line, the specs and the builder, for    *)
(* any number of clients, names, routes, deployments and commands: every   *)
(* object is one the controller accepts for its kind, and has a version    *)
(* that was given out.                                                     *)
THEOREM ResourcesTypeCorrect == ResourcesSpec => []ResourcesTypeOK
<1>1. Base => ResourcesTypeOK
  BY DEF Base
<1> QED BY <1>1, BaseHolds, PTL

-----------------------------------------------------------------------------
(* OnlyOwn.                                                                *)

(* The calls that a client has left.                                       *)
Pend(c) == ToSet(cl[c].todo)

(* No resource is written.                                                 *)
Quiet == store' = store /\ version' = version

(* What one client does to the others: nothing, but they are not fresh     *)
(* any more when it writes.                                                *)
LEMMA StepFrame ==
    ASSUME Base, NEW c \in Client, ClientStep(c)
    PROVE  /\ Quiet \/ \E r : Sent(c, Head(cl[c].todo), NextCall(c), r)
           /\ \A d \in Client \ {c} :
                /\ cl'[d] = cl[d] /\ checked'[d] = checked[d]
                /\ fresh'[d] => fresh[d] /\ Quiet
           /\ calm' => calm
<1>1. /\ DOMAIN cl = Client /\ checked \in [Client -> BOOLEAN]
      /\ fresh \in [Client -> BOOLEAN] /\ calm \in BOOLEAN
  BY DEF Base, ResourcesTypeOK
<1>2. CASE Commenced(c)
  BY <1>1, <1>2 DEF Commenced, Begin, Quiet, apiVars
<1>3. CASE Passed(c)
  BY <1>1, <1>3 DEF Passed, Quiet, apiVars, historyVars
<1>4. ASSUME NEW r, Failed(c, r) PROVE
           /\ Quiet
           /\ \A d \in Client \ {c} :
                cl'[d] = cl[d] /\ checked'[d] = checked[d] /\ fresh'[d] = fresh[d]
           /\ calm' = calm
  BY <1>1, <1>4 DEF Failed, Quiet, apiVars
<1>5. ASSUME NEW r, Sent(c, Head(cl[c].todo), NextCall(c), r) PROVE
           /\ \A d \in Client \ {c} :
                cl'[d] = cl[d] /\ checked'[d] = checked[d] /\ fresh'[d] = FALSE
           /\ calm' = calm
  BY <1>1, <1>5 DEF Sent
<1>6. ASSUME NEW r, Looked(c, Head(cl[c].todo), r) PROVE
           /\ Quiet
           /\ \A d \in Client \ {c} :
                cl'[d] = cl[d] /\ checked'[d] = checked[d] /\ fresh'[d] = fresh[d]
           /\ calm' = calm
  BY <1>1, <1>6 DEF Looked, Quiet, apiVars, historyVars
<1>7. ASSUME NEW k, NEW r, Planned(c, k, r) PROVE
           /\ Quiet
           /\ \A d \in Client \ {c} :
                cl'[d] = cl[d] /\ checked'[d] = checked[d] /\ fresh'[d] = fresh[d]
           /\ calm' = calm
  BY <1>1, <1>7 DEF Planned, Quiet, apiVars, historyVars
<1>8. ASSUME NEW r, Waited(c, r) PROVE
           /\ Quiet
           /\ \A d \in Client \ {c} :
                cl'[d] = cl[d] /\ checked'[d] = checked[d] /\ fresh'[d] = fresh[d]
           /\ calm' = calm
  BY <1>1, <1>8 DEF Waited, Quiet, apiVars, historyVars
<1> QED BY <1>2, <1>3, <1>4, <1>5, <1>6, <1>7, <1>8 DEF ClientStep

(* A resource stays, goes, or gets the next version.                       *)
Moves(k, n) ==
    \/ store'[k][n] = store[k][n] /\ version'[k][n] = version[k][n]
    \/ store'[k][n] = None /\ version'[k][n] = version[k][n]
    \/ store'[k][n] # None /\ store'[k][n].rv = version[k][n] + 1
       /\ version'[k][n] = version[k][n] + 1

(* What a call that succeeds does to its resource.                         *)
LEMMA SentMoves ==
    ASSUME Base, NEW c \in Client, NEW y, NEW x, NEW r, Sent(c, y, x, r)
    PROVE  /\ \A k \in Kind, n \in Name : Moves(k, n)
           /\ x.op = "create" <=> store[x.k][x.n] = None
           /\ x.op \in {"update", "status"} => x.o.rv = store[x.k][x.n].rv
           /\ x.op = "delete" => store'[x.k][x.n] = None
           /\ x.op # "delete" =>
                /\ store'[x.k][x.n] # None
                /\ store'[x.k][x.n].by = x.o.by
                /\ store'[x.k][x.n].spec = x.o.spec
                /\ store'[x.k][x.n].status = x.o.status
                /\ store'[x.k][x.n].rv = version[x.k][x.n] + 1
                /\ version'[x.k][x.n] = version[x.k][x.n] + 1
<1>1. StoreTyped /\ IsCall(x) /\ Accepts(x) /\ Write(x) /\ x.op # "orphan"
  BY DEF Sent, Base, ResourcesTypeOK
<1>2. /\ Elsewhere(x.k, x.n)
      /\ x.op = "create" <=> store[x.k][x.n] = None
      /\ x.op \in {"update", "status"} => x.o.rv = store[x.k][x.n].rv
      /\ x.op = "delete" => /\ store'[x.k][x.n] = None
                            /\ version'[x.k][x.n] = version[x.k][x.n]
      /\ x.op # "delete" =>
           /\ store'[x.k][x.n] # None
           /\ store'[x.k][x.n].by = x.o.by
           /\ store'[x.k][x.n].spec = x.o.spec
           /\ store'[x.k][x.n].status = x.o.status
           /\ store'[x.k][x.n].rv = version[x.k][x.n] + 1
           /\ version'[x.k][x.n] = version[x.k][x.n] + 1
  BY <1>1, WriteFacts
<1>3. ASSUME NEW k \in Kind, NEW n \in Name PROVE Moves(k, n)
  <2>1. CASE k = x.k /\ n = x.n
    BY <1>2, <2>1 DEF Moves
  <2>2. CASE k # x.k \/ n # x.n
    BY <1>2, <2>2 DEF Moves, Elsewhere
  <2> QED BY <2>1, <2>2
<1> QED BY <1>2, <1>3

LEMMA StepMoves ==
    ASSUME Base, Stepped
    PROVE  \A k \in Kind, n \in Name : Moves(k, n)
<1>1. ASSUME Quiet PROVE \A k \in Kind, n \in Name : Moves(k, n)
  BY <1>1 DEF Quiet, Moves
<1>2. ASSUME NEW c \in Client, ClientStep(c)
      PROVE  \A k \in Kind, n \in Name : Moves(k, n)
  BY <1>1, <1>2, StepFrame, SentMoves
<1>3. ASSUME NEW p, NEW st, Built(p, st), NEW k \in Kind, NEW n \in Name PROVE Moves(k, n)
  <2>1. CASE k = "pkg" /\ n = p
    BY <1>3, <2>1 DEF Built, Moves
  <2>2. CASE k = "pkg" /\ n # p
    BY <1>3, <2>2 DEF Built, Moves
  <2>3. CASE k = "fn" /\ n \in Touched(p, st)
    BY <1>3, <2>3 DEF Built, Moves
  <2>4. CASE k = "fn" /\ n \notin Touched(p, st)
    BY <1>3, <2>4 DEF Built, Moves
  <2>5. CASE k \notin {"pkg", "fn"}
    BY <1>3, <2>5 DEF Built, Moves
  <2> QED BY <2>1, <2>2, <2>3, <2>4, <2>5
<1>4. CASE UNCHANGED vars
  BY <1>1, <1>4 DEF vars, apiVars, Quiet
<1> QED BY <1>2, <1>3, <1>4 DEF Stepped

LEMMA SettledBusy ==
    ASSUME NEW r, IsClient(r), Settled(r).cmd \in {"cli", "apply"}
    PROVE  Settled(r) = r /\ ~Dead(r) /\ ~Done(r)
<1>1. Idle.cmd = "idle"
  BY DEF Idle
<1> QED BY <1>1, SettledForms DEF Rested

-----------------------------------------------------------------------------
(* An apply updates what it owned when it looked, and as long as nobody    *)
(* else writes it deletes what it owns; o and v are what is stored now.    *)
OwnCall(o, v, by, alone, x) ==
    /\ x.op = "update" => /\ x.o.rv <= v
                          /\ (o # None /\ o.rv = x.o.rv) => o.by = by
    /\ (alone /\ x.op = "delete" /\ o # None) => o.by = by

(* The calls of every apply are for what it owns.                          *)
OwnCalls ==
    \A c \in Client : cl[c].cmd = "apply" => \A x \in Pend(c) :
        OwnCall(store[x.k][x.n], version[x.k][x.n], cl[c].by, fresh[c], x)

(* Whoever writes a resource, an update stays one of what was owned.       *)
LEMMA OwnCallKept ==
    ASSUME Base, Stepped, NEW by, NEW x, IsCall(x), NEW f, NEW g,
           OwnCall(store[x.k][x.n], version[x.k][x.n], by, f, x),
           g => f /\ (\/ store'[x.k][x.n] \in {store[x.k][x.n], None}
                      \/ store'[x.k][x.n].by = by)
    PROVE  OwnCall(store'[x.k][x.n], version'[x.k][x.n], by, g, x)
<1>1. x.k \in Kind /\ x.n \in Name
  BY DEF IsCall
<1>2. Moves(x.k, x.n)
  BY <1>1, StepMoves
<1>3. ASSUME x.op = "update"
      PROVE  /\ x.o.rv <= version'[x.k][x.n]
             /\ (store'[x.k][x.n] # None /\ store'[x.k][x.n].rv = x.o.rv)
                    => store'[x.k][x.n].by = by
  <2>1. x.o \in Object(x.k, x.n)
    BY <1>3 DEF IsCall, ReadOnly
  <2>2. x.o.rv \in Nat /\ version[x.k][x.n] \in Nat
    BY <1>1, <2>1 DEF Object, Base, ResourcesTypeOK, StoreTyped
  <2>3. /\ x.o.rv <= version[x.k][x.n]
        /\ (store[x.k][x.n] # None /\ store[x.k][x.n].rv = x.o.rv) => store[x.k][x.n].by = by
    BY <1>3 DEF OwnCall
  <2> QED BY <1>2, <2>2, <2>3 DEF Moves
<1> QED BY <1>3 DEF OwnCall

(* The call x is the one for the item i of the specs of s.                 *)
Applies(x, s, i) ==
    /\ IsCall(x) /\ x.k = i.k /\ x.n = i.n /\ x.lax = FALSE
    /\ x.op \in {"create", "update"}
    /\ x.o.by = s.by /\ x.o.spec = WithVersion(s, i).spec
    /\ x.op = "update" => /\ i.n \in Owned(i.k, s.by)
                          /\ x.o.rv = Get(i.k, i.n).rv

LEMMA ItemApplies ==
    ASSUME StoreTyped, NEW s, IsClient(s), NEW i \in s.want, NEW x,
           x \in ApplyItem(s, WithVersion(s, i), Owned(i.k, s.by))
    PROVE  Applies(x, s, i)
BY ApplyItemTyped DEF Applies

(* No step makes a call one for a foreign resource: versions only grow.    *)
LEMMA OwnStep ==
    ASSUME Base, Base', Stepped, OwnCalls
    PROVE  OwnCalls'
<1> SUFFICES ASSUME NEW c \in Client, cl'[c].cmd = "apply", NEW x \in ToSet(cl'[c].todo)
             PROVE  OwnCall(store'[x.k][x.n], version'[x.k][x.n], cl'[c].by, fresh'[c], x)
  BY DEF OwnCalls, Pend
<1>1. IsClient(cl[c]) /\ Form(cl[c]) /\ DOMAIN cl = Client /\ StoreTyped
      /\ fresh \in [Client -> BOOLEAN]
  BY DEF Base, ResourcesTypeOK
<1>2. ASSUME cl'[c].cmd = cl[c].cmd, cl'[c].by = cl[c].by, x \in ToSet(cl[c].todo),
             fresh'[c] => fresh[c] /\ (\/ store'[x.k][x.n] \in {store[x.k][x.n], None}
                                       \/ store'[x.k][x.n].by = cl[c].by)
      PROVE  OwnCall(store'[x.k][x.n], version'[x.k][x.n], cl'[c].by, fresh'[c], x)
  <2>1. IsCall(x) /\ OwnCall(store[x.k][x.n], version[x.k][x.n], cl[c].by, fresh[c], x)
    BY <1>1, <1>2 DEF OwnCalls, IsClient, Pend
  <2> DEFINE by == cl[c].by  f == fresh[c]  g == fresh'[c]
  <2>2. /\ OwnCall(store[x.k][x.n], version[x.k][x.n], by, f, x)
        /\ g => f /\ (\/ store'[x.k][x.n] \in {store[x.k][x.n], None}
                      \/ store'[x.k][x.n].by = by)
    BY <1>2, <2>1
  <2> HIDE DEF by, f, g
  <2>3. OwnCall(store'[x.k][x.n], version'[x.k][x.n], by, g, x)
    BY <2>1, <2>2, OwnCallKept
  <2> QED BY <1>2, <2>3 DEF by, g
<1>3. ASSUME NEW d \in Client \ {c}, ClientStep(d)
      PROVE  OwnCall(store'[x.k][x.n], version'[x.k][x.n], cl'[c].by, fresh'[c], x)
  <2>1. cl'[c] = cl[c] /\ (fresh'[c] => fresh[c] /\ Quiet)
    BY <1>3, StepFrame
  <2> QED BY <1>2, <2>1 DEF Quiet
<1>4. ASSUME NEW p, NEW st, Built(p, st)
      PROVE  OwnCall(store'[x.k][x.n], version'[x.k][x.n], cl'[c].by, fresh'[c], x)
  <2>1. cl' = cl /\ fresh'[c] = FALSE
    BY <1>4 DEF Built, BuilderWrites, clientVars
  <2> QED BY <1>2, <2>1
<1>5. ASSUME UNCHANGED vars
      PROVE  OwnCall(store'[x.k][x.n], version'[x.k][x.n], cl'[c].by, fresh'[c], x)
  BY <1>2, <1>5 DEF vars, apiVars, clientVars, historyVars
<1>6. ASSUME ClientStep(c)
      PROVE  OwnCall(store'[x.k][x.n], version'[x.k][x.n], cl'[c].by, fresh'[c], x)
  <2>1. CASE Commenced(c)
    <3>1. PICK s : Begin(c, s) /\ Starts(s)
      BY <2>1 DEF Commenced
    <3>2. cl'[c] = s
      BY <1>1, <3>1 DEF Begin
    <3>3. ToSet(s.todo) = {}
      BY <3>1, <3>2, NoneListed DEF Starts
    <3> QED BY <3>2, <3>3
  <2>2. CASE Passed(c)
    BY <1>2, <2>2 DEF Passed, apiVars, historyVars
  <2>3. ASSUME NEW r, Failed(c, r)
        PROVE  FALSE
    <3>1. IsClient(r) /\ r.cmd = cl[c].cmd /\ r.err = TRUE /\ cl'[c] = Settled(r)
          /\ Form(r)
      BY <1>1, <2>3 DEF Failed
    <3>2. Settled(r) = r /\ ~Dead(r)
      BY <3>1, SettledBusy
    <3>3. r.todo # <<>> /\ Head(r.todo).lax
      BY <3>1, <3>2 DEF Dead
    <3>4. Head(r.todo) \in ToSet(r.todo)
      BY <3>1, <3>3, ClientForm, RestListed DEF AreCalls
    <3>5. Head(r.todo).lax = FALSE
      BY <3>1, <3>2, <3>4 DEF Form
    <3> QED BY <3>3, <3>5
  <2>4. ASSUME NEW r, NEW y, NEW z, Sent(c, y, z, r)
        PROVE  OwnCall(store'[x.k][x.n], version'[x.k][x.n], cl'[c].by, fresh'[c], x)
    <3>1. /\ IsClient(r) /\ r.cmd = cl[c].cmd /\ r.by = cl[c].by
          /\ fresh'[c] = fresh[c]
      BY <1>1, <2>4 DEF Sent
    <3>2. /\ z.op = y.op /\ z.k = y.k /\ z.n = y.n /\ Elsewhere(z.k, z.n)
          /\ y.op # "delete" => z.o.by = y.o.by
          /\ ToSet(cl[c].todo) = {y} \cup ToSet(r.todo) /\ cl'[c] = Settled(r)
      BY <2>4, SentFacts
    <3>3. Settled(r) = r
      BY <3>1, <3>2, SettledBusy
    <3>4. y \in ToSet(cl[c].todo) /\ x \in ToSet(cl[c].todo)
      BY <3>2, <3>3
    <3>5. y.op # "delete" => y.o.by = cl[c].by
      BY <1>1, <3>1, <3>2, <3>3, <3>4 DEF Form
    <3>6. /\ z.op = "delete" => store'[z.k][z.n] = None
          /\ z.op # "delete" => store'[z.k][z.n].by = z.o.by
      BY <2>4, SentMoves
    <3>7. x.k \in Kind /\ x.n \in Name
      BY <1>1, <3>4 DEF IsClient, IsCall
    <3>8. CASE x.k = z.k /\ x.n = z.n
      BY <1>2, <3>1, <3>2, <3>3, <3>4, <3>5, <3>6, <3>8
    <3>9. CASE x.k # z.k \/ x.n # z.n
      BY <1>2, <3>1, <3>2, <3>3, <3>4, <3>7, <3>9 DEF Elsewhere
    <3> QED BY <3>8, <3>9
  <2>5. ASSUME NEW r, Looked(c, Head(cl[c].todo), r) PROVE FALSE
    <3>1. IsClient(r) /\ r.cmd = "cli" /\ cl'[c] = Settled(r)
      BY <1>1, <2>5 DEF Looked
    <3> QED BY <3>1, SettledBusy
  <2>6. ASSUME NEW k, NEW r, Planned(c, k, r)
        PROVE  OwnCall(store'[x.k][x.n], version'[x.k][x.n], cl'[c].by, fresh'[c], x)
    <3>1. /\ IsClient(r) /\ r.by = cl[c].by /\ r.want = cl[c].want /\ k \in Kind
          /\ ToSet(r.todo) = Items(cl[c], k) \cup Drops(cl[c], k)
          /\ cl'[c] = Settled(r) /\ store' = store /\ version' = version
      BY <1>1, <2>6 DEF Planned, apiVars
    <3>2. Settled(r) = r
      BY <3>1, SettledBusy
    <3>3. CASE x \in Items(cl[c], k)
      <4>1. PICK i \in Wanted(cl[c], k) :
               x \in ApplyItem(cl[c], WithVersion(cl[c], i), Owned(k, cl[c].by))
        BY <3>3 DEF Items
      <4>2. i \in cl[c].want /\ i.k = k
        BY DEF Wanted
      <4>3. /\ x.k = k /\ x.n = i.n /\ x.op \in {"create", "update"}
            /\ x.op = "update" => i.n \in Owned(k, cl[c].by) /\ x.o.rv = Get(k, i.n).rv
        <5> DEFINE s == cl[c]
        <5>1. x \in ApplyItem(s, WithVersion(s, i), Owned(i.k, s.by))
          BY <4>1, <4>2
        <5>2. IsClient(s) /\ i \in s.want
          BY <1>1, <4>2
        <5> HIDE DEF s
        <5>3. Applies(x, s, i)
          BY <1>1, <5>1, <5>2, ItemApplies
        <5> QED BY <4>2, <5>3 DEF Applies, s
      <4>4. i.n \in Owned(k, cl[c].by) =>
               /\ i.n \in Name /\ store[k][i.n] # None /\ store[k][i.n].by = cl[c].by
        BY DEF Owned, Objects, Get
      <4>5. i.n \in Owned(k, cl[c].by) => store[k][i.n].rv <= version[k][i.n]
        BY <1>1, <3>1, <4>4 DEF StoreTyped
      <4> QED BY <3>1, <3>2, <4>3, <4>4, <4>5 DEF OwnCall, Get
    <3>4. CASE x \in Drops(cl[c], k)
      <4>1. PICK n \in Owned(k, cl[c].by) : x = Delete(k, n)
        BY <3>4 DEF Drops
      <4>2. x.op = "delete" /\ x.k = k /\ x.n = n
        BY <4>1 DEF Delete, Call
      <4>3. store[k][n].by = cl[c].by
        BY DEF Owned, Get
      <4> QED BY <3>1, <3>2, <4>2, <4>3 DEF OwnCall
    <3> QED BY <3>1, <3>2, <3>3, <3>4
  <2>7. ASSUME NEW r, Waited(c, r) PROVE FALSE
    BY <1>1, <2>7 DEF Waited
  <2> QED BY <1>6, <2>1, <2>2, <2>3, <2>4, <2>5, <2>6, <2>7 DEF ClientStep
<1> QED BY <1>3, <1>4, <1>5, <1>6 DEF Stepped

LEMMA OwnHolds == ResourcesSpec => []OwnCalls
<1>1. ResourcesInit => OwnCalls
  <2>1. ResourcesInit => \A c \in Client : cl[c].cmd = "idle"
    BY DEF ResourcesInit, Idle
  <2> QED BY <2>1 DEF OwnCalls
<1>2. Base /\ Base' /\ OwnCalls /\ [ResourcesNext]_vars => OwnCalls'
  BY NextSteps, OwnStep
<1> QED BY <1>1, <1>2, BaseHolds, PTL DEF ResourcesSpec

(* OnlyOwn: `spec apply` changes only what carries the annotation of its   *)
(* deployment, however the commands interleave: an update names the        *)
(* version that was looked at, and that one was its own.                   *)
THEOREM OnlyOwnHolds == ResourcesSpec => OnlyOwn
<1> DEFINE A == \A c \in Client :
                  (cl[c].cmd = "apply" /\ cl'[c] # cl[c]) =>
                      \A k \in Kind, n \in Name :
                          store'[k][n] # store[k][n] =>
                              \/ store[k][n] = None
                              \/ store[k][n].by = cl[c].by
                              \/ store'[k][n] = None /\ ~fresh[c]
<1>1. ASSUME Base, OwnCalls, Stepped PROVE A
  <2> SUFFICES ASSUME NEW c \in Client, cl[c].cmd = "apply", cl'[c] # cl[c],
                      NEW k \in Kind, NEW n \in Name, store'[k][n] # store[k][n]
               PROVE  \/ store[k][n] = None
                      \/ store[k][n].by = cl[c].by
                      \/ store'[k][n] = None /\ ~fresh[c]
    OBVIOUS
  <2>1. ClientStep(c)
    <3>1. ASSUME NEW d \in Client \ {c}, ClientStep(d) PROVE FALSE
      BY <1>1, <3>1, StepFrame
    <3>2. ASSUME NEW p, NEW st, Built(p, st) PROVE FALSE
      BY <3>2 DEF Built, BuilderWrites, clientVars
    <3>3. ASSUME UNCHANGED vars PROVE FALSE
      BY <3>3 DEF vars, clientVars
    <3> QED BY <1>1, <3>1, <3>2, <3>3 DEF Stepped
  <2> DEFINE y == Head(cl[c].todo)  z == NextCall(c)
  <2>2. PICK r : Sent(c, y, z, r)
    <3>1. ~Quiet
      BY DEF Quiet
    <3> QED BY <1>1, <2>1, <3>1, StepFrame
  <2> HIDE DEF y, z
  <2>3. /\ z.op = y.op /\ z.k = y.k /\ z.n = y.n /\ Elsewhere(z.k, z.n)
        /\ y.op # "delete" => z.o.rv = y.o.rv
        /\ ToSet(cl[c].todo) = {y} \cup ToSet(r.todo)
    BY <1>1, <2>2, SentFacts
  <2>4. k = z.k /\ n = z.n
    BY <2>3 DEF Elsewhere
  <2>5. y \in ToSet(cl[c].todo) /\ Form(cl[c])
    BY <1>1, <2>3 DEF Base
  <2>6. y.op \in {"create", "update", "delete"}
    BY <2>5 DEF Form
  <2>7. OwnCall(store[k][n], version[k][n], cl[c].by, fresh[c], y)
    BY <1>1, <2>3, <2>4, <2>5 DEF OwnCalls, Pend
  <2>8. /\ z.op = "create" <=> store[z.k][z.n] = None
        /\ z.op \in {"update", "status"} => z.o.rv = store[z.k][z.n].rv
        /\ z.op = "delete" => store'[z.k][z.n] = None
    BY <1>1, <2>2, SentMoves
  <2> QED BY <2>3, <2>4, <2>6, <2>7, <2>8 DEF OwnCall
<1>2. Base /\ OwnCalls /\ [ResourcesNext]_vars => A
  BY <1>1, NextSteps
<1> HIDE DEF A
<1>3. Base /\ OwnCalls /\ [ResourcesNext]_vars => [A]_vars
  BY <1>2
<1>4. [][A]_vars => OnlyOwn
  BY PTL DEF OnlyOwn, A
<1> QED BY <1>3, <1>4, BaseHolds, OwnHolds, PTL DEF ResourcesSpec

-----------------------------------------------------------------------------
(* ApplyConverges.                                                         *)

(* The kinds that an apply has begun when n of them are left.              *)
Begun(n, k) == \E i \in 1 .. 7 - n : ApplyOrder[i] = k

LEMMA OrderFacts ==
    /\ ApplyOrder[1] = "env" /\ ApplyOrder[2] = "pkg" /\ ApplyOrder[3] = "fn"
    /\ ApplyOrder[4] = "http" /\ ApplyOrder[5] = "watch" /\ ApplyOrder[6] = "time"
    /\ ApplyOrder[7] = "mq"
BY DEF ApplyOrder

LEMMA BegunFirst ==
    ASSUME NEW k
    PROVE  ~Begun(7, k)
BY DEF Begun

(* One kind more is begun.                                                 *)
LEMMA BegunNext ==
    ASSUME NEW n \in 1 .. 7, NEW k
    PROVE  Begun(n - 1, k) <=> Begun(n, k) \/ k = ApplyOrder[8 - n]
BY DEF Begun

LEMMA BegunAll ==
    ASSUME NEW k \in ToSet(ApplyOrder)
    PROVE  Begun(0, k)
<1>1. DOMAIN ApplyOrder = 1 .. 7
  BY DEF ApplyOrder
<1> QED BY <1>1 DEF Begun, ToSet

LEMMA BegunOrder ==
    ASSUME NEW n \in 0 .. 7
    PROVE  /\ Begun(n, "fn") => Begun(n, "pkg")
           /\ (n < 7 /\ ApplyOrder[7 - n] = "fn") => Begun(n, "fn")
           /\ (n < 7 /\ ApplyOrder[7 - n] = "pkg") => ~Begun(n, "fn")
           /\ (n > 0 /\ ApplyOrder[8 - n] = "fn") => Begun(n, "pkg")
<1>1. Begun(n, "fn") <=> n <= 4
  <2>1. ASSUME n <= 4 PROVE Begun(n, "fn")
    <3>1. 3 \in 1 .. 7 - n
      BY <2>1
    <3> QED BY <3>1, OrderFacts DEF Begun
  <2>2. ASSUME n > 4 PROVE ~Begun(n, "fn")
    <3>1. \A i \in 1 .. 7 - n : i \in {1, 2}
      BY <2>2
    <3> QED BY <3>1, OrderFacts DEF Begun
  <2> QED BY <2>1, <2>2
<1>2. n <= 5 => Begun(n, "pkg")
  <2>1. ASSUME n <= 5 PROVE 2 \in 1 .. 7 - n
    BY <2>1
  <2> QED BY <2>1, OrderFacts DEF Begun
<1>3. (n < 7 /\ ApplyOrder[7 - n] = "fn") => n = 4
  <2>1. ASSUME n < 7 PROVE 7 - n \in {1, 2, 3, 4, 5, 6, 7} /\ (7 - n = 3 => n = 4)
    BY <2>1
  <2> QED BY <2>1, OrderFacts
<1>4. (n < 7 /\ ApplyOrder[7 - n] = "pkg") => n = 5
  <2>1. ASSUME n < 7 PROVE 7 - n \in {1, 2, 3, 4, 5, 6, 7} /\ (7 - n = 2 => n = 5)
    BY <2>1
  <2> QED BY <2>1, OrderFacts
<1>5. (n > 0 /\ ApplyOrder[8 - n] = "fn") => n = 5
  <2>1. ASSUME n > 0 PROVE 8 - n \in {1, 2, 3, 4, 5, 6, 7} /\ (8 - n = 3 => n = 5)
    BY <2>1
  <2> QED BY <2>1, OrderFacts
<1> QED BY <1>1, <1>2, <1>3, <1>4, <1>5

-----------------------------------------------------------------------------
(* A client that applies or has applied.                                   *)
Applying(s) == s.cmd = "apply" \/ (s.cmd \in {"wait", "idle"} /\ s.by # None)

(* The cluster has an item of the specs.                                   *)
Has(st, d, i) ==
    LET o == st[i.k][i.n] IN
    /\ o # None /\ o.by = d /\ o.spec.v = i.spec.v /\ o.spec.to = i.spec.to
    /\ i.k = "fn" => \A p \in o.spec.to : o.spec.at = st["pkg"][p].rv

(* A call brings an item of the specs, or removes what is not in them.     *)
Brings(s, x, i) ==
    /\ i.k = x.k /\ i.n = x.n
    /\ x.o.spec.v = i.spec.v /\ x.o.spec.to = i.spec.to
    /\ x.k = "fn" => \A p \in i.spec.to : x.o.spec.at = s.meta[p]

(* What is left to do serves the specs.                                    *)
Aims(s, x) ==
    /\ Len(s.kinds) < 7 /\ x.k = ApplyOrder[7 - Len(s.kinds)]
    /\ x.op # "delete" => \E i \in s.want : Brings(s, x, i)
    /\ x.op = "delete" => x.n \notin Names(s.want, x.k)

Writing(s, k, n) == \E x \in ToSet(s.todo) : x.op # "delete" /\ x.k = k /\ x.n = n

Dropping(s, k, n) == \E x \in ToSet(s.todo) : x.op = "delete" /\ x.k = k /\ x.n = n

(* What is not there yet, of the kinds begun, is about to be written; what *)
(* is not wanted any more is about to be deleted.                          *)
Bringing(s, st) ==
    \A i \in s.want : Begun(Len(s.kinds), i.k) => Has(st, s.by, i) \/ Writing(s, i.k, i.n)

(* The versions of packages that are done are known.                       *)
Knowing(s, st) ==
    Begun(Len(s.kinds), "pkg") => \A p \in Names(s.want, "pkg") :
        \/ Writing(s, "pkg", p)
        \/ st["pkg"][p] # None /\ s.meta[p] = st["pkg"][p].rv

(* With --delete, what is owned and not wanted is about to go.             *)
Clearing(s, st) ==
    s.del => \A k \in Kind, n \in Name :
        (Begun(Len(s.kinds), k) /\ st[k][n] # None /\ st[k][n].by = s.by) =>
            n \in Names(s.want, k) \/ Dropping(s, k, n)

(* An apply that will have brought about its specs when it is done.        *)
OnTrack(s, st) ==
    /\ \A x \in ToSet(s.todo) : Aims(s, x)
    /\ Bringing(s, st) /\ Knowing(s, st) /\ Clearing(s, st)

(* As long as nobody else writes.                                          *)
Converging == \A c \in Client : (Applying(cl[c]) /\ fresh[c]) => OnTrack(cl[c], store)

(* Only these parts of a client matter.                                    *)
LEMMA SameTrack ==
    ASSUME NEW s, NEW r, NEW st, OnTrack(s, st), r.todo = s.todo, r.kinds = s.kinds,
           r.by = s.by, r.want = s.want, r.del = s.del, r.meta = s.meta
    PROVE  OnTrack(r, st)
BY DEF OnTrack, Aims, Brings, Bringing, Knowing, Clearing, Writing, Dropping

(* A client that is settled is on its track still, or is none that applies.*)
LEMMA SettledTrack ==
    ASSUME NEW r, NEW st, IsClient(r), OnTrack(r, st), Applying(Settled(r))
    PROVE  OnTrack(Settled(r), st)
<1>1. ~Applying(Idle)
  BY DEF Applying, Idle
<1>2. CASE Rested(Settled(r), r)
  <2> DEFINE q == Settled(r)
  <2>1. /\ q.todo = r.todo /\ q.kinds = r.kinds /\ q.by = r.by /\ q.want = r.want
        /\ q.del = r.del /\ q.meta = r.meta
    BY <1>2 DEF Rested, Done
  <2> HIDE DEF q
  <2>2. OnTrack(q, st)
    BY <2>1, SameTrack
  <2> QED BY <2>2 DEF q
<1> QED BY <1>1, <1>2, SettledForms

LEMMA KindsLeft ==
    ASSUME NEW s, IsClient(s), Form(s)
    PROVE  Len(s.kinds) \in 0 .. 7
<1>1. s.kinds \in Seq(Kind)
  BY ClientForm DEF ClientSet
<1> DEFINE n == Len(s.kinds)
<1>2. n \in Nat /\ n <= 7
  BY <1>1 DEF Form
<1> HIDE DEF n
<1>3. n \in 0 .. 7
  BY <1>2
<1> QED BY <1>3 DEF n

(* An item for which there is no call is there, and its package is kept.   *)
LEMMA ItemSettled ==
    ASSUME StoreTyped, NEW s, IsClient(s), NEW i \in s.want,
           ApplyItem(s, WithVersion(s, i), Owned(i.k, s.by)) = {},
           i.k = "fn" => \A p \in i.spec.to : s.meta[p] = store["pkg"][p].rv
    PROVE  /\ Has(store, s.by, i)
           /\ i.n \in Owned(i.k, s.by) /\ Keeps(i.k, Get(i.k, i.n), WithVersion(s, i).spec)
<1> DEFINE w == WithVersion(s, i)  o == store[i.k][i.n]
<1>1. /\ i.k \in Kind /\ i.n \in Name /\ i.spec \in Contents(i.k)
      /\ w.k = i.k /\ w.n = i.n
      /\ w.spec.v = i.spec.v /\ w.spec.to = i.spec.to
      /\ i.k = "fn" => \A p \in i.spec.to : w.spec.at = s.meta[p]
  BY ItemTyped
<1> HIDE DEF w
<1>2. i.n \in Owned(i.k, s.by) /\ Keeps(i.k, Get(i.k, i.n), w.spec)
  <2>1. ApplyItem(s, w, Owned(i.k, s.by)) = {}
    BY DEF w
  <2> QED BY <1>1, <2>1 DEF ApplyItem
<1>3. o # None /\ o.by = s.by /\ o \in Object(i.k, i.n)
  BY <1>1, <1>2 DEF Owned, Objects, Get, StoreTyped
<1>4. o.spec.v = i.spec.v /\ o.spec.to = i.spec.to
      /\ (i.k = "fn" => o.spec.at = w.spec.at)
  <2>1. CASE i.k = "pkg"
    <3>1. o.spec.v = i.spec.v
      BY <1>1, <1>2, <2>1 DEF Keeps, SamePackage, Get
    <3>2. o.spec \in Contents("pkg") /\ i.spec \in Contents("pkg")
      BY <1>1, <1>3, <2>1 DEF Object
    <3>3. ASSUME NEW sp \in Contents("pkg") PROVE sp.to = {}
      <4>1. sp \in [v : Nat \cup {Bad}, to : {{}}, at : Nat]
        BY ContentsOf
      <4> QED BY <4>1
    <3>4. o.spec.to = {} /\ i.spec.to = {}
      BY <3>2, <3>3
    <3> QED BY <2>1, <3>1, <3>4
  <2>2. CASE i.k # "pkg"
    <3>1. o.spec = w.spec
      BY <1>2, <2>2 DEF Keeps, Get
    <3> QED BY <1>1, <3>1
  <2> QED BY <2>1, <2>2
<1>5. i.k = "fn" => \A p \in o.spec.to : o.spec.at = store["pkg"][p].rv
  BY <1>1, <1>4
<1>6. Has(store, s.by, i)
  BY <1>3, <1>4, <1>5 DEF Has
<1> QED BY <1>2, <1>6 DEF w

(* The references of a function of the specs are to packages of the specs. *)
LEMMA WantedPackages ==
    ASSUME NEW s, Form(s), NEW i \in s.want, i.k = "fn", NEW p \in i.spec.to
    PROVE  p \in Names(s.want, "pkg")
BY DEF Form, Validate

LEMMA NamesIntro ==
    ASSUME NEW plan, NEW i \in plan
    PROVE  i.n \in Names(plan, i.k)
BY DEF Names

LEMMA NamesElim ==
    ASSUME NEW plan, NEW k, NEW n \in Names(plan, k)
    PROVE  \E i \in plan : i.k = k /\ i.n = n
BY DEF Names

(* The client that has begun one more kind.                                *)
LEMMA PlannedTrack ==
    ASSUME Base, NEW c \in Client, NEW k, NEW r, Planned(c, k, r), OnTrack(cl[c], store)
    PROVE  OnTrack(r, store)
<1> DEFINE s == cl[c]  n == Len(s.kinds)  m == Len(r.kinds)
<1>1. IsClient(s) /\ Form(s) /\ StoreTyped /\ OnTrack(s, store)
  BY DEF Base, ResourcesTypeOK
<1>2. /\ s.todo = <<>> /\ k \in Kind /\ n \in 1 .. 7 /\ k = ApplyOrder[8 - n] /\ m = n - 1
      /\ r.by = s.by /\ r.want = s.want /\ r.del = s.del
      /\ ToSet(r.todo) = Items(s, k) \cup Drops(s, k)
      /\ k # "pkg" => r.meta = s.meta
      /\ k = "pkg" => \A p \in Name :
           r.meta[p] = IF p \in KeptItems(s, k) THEN Get("pkg", p).rv ELSE s.meta[p]
  BY DEF Planned
<1> HIDE DEF s, n, m
<1>3. ToSet(s.todo) = {}
  BY <1>2, NoneListed
<1>4. /\ n \in 0 .. 7 /\ m < 7 /\ k = ApplyOrder[7 - m] /\ n > 0
  <2>1. 7 - m = 8 - n
    BY <1>2
  <2> QED BY <1>2, <2>1
<1>5. \A kk : Begun(m, kk) <=> Begun(n, kk) \/ kk = k
  BY <1>2, BegunNext
<1>6. (k = "fn") => Begun(n, "pkg")
  BY <1>2, <1>4, BegunOrder
<1>7. /\ \A i \in s.want : Begun(n, i.k) => Has(store, s.by, i)
      /\ Begun(n, "pkg") => \A p \in Names(s.want, "pkg") :
            store["pkg"][p] # None /\ s.meta[p] = store["pkg"][p].rv
      /\ s.del => \A kk \in Kind, q \in Name :
            (Begun(n, kk) /\ store[kk][q] # None /\ store[kk][q].by = s.by) =>
               q \in Names(s.want, kk)
  BY <1>1, <1>3 DEF OnTrack, Bringing, Knowing, Clearing, Writing, Dropping, n
<1>8. ASSUME NEW i \in s.want, i.k = k
      PROVE  \/ Writing(r, k, i.n)
             \/ /\ Has(store, s.by, i)
                /\ i.n \in Owned(k, s.by) /\ Keeps(k, Get(k, i.n), WithVersion(s, i).spec)
  <2> DEFINE C == ApplyItem(s, WithVersion(s, i), Owned(i.k, s.by))
  <2>1. CASE C = {}
    <3>1. i.k = "fn" => \A p \in i.spec.to : s.meta[p] = store["pkg"][p].rv
      BY <1>1, <1>6, <1>7, <1>8, WantedPackages
    <3> QED BY <1>1, <1>8, <2>1, <3>1, ItemSettled
  <2>2. CASE C # {}
    <3>1. PICK x : x \in C
      BY <2>2
    <3>2. Applies(x, s, i)
      BY <1>1, <3>1, ItemApplies
    <3>3. x \in Items(s, k)
      BY <1>8, <3>1 DEF Items, Wanted
    <3> QED BY <1>2, <1>8, <3>2, <3>3 DEF Applies, Writing
  <2> QED BY <2>1, <2>2
<1>9. ASSUME NEW x \in ToSet(r.todo) PROVE Aims(r, x)
  <2>1. CASE x \in Items(s, k)
    <3>1. PICK i \in Wanted(s, k) :
             x \in ApplyItem(s, WithVersion(s, i), Owned(k, s.by))
      BY <2>1 DEF Items
    <3>2. i \in s.want /\ i.k = k
      BY DEF Wanted
    <3>3. x \in ApplyItem(s, WithVersion(s, i), Owned(i.k, s.by))
      BY <3>1, <3>2
    <3>4. Applies(x, s, i)
      BY <1>1, <3>2, <3>3, ItemApplies
    <3> DEFINE w == WithVersion(s, i)
    <3>5. /\ w.spec.v = i.spec.v /\ w.spec.to = i.spec.to
          /\ i.k = "fn" => \A p \in i.spec.to : w.spec.at = s.meta[p]
      BY <1>1, <3>2, ItemTyped
    <3> HIDE DEF w
    <3>6. x.k = k /\ x.n = i.n /\ x.op # "delete" /\ x.o.spec = w.spec
      BY <3>2, <3>4 DEF Applies, w
    <3>7. Brings(r, x, i)
      BY <1>2, <3>2, <3>5, <3>6 DEF Brings
    <3> QED BY <1>2, <1>4, <3>2, <3>6, <3>7 DEF Aims, m
  <2>2. CASE x \in Drops(s, k)
    <3>1. PICK q \in Owned(k, s.by) \ Names(s.want, k) : x = Delete(k, q)
      BY <2>2 DEF Drops
    <3>2. x.op = "delete" /\ x.k = k /\ x.n = q
      BY <3>1 DEF Delete, Call
    <3> QED BY <1>2, <1>4, <3>1, <3>2 DEF Aims, m
  <2> QED BY <1>2, <2>1, <2>2
<1>10. Bringing(r, store)
  BY <1>2, <1>5, <1>7, <1>8 DEF Bringing, m
<1>11. Knowing(r, store)
  <2> SUFFICES ASSUME Begun(m, "pkg"), NEW p \in Names(s.want, "pkg")
               PROVE  \/ Writing(r, "pkg", p)
                      \/ store["pkg"][p] # None /\ r.meta[p] = store["pkg"][p].rv
    BY <1>2 DEF Knowing, m
  <2>1. CASE k # "pkg"
    BY <1>2, <1>5, <1>7, <2>1
  <2>2. CASE k = "pkg"
    <3>1. PICK i \in s.want : i.k = "pkg" /\ i.n = p
      BY NamesElim
    <3>2. WithVersion(s, i) = i /\ p \in Name
      BY <1>1, <3>1, ItemTyped
    <3>3. CASE Has(store, s.by, i) /\ i.n \in Owned(k, s.by) /\ Keeps(k, Get(k, i.n), i.spec)
      <4>1. p \in KeptItems(s, k)
        BY <2>2, <3>1, <3>3 DEF KeptItems, Wanted
      <4>2. r.meta[p] = store["pkg"][p].rv
        BY <1>2, <2>2, <3>2, <4>1 DEF Get
      <4> QED BY <3>1, <3>3, <4>2 DEF Has
    <3> QED BY <1>8, <2>2, <3>1, <3>2, <3>3
  <2> QED BY <2>1, <2>2
<1>12. Clearing(r, store)
  <2> SUFFICES ASSUME s.del, NEW kk \in Kind, NEW q \in Name, Begun(m, kk),
                      store[kk][q] # None, store[kk][q].by = s.by
               PROVE  q \in Names(s.want, kk) \/ Dropping(r, kk, q)
    BY <1>2 DEF Clearing, m
  <2>1. CASE Begun(n, kk)
    BY <1>7, <2>1
  <2>2. CASE kk = k /\ q \notin Names(s.want, k)
    <3>1. q \in Owned(k, s.by)
      BY <2>2 DEF Owned, Objects, Get
    <3>2. Delete(k, q) \in Drops(s, k)
      BY <2>2, <3>1 DEF Drops
    <3>3. Delete(k, q).op = "delete" /\ Delete(k, q).k = k /\ Delete(k, q).n = q
      BY DEF Delete, Call
    <3> QED BY <1>2, <2>2, <3>2, <3>3 DEF Dropping
  <2> QED BY <1>5, <2>1, <2>2
<1> QED BY <1>9, <1>10, <1>11, <1>12 DEF OnTrack

(* The client that has made one more call.                                 *)
LEMMA SentTrack ==
    ASSUME Base, NEW c \in Client, NEW y, NEW x, NEW r, Sent(c, y, x, r),
           cl[c].cmd = "apply", OnTrack(cl[c], store)
    PROVE  OnTrack(r, store')
<1> DEFINE s == cl[c]  n == Len(s.kinds)
<1>1. IsClient(s) /\ Form(s) /\ StoreTyped /\ OnTrack(s, store)
  BY DEF Base, ResourcesTypeOK
<1>2. /\ r.kinds = s.kinds /\ r.by = s.by /\ r.want = s.want /\ r.del = s.del
      /\ \A p \in Name : r.meta[p] = IF x.k = "pkg" /\ x.op # "delete" /\ p = x.n
                                       THEN version["pkg"][p] + 1 ELSE s.meta[p]
  BY DEF Sent
<1>3. /\ x.op = y.op /\ x.k = y.k /\ x.n = y.n
      /\ x.k \in Kind /\ x.n \in Name /\ Elsewhere(x.k, x.n)
      /\ y.op # "delete" =>
           /\ x.o.by = y.o.by
           /\ x.o.spec.v = y.o.spec.v /\ x.o.spec.to = y.o.spec.to
           /\ y.k = "fn" => \A p \in y.o.spec.to :
                x.o.spec.at = IF s.meta[p] = 0 THEN y.o.spec.at ELSE s.meta[p]
      /\ ToSet(s.todo) = {y} \cup ToSet(r.todo)
  BY SentFacts
<1>4. /\ x.op = "delete" => store'[x.k][x.n] = None
      /\ x.op # "delete" =>
           /\ store'[x.k][x.n] # None
           /\ store'[x.k][x.n].by = x.o.by
           /\ store'[x.k][x.n].spec = x.o.spec
           /\ store'[x.k][x.n].rv = version[x.k][x.n] + 1
  BY SentMoves
<1>5. n \in 0 .. 7
  BY <1>1, KindsLeft
<1>6. /\ \A z \in ToSet(s.todo) : Aims(s, z)
      /\ Bringing(s, store) /\ Knowing(s, store) /\ Clearing(s, store)
  BY <1>1 DEF OnTrack
<1>7. \A z \in ToSet(s.todo) : n < 7 /\ z.k = ApplyOrder[7 - n] /\ z.k = y.k
  BY <1>3, <1>6 DEF Aims
<1>8. y.op # "delete" => y.o.by = s.by
  BY <1>1, <1>3 DEF Form
<1>9. x.op = "delete" => x.n \notin Names(s.want, x.k)
  BY <1>3, <1>6 DEF Aims
<1>10. /\ \A i, j \in s.want : (i.k = j.k /\ i.n = j.n) => i = j
       /\ \A i \in s.want : i.k \in Kind /\ i.n \in Name /\ i.spec \in Contents(i.k)
  BY <1>1, ItemTyped DEF Form, ReadSpecs
<1>11. ASSUME NEW kk \in Kind, NEW q \in Name, kk # x.k \/ q # x.n
       PROVE  store'[kk][q] = store[kk][q]
  BY <1>3, <1>11 DEF Elsewhere
<1>12. /\ Begun(n, "fn") => Begun(n, "pkg")
       /\ x.k = "fn" => Begun(n, "fn")
       /\ x.k = "pkg" => ~Begun(n, "fn")
  BY <1>3, <1>5, <1>7, BegunOrder
<1> HIDE DEF n
<1>13. \A i \in s.want : i.k = "fn" => i.spec.to \subseteq Name
  <2>1. TAKE i \in s.want
  <2>2. ASSUME i.k = "fn" PROVE i.spec.to \subseteq Name
    <3>1. i.spec \in [v : Strategies, to : {{p} : p \in Name}, at : Nat]
      BY <1>10, <2>2, ContentsOf
    <3> QED BY <3>1
  <2> QED BY <2>2
<1>14. "pkg" \in Kind /\ "fn" \in Kind
  BY KindsAre
(* The call that was made brought its item.                                *)
<1>15. ASSUME NEW i \in s.want, i.k = x.k, i.n = x.n
       PROVE  Has(store', s.by, i)
  <2>1. x.op # "delete"
    BY <1>9, <1>15, NamesIntro
  <2>2. PICK j \in s.want : Brings(s, y, j)
    BY <1>3, <1>6, <2>1 DEF Aims
  <2>3. j = i
    BY <1>3, <1>10, <1>15, <2>2 DEF Brings
  <2>4. /\ y.o.spec.v = i.spec.v /\ y.o.spec.to = i.spec.to
        /\ y.k = "fn" => \A p \in i.spec.to : y.o.spec.at = s.meta[p]
    BY <2>2, <2>3 DEF Brings
  <2> DEFINE o == store'[i.k][i.n]
  <2>5. o # None /\ o.by = s.by /\ o.spec.v = i.spec.v /\ o.spec.to = i.spec.to
        /\ o.spec = x.o.spec
    BY <1>3, <1>4, <1>8, <1>15, <2>1, <2>4
  <2>6. ASSUME i.k = "fn", NEW p \in o.spec.to PROVE o.spec.at = store'["pkg"][p].rv
    <3>1. p \in i.spec.to /\ p \in Name /\ p \in Names(s.want, "pkg")
      BY <1>1, <1>13, <2>5, <2>6, WantedPackages
    <3>2. x.o.spec.at = s.meta[p]
      BY <1>3, <1>15, <2>1, <2>4, <2>6, <3>1
    <3>3. ~Writing(s, "pkg", p)
      BY <1>3, <1>7, <1>15, <2>6 DEF Writing
    <3>4. Begun(n, "pkg")
      BY <1>12, <1>15, <2>6
    <3>5. s.meta[p] = store["pkg"][p].rv
      BY <1>6, <3>1, <3>3, <3>4 DEF Knowing, n
    <3>6. store'["pkg"][p] = store["pkg"][p]
      BY <1>11, <1>14, <1>15, <2>6, <3>1
    <3> QED BY <2>5, <3>2, <3>5, <3>6
  <2> QED BY <2>5, <2>6 DEF Has
<1>16. ASSUME NEW z \in ToSet(r.todo) PROVE Aims(r, z)
  <2>1. Aims(s, z) /\ z.k = x.k
    BY <1>3, <1>6, <1>7
  <2>2. ASSUME NEW i \in s.want, Brings(s, z, i) PROVE Brings(r, z, i)
    <3>1. ASSUME z.k = "fn", NEW p \in i.spec.to PROVE r.meta[p] = s.meta[p]
      <4>1. x.k # "pkg"
        BY <2>1, <3>1
      <4>2. p \in Name
        BY <1>13, <2>2, <3>1 DEF Brings
      <4> QED BY <1>2, <4>1, <4>2
    <3> QED BY <2>2, <3>1 DEF Brings
  <2> QED BY <1>2, <2>1, <2>2 DEF Aims
<1>17. ASSUME NEW kk, NEW q, Writing(s, kk, q)
       PROVE  Writing(r, kk, q) \/ (kk = x.k /\ q = x.n /\ x.op # "delete")
  BY <1>3, <1>17 DEF Writing
<1>18. ASSUME NEW kk, NEW q, Dropping(s, kk, q)
       PROVE  Dropping(r, kk, q) \/ (kk = x.k /\ q = x.n /\ x.op = "delete")
  BY <1>3, <1>18 DEF Dropping
<1>19. Bringing(r, store')
  <2> SUFFICES ASSUME NEW i \in s.want, Begun(n, i.k)
               PROVE  Has(store', s.by, i) \/ Writing(r, i.k, i.n)
    BY <1>2 DEF Bringing, n
  <2>1. Has(store, s.by, i) \/ Writing(s, i.k, i.n)
    BY <1>6 DEF Bringing, n
  <2>2. CASE Has(store, s.by, i) /\ (i.k # x.k \/ i.n # x.n)
    <3>1. store'[i.k][i.n] = store[i.k][i.n]
      BY <1>10, <1>11, <2>2
    <3>2. ASSUME i.k = "fn", NEW p \in store[i.k][i.n].spec.to
          PROVE  store'["pkg"][p] = store["pkg"][p]
      <4>1. p \in Name
        BY <1>13, <2>2, <3>2 DEF Has
      <4> QED BY <1>11, <1>12, <1>14, <3>2, <4>1
    <3>3. Has(store', s.by, i)
      BY <2>2, <3>1, <3>2 DEF Has
    <3> QED BY <3>3
  <2> QED BY <1>15, <1>17, <2>1, <2>2
<1>20. Knowing(r, store')
  <2> SUFFICES ASSUME Begun(n, "pkg"), NEW p \in Names(s.want, "pkg")
               PROVE  \/ Writing(r, "pkg", p)
                      \/ store'["pkg"][p] # None /\ r.meta[p] = store'["pkg"][p].rv
    BY <1>2 DEF Knowing, n
  <2>1. \/ Writing(s, "pkg", p)
        \/ store["pkg"][p] # None /\ s.meta[p] = store["pkg"][p].rv
    BY <1>6 DEF Knowing, n
  <2>2. p \in Name
    BY <1>10, NamesElim
  <2>3. CASE x.k = "pkg" /\ x.n = p
    <3>1. x.op # "delete"
      BY <1>9, <2>3
    <3> QED BY <1>2, <1>4, <2>2, <2>3, <3>1
  <2>4. CASE x.k # "pkg" \/ x.n # p
    <3>1. store'["pkg"][p] = store["pkg"][p] /\ r.meta[p] = s.meta[p]
      BY <1>2, <1>11, <1>14, <2>2, <2>4
    <3> QED BY <1>17, <2>1, <2>4, <3>1
  <2> QED BY <2>3, <2>4
<1>21. Clearing(r, store')
  <2> SUFFICES ASSUME s.del, NEW kk \in Kind, NEW q \in Name, Begun(n, kk),
                      store'[kk][q] # None, store'[kk][q].by = s.by
               PROVE  q \in Names(s.want, kk) \/ Dropping(r, kk, q)
    BY <1>2 DEF Clearing, n
  <2>1. CASE kk = x.k /\ q = x.n
    <3>1. x.op # "delete"
      BY <1>4, <2>1
    <3>2. PICK j \in s.want : Brings(s, y, j)
      BY <1>3, <1>6, <3>1 DEF Aims
    <3> QED BY <1>3, <2>1, <3>2, NamesIntro DEF Brings
  <2>2. CASE kk # x.k \/ q # x.n
    <3>1. store'[kk][q] = store[kk][q]
      BY <1>11, <2>2
    <3>2. q \in Names(s.want, kk) \/ Dropping(s, kk, q)
      BY <1>6, <3>1 DEF Clearing, n
    <3> QED BY <1>18, <2>2, <3>2
  <2> QED BY <2>1, <2>2
<1> QED BY <1>16, <1>19, <1>20, <1>21 DEF OnTrack

-----------------------------------------------------------------------------
(* A call that fails ends an apply.                                        *)
LEMMA FailedEnds ==
    ASSUME Base, NEW c \in Client, NEW r, Failed(c, r)
    PROVE  /\ cl[c].cmd = "apply" => cl'[c] = Idle
           /\ cl[c].cmd = "cli" => cl'[c] \in {r, Idle} /\ r.cmd = "cli"
           /\ cl[c].cmd \in {"cli", "apply"}
<1>1. /\ IsClient(r) /\ Form(r) /\ r.cmd = cl[c].cmd /\ r.err = TRUE
      /\ cl'[c] = Settled(r) /\ cl[c].cmd \in {"cli", "apply"}
  BY DEF Failed, Base, ResourcesTypeOK
<1>2. CASE cl[c].cmd = "apply"
  <2>1. ASSUME r.todo # <<>> PROVE Head(r.todo).lax = FALSE
    <3>1. Head(r.todo) \in ToSet(r.todo)
      BY <1>1, <2>1, ClientForm, RestListed DEF AreCalls
    <3> QED BY <1>1, <1>2, <3>1 DEF Form
  <2>2. Dead(r)
    BY <1>1, <2>1 DEF Dead
  <2> QED BY <1>1, <1>2, <2>2 DEF Settled
<1>3. CASE cl[c].cmd = "cli"
  BY <1>1, <1>3, SettledForms DEF Rested
<1> QED BY <1>1, <1>2, <1>3

LEMMA IdleApplies == ~Applying(Idle)
BY DEF Applying, Idle

(* Every step of every client keeps an apply on its track.                 *)
LEMMA ConvergingStep ==
    ASSUME Base, Base', Stepped, Converging
    PROVE  Converging'
<1> SUFFICES ASSUME NEW c \in Client, Applying(cl'[c]), fresh'[c]
             PROVE  OnTrack(cl'[c], store')
  BY DEF Converging
<1>1. IsClient(cl[c]) /\ Form(cl[c]) /\ DOMAIN cl = Client /\ StoreTyped
      /\ fresh \in [Client -> BOOLEAN] /\ ((Applying(cl[c]) /\ fresh[c]) => OnTrack(cl[c], store))
  BY DEF Base, ResourcesTypeOK, Converging
<1>2. ASSUME NEW d \in Client \ {c}, ClientStep(d) PROVE OnTrack(cl'[c], store')
  <2>1. cl'[c] = cl[c] /\ fresh[c] /\ store' = store
    BY <1>2, StepFrame DEF Quiet
  <2> QED BY <1>1, <2>1
<1>3. ASSUME NEW p, NEW st, Built(p, st) PROVE FALSE
  BY <1>3 DEF Built, BuilderWrites
<1>4. ASSUME UNCHANGED vars PROVE OnTrack(cl'[c], store')
  BY <1>1, <1>4 DEF vars, apiVars, clientVars, historyVars
<1>5. ASSUME ClientStep(c) PROVE OnTrack(cl'[c], store')
  <2>1. ASSUME NEW s, Begin(c, s), Starts(s) PROVE OnTrack(cl'[c], store')
    <3>1. cl'[c] = s /\ s.cmd \in {"cli", "apply"}
      BY <1>1, <2>1 DEF Begin, Starts
    <3>2. s.cmd = "apply"
      BY <3>1 DEF Applying
    <3>3. ToSet(s.todo) = {} /\ Len(s.kinds) = 7
      BY <2>1, <3>2, NoneListed DEF Starts
    <3>4. OnTrack(s, store')
      BY <3>3, BegunFirst DEF OnTrack, Bringing, Knowing, Clearing
    <3> QED BY <3>1, <3>4
  <2>2. CASE Passed(c)
    BY <1>1, <2>2 DEF Passed, apiVars, historyVars
  <2>3. ASSUME NEW r, Failed(c, r) PROVE FALSE
    BY <2>3, FailedEnds, IdleApplies DEF Applying
  <2>4. ASSUME NEW y, NEW x, NEW r, Sent(c, y, x, r) PROVE OnTrack(cl'[c], store')
    <3>1. /\ IsClient(r) /\ r.cmd = cl[c].cmd /\ cl'[c] = Settled(r) /\ fresh[c]
          /\ cl[c].cmd \in {"cli", "apply"}
      <4>1. cl'[c] = Settled(r) /\ cl[c].cmd \in {"cli", "apply"}
        BY <2>4, SentFacts
      <4>2. IsClient(r) /\ r.cmd = cl[c].cmd /\ fresh'[c] = (fresh[c] /\ c = c)
        BY <2>4 DEF Sent
      <4> QED BY <1>1, <4>1, <4>2
    <3>2. cl[c].cmd # "cli"
      BY <3>1, SettledForms, IdleApplies DEF Rested, Applying
    <3>3. OnTrack(cl[c], store)
      BY <1>1, <3>1, <3>2 DEF Applying
    <3>4. OnTrack(r, store')
      BY <2>4, <3>1, <3>2, <3>3, SentTrack
    <3> DEFINE st == store'
    <3>5. OnTrack(r, st) /\ Applying(Settled(r))
      BY <3>1, <3>4
    <3> HIDE DEF st
    <3>6. OnTrack(Settled(r), st)
      BY <3>1, <3>5, SettledTrack
    <3> QED BY <3>1, <3>6 DEF st
  <2>5. ASSUME NEW r, Looked(c, Head(cl[c].todo), r) PROVE FALSE
    <3>1. IsClient(r) /\ r.cmd = "cli" /\ cl'[c] = Settled(r)
      BY <1>1, <2>5 DEF Looked
    <3> QED BY <3>1, SettledForms, IdleApplies DEF Rested, Applying
  <2>6. ASSUME NEW k, NEW r, Planned(c, k, r) PROVE OnTrack(cl'[c], store')
    <3>1. /\ IsClient(r) /\ cl[c].cmd = "apply" /\ cl'[c] = Settled(r) /\ fresh[c]
          /\ store' = store
      BY <1>1, <2>6 DEF Planned, apiVars, historyVars
    <3>2. OnTrack(r, store)
      BY <1>1, <2>6, <3>1, PlannedTrack DEF Applying
    <3> QED BY <3>1, <3>2, SettledTrack
  <2>7. ASSUME NEW r, Waited(c, r) PROVE OnTrack(cl'[c], store')
    <3>1. /\ cl[c].cmd = "wait" /\ cl'[c] = r /\ fresh[c] /\ store' = store
          /\ r.todo = cl[c].todo /\ r.kinds = cl[c].kinds /\ r.by = cl[c].by
          /\ r.want = cl[c].want /\ r.del = cl[c].del /\ r.meta = cl[c].meta
          /\ r.cmd = "idle"
      BY <1>1, <2>7 DEF Waited, apiVars, historyVars
    <3>2. OnTrack(cl[c], store)
      BY <1>1, <3>1 DEF Applying
    <3> DEFINE s == cl[c]
    <3>3. OnTrack(s, store) /\ r.todo = s.todo /\ r.kinds = s.kinds /\ r.by = s.by
          /\ r.want = s.want /\ r.del = s.del /\ r.meta = s.meta
      BY <3>1, <3>2
    <3> HIDE DEF s
    <3>4. OnTrack(r, store)
      BY <3>3, SameTrack
    <3> QED BY <3>1, <3>4
  <2> QED BY <1>5, <2>1, <2>2, <2>3, <2>4, <2>5, <2>6, <2>7 DEF ClientStep, Commenced
<1> QED BY <1>2, <1>3, <1>4, <1>5 DEF Stepped

LEMMA ConvergingHolds == ResourcesSpec => []Converging
<1>1. ResourcesInit => Converging
  BY IdleApplies DEF ResourcesInit, Converging
<1>2. Base /\ Base' /\ Converging /\ [ResourcesNext]_vars => Converging'
  BY NextSteps, ConvergingStep
<1> QED BY <1>1, <1>2, BaseHolds, PTL DEF ResourcesSpec

(* ApplyConverges: a `spec apply` that reports success while nobody else   *)
(* writes leaves what the specs say, for every set of specs and every      *)
(* state of the cluster that it starts from.                               *)
THEOREM ApplyConvergesHolds == ResourcesSpec => []ApplyConverges
<1>1. ASSUME Base, Converging PROVE ApplyConverges
  <2> SUFFICES ASSUME NEW c \in Client, ~Busy(c), cl[c].by # None, fresh[c]
               PROVE  /\ \A i \in cl[c].want : HasItem(cl[c].by, i)
                      /\ cl[c].del => \A k \in ToSet(ApplyOrder) :
                            Owned(k, cl[c].by) = Names(cl[c].want, k)
    BY DEF ApplyConverges
  <2> DEFINE s == cl[c]
  <2>1. IsClient(s) /\ Form(s) /\ s.cmd = "idle" /\ StoreTyped
    BY <1>1 DEF Base, ResourcesTypeOK, Busy
  <2>2. OnTrack(s, store)
    BY <1>1, <2>1 DEF Converging, Applying
  <2>3. s.kinds = <<>> /\ s.todo = <<>>
    BY <2>1 DEF Form
  <2>4. Len(s.kinds) = 0 /\ ToSet(s.todo) = {}
    BY <2>3, NoneListed
  <2>5. ASSUME NEW i \in s.want
        PROVE  Has(store, s.by, i) /\ i.k \in ToSet(ApplyOrder) /\ i.n \in Name
    <3>1. i.k \in ToSet(ApplyOrder) /\ i.n \in Name
      BY <2>1, ItemTyped
    <3>2. Begun(0, i.k)
      BY <3>1, BegunAll
    <3> QED BY <2>2, <2>4, <3>1, <3>2 DEF OnTrack, Bringing, Writing
  <2>6. \A i \in s.want : HasItem(s.by, i)
    BY <2>5 DEF HasItem, Has, Exists, Get
  <2>7. ASSUME s.del, NEW k \in ToSet(ApplyOrder) PROVE Owned(k, s.by) = Names(s.want, k)
    <3>1. Begun(0, k) /\ k \in Kind
      <4>1. ToSet(ApplyOrder) \subseteq Kind
        BY DEF ToSet, ApplyOrder, Kind
      <4> QED BY <4>1, BegunAll
    <3>2. ASSUME NEW n \in Owned(k, s.by) PROVE n \in Names(s.want, k)
      <4>1. n \in Name /\ store[k][n] # None /\ store[k][n].by = s.by
        BY DEF Owned, Objects, Get
      <4> QED BY <2>2, <2>4, <2>7, <3>1, <4>1 DEF OnTrack, Clearing, Dropping
    <3>3. ASSUME NEW n \in Names(s.want, k) PROVE n \in Owned(k, s.by)
      <4>1. PICK i \in s.want : i.k = k /\ i.n = n
        BY NamesElim
      <4> QED BY <2>5, <4>1 DEF Has, Owned, Objects, Get
    <3> QED BY <3>2, <3>3
  <2> QED BY <2>6, <2>7
<1> QED BY <1>1, BaseHolds, ConvergingHolds, PTL

-----------------------------------------------------------------------------
(* SequentialIntegrity: one command at a time.                             *)

(* A step of a client begins a command or goes on with one.                *)
GoesOn(c) ==
    /\ Busy(c) /\ calm' = calm /\ (whole' => whole) /\ fresh'[c] = fresh[c]
    /\ cl'[c].cmd \in {cl[c].cmd, "wait", "idle"}

(* A client that is settled runs the same command or none.                 *)
LEMMA SettledCmd ==
    ASSUME NEW r, IsClient(r)
    PROVE  Settled(r).cmd \in {r.cmd, "wait", "idle"}
<1>1. Idle.cmd = "idle"
  BY DEF Idle
<1> QED BY <1>1, SettledForms DEF Rested

LEMMA BeginsOrGoesOn ==
    ASSUME Base, NEW c \in Client, ClientStep(c)
    PROVE  (~Busy(c) /\ Commenced(c)) \/ GoesOn(c)
<1>1. DOMAIN cl = Client /\ fresh \in [Client -> BOOLEAN] /\ whole \in BOOLEAN
  BY DEF Base, ResourcesTypeOK
<1>2. CASE Passed(c)
  BY <1>2 DEF Passed, Pending, GoesOn, historyVars
<1>3. ASSUME NEW r, Failed(c, r) PROVE GoesOn(c)
  <2>1. /\ Pending(c) /\ calm' = calm /\ whole' = FALSE /\ fresh' = fresh
        /\ IsClient(r) /\ r.cmd = cl[c].cmd /\ cl'[c] = Settled(r)
    BY <1>1, <1>3 DEF Failed
  <2> QED BY <2>1, SettledCmd DEF GoesOn, Pending
<1>4. ASSUME NEW y, NEW x, NEW r, Sent(c, y, x, r) PROVE GoesOn(c)
  <2>1. /\ Pending(c) /\ calm' = calm /\ whole' = whole /\ fresh'[c] = (fresh[c] /\ c = c)
        /\ IsClient(r) /\ r.cmd = cl[c].cmd /\ cl'[c] = Settled(r)
    BY <1>1, <1>4 DEF Sent
  <2>2. fresh'[c] = fresh[c]
    BY <1>1, <2>1
  <2> QED BY <2>1, <2>2, SettledCmd DEF GoesOn, Pending
<1>5. ASSUME NEW r, Looked(c, Head(cl[c].todo), r) PROVE GoesOn(c)
  <2>1. /\ Pending(c) /\ UNCHANGED historyVars
        /\ IsClient(r) /\ r.cmd = "cli" /\ cl[c].cmd = "cli" /\ cl'[c] = Settled(r)
    BY <1>1, <1>5 DEF Looked
  <2> QED BY <2>1, SettledCmd DEF GoesOn, Pending, historyVars
<1>6. ASSUME NEW k, NEW r, Planned(c, k, r) PROVE GoesOn(c)
  <2>1. /\ UNCHANGED historyVars
        /\ IsClient(r) /\ r.cmd = "apply" /\ cl[c].cmd = "apply" /\ cl'[c] = Settled(r)
    BY <1>1, <1>6 DEF Planned
  <2> QED BY <2>1, SettledCmd DEF GoesOn, Busy, historyVars
<1>7. ASSUME NEW r, Waited(c, r) PROVE GoesOn(c)
  <2>1. UNCHANGED historyVars /\ r.cmd = "idle" /\ cl[c].cmd = "wait" /\ cl'[c] = r
    BY <1>1, <1>7 DEF Waited
  <2> QED BY <2>1 DEF GoesOn, Busy, historyVars
<1> QED BY <1>2, <1>3, <1>4, <1>5, <1>6, <1>7 DEF ClientStep

-----------------------------------------------------------------------------
(* While no two commands overlapped, one client is busy, and an apply that *)
(* it runs saw nobody else write.                                          *)
OneBusy ==
    calm =>
        /\ \A c, d \in Client : Busy(c) /\ Busy(d) => c = d
        /\ \A c \in Client : cl[c].cmd = "apply" => fresh[c]

(* Nobody begins beside a busy client without being noticed.               *)
LEMMA OneBusyStep ==
    ASSUME Base, Stepped, OneBusy
    PROVE  OneBusy'
<1>1. DOMAIN cl = Client /\ fresh \in [Client -> BOOLEAN] /\ calm \in BOOLEAN
  BY DEF Base, ResourcesTypeOK
<1>2. ASSUME NEW c \in Client, ~Busy(c), Commenced(c) PROVE OneBusy'
  <2>1. PICK s : Begin(c, s)
    BY <1>2 DEF Commenced
  <2>2. /\ calm' => \A d \in Client : cl[d].cmd = "idle"
        /\ \A d \in Client \ {c} : cl'[d] = cl[d]
        /\ fresh'[c] = TRUE
    BY <1>1, <2>1 DEF Begin, Busy
  <2> QED BY <2>2 DEF OneBusy, Busy
<1>3. ASSUME NEW c \in Client, ClientStep(c), GoesOn(c) PROVE OneBusy'
  <2>1. \A d \in Client \ {c} : cl'[d] = cl[d]
    BY <1>3, StepFrame
  <2> QED BY <1>3, <2>1 DEF OneBusy, GoesOn, Busy
<1>4. ASSUME NEW p, NEW st, Built(p, st) PROVE OneBusy'
  <2>1. cl' = cl /\ (calm' => calm /\ \A c \in Client : cl[c].cmd \in {"idle", "wait"})
    BY <1>4 DEF Built, BuilderWrites, clientVars
  <2> QED BY <2>1 DEF OneBusy, Busy
<1>5. CASE UNCHANGED vars
  BY <1>5 DEF vars, clientVars, historyVars, OneBusy, Busy
<1> QED BY <1>2, <1>3, <1>4, <1>5, BeginsOrGoesOn DEF Stepped

-----------------------------------------------------------------------------
(* Nothing changed the triggers since the controller looked at them for a  *)
(* call, and so no two have one route.                                     *)
Dups(st, x) ==
    {n \in Name : /\ st["http"][n] # None /\ st["http"][n].uid # x.o.uid
                  /\ st["http"][n].spec.v = x.o.spec.v}

(* The call that was checked is the next one, and still has no duplicate.  *)
CheckedFor(s, st, alone) ==
    /\ s.cmd # "idle" /\ s.todo # <<>> /\ NeedsDuplicateCheck(Head(s.todo))
    /\ alone => Dups(st, Head(s.todo)) = {}

(* Checks are up to date, and routes unique.                               *)
Routes ==
    /\ \A c \in Client : checked[c] => CheckedFor(cl[c], store, calm)
    /\ calm => RoutesUnique(store)

(* A call that is checked is sent as planned.                              *)
LEMMA NextHead ==
    ASSUME Base, NEW c \in Client, Pending(c), NeedsDuplicateCheck(NextCall(c))
    PROVE  NextCall(c) = Head(cl[c].todo)
<1>1. IsClient(cl[c]) /\ Form(cl[c])
  BY DEF Base, ResourcesTypeOK
<1>2. IsCall(Head(cl[c].todo)) /\ cl[c].meta \in [Name -> Nat]
  <2>1. IsCall(Head(cl[c].todo))
    BY <1>1, PopTyped
  <2> QED BY <1>1, <2>1, ClientForm DEF ClientSet
<1>3. Head(cl[c].todo).k # "fn" => NextCall(c) = Head(cl[c].todo)
  BY <1>2, ResolveFacts DEF NextCall
<1>4. NextCall(c).k = Head(cl[c].todo).k
  BY <1>2, ResolveFacts DEF NextCall
<1> QED BY <1>3, <1>4 DEF NeedsDuplicateCheck

(* A trigger is written when no other has its route.                       *)
LEMMA SentRoutes ==
    ASSUME Base, Routes, calm, NEW c \in Client, NEW y, NEW x, NEW r, Sent(c, y, x, r)
    PROVE  RoutesUnique(store')
<1>1. StoreTyped /\ RoutesUnique(store) /\ IsCall(x) /\ "http" \in Kind
  BY KindsAre DEF Base, ResourcesTypeOK, Routes, Sent
<1>2. /\ x.op = y.op /\ x.k = y.k /\ x.n = y.n /\ x.k \in Kind /\ x.n \in Name
      /\ Elsewhere(x.k, x.n)
  BY SentFacts
<1>3. /\ x.op = "delete" => store'[x.k][x.n] = None
      /\ x.op # "delete" => store'[x.k][x.n].spec = x.o.spec
  BY SentMoves
<1>4. \A n \in Name : (x.k # "http" \/ n # x.n) => store'["http"][n] = store["http"][n]
  BY <1>1, <1>2 DEF Elsewhere
<1>5. CASE x.k # "http" \/ x.op = "delete"
  <2>1. \A n \in Name : store'["http"][n] \in {store["http"][n], None}
    BY <1>3, <1>4, <1>5
  <2> QED BY <1>1, <2>1 DEF RoutesUnique
<1>6. CASE x.k = "http" /\ x.op # "delete"
  <2>1. x.op \in {"create", "update", "status", "delete"} /\ x.op # "status"
        /\ x = NextCall(c) /\ y = Head(cl[c].todo) /\ Pending(c) /\ Ready(c)
    BY <1>6 DEF Sent
  <2>2. NeedsDuplicateCheck(x) /\ checked[c]
    BY <1>6, <2>1 DEF NeedsDuplicateCheck, Ready
  <2>3. x = y
    BY <2>1, <2>2, NextHead
  <2>4. Dups(store, x) = {}
    BY <2>1, <2>2, <2>3 DEF Routes, CheckedFor
  <2>5. x.o.uid \in Uid(x.n) \cup {None}
    BY <1>6 , <1>1 DEF IsCall, ReadOnly, Object, Sent
  <2>6. ASSUME NEW m \in Name \ {x.n}, store["http"][m] # None
        PROVE  store["http"][m].spec.v # x.o.spec.v
    <3>1. store["http"][m].uid \in Uid(m) /\ store["http"][m].uid # None
      BY <1>1, <2>6 DEF StoreTyped, Object
    <3>2. store["http"][m].uid # x.o.uid
      BY <2>5, <2>6, <3>1 DEF Uid
    <3> QED BY <2>4, <2>6, <3>2 DEF Dups
  <2> QED BY <1>1, <1>2, <1>3, <1>4, <1>6, <2>6 DEF RoutesUnique
<1> QED BY <1>5, <1>6

(* Only the call that was checked writes a trigger.                        *)
LEMMA RoutesStep ==
    ASSUME Base, Stepped, OneBusy, Routes
    PROVE  Routes'
<1>1. /\ DOMAIN cl = Client /\ checked \in [Client -> BOOLEAN] /\ calm \in BOOLEAN
      /\ "http" \in Kind
  BY KindsAre DEF Base, ResourcesTypeOK
<1>2. ASSUME NEW c \in Client, ClientStep(c) PROVE Routes'
  <2>1. /\ Quiet \/ \E r : Sent(c, Head(cl[c].todo), NextCall(c), r)
        /\ \A d \in Client \ {c} : cl'[d] = cl[d] /\ checked'[d] = checked[d]
        /\ calm' => calm
    BY <1>2, StepFrame
  <2>2. calm' => RoutesUnique(store')
    BY <2>1, SentRoutes DEF Quiet, Routes
  <2>3. ASSUME NEW d \in Client \ {c}, checked'[d]
        PROVE  CheckedFor(cl'[d], store', calm')
    <3>1. CheckedFor(cl[d], store, calm) /\ cl'[d] = cl[d]
      BY <2>1, <2>3 DEF Routes
    <3>2. CASE Quiet
      BY <2>1, <3>1, <3>2 DEF CheckedFor, Quiet
    <3>3. ASSUME NEW r, Sent(c, Head(cl[c].todo), NextCall(c), r) PROVE ~calm'
      <4>1. Busy(c) /\ Busy(d)
        BY <3>1, <3>3 DEF Sent, Pending, CheckedFor, Busy
      <4> QED BY <2>1, <4>1 DEF OneBusy
    <3> QED BY <2>1, <3>1, <3>2, <3>3 DEF CheckedFor
  <2>4. ASSUME checked'[c] PROVE CheckedFor(cl'[c], store', calm')
    <3>1. checked[c] => CheckedFor(cl[c], store, calm)
      BY DEF Routes
    <3>2. ASSUME ~Busy(c), Commenced(c) PROVE FALSE
      <4>1. checked' = checked
        BY <3>2 DEF Commenced, Begin
      <4> QED BY <2>4, <3>1, <3>2, <4>1 DEF CheckedFor, Busy
    <3>3. CASE Passed(c)
      <4>1. /\ Pending(c) /\ NeedsDuplicateCheck(NextCall(c)) /\ Duplicates(NextCall(c)) = {}
            /\ cl' = cl /\ store' = store
        BY <3>3 DEF Passed, apiVars
      <4>2. NextCall(c) = Head(cl[c].todo)
        BY <4>1, NextHead
      <4>3. Dups(store, Head(cl[c].todo)) = {}
        BY <4>1, <4>2 DEF Dups, Duplicates, Objects
      <4> QED BY <4>1, <4>2, <4>3 DEF CheckedFor, Pending, Busy
    <3>4. ASSUME NEW r, Failed(c, r) PROVE FALSE
      BY <1>1, <2>4, <3>4 DEF Failed
    <3>5. ASSUME NEW y, NEW x, NEW r, Sent(c, y, x, r) PROVE FALSE
      BY <1>1, <2>4, <3>5 DEF Sent
    <3>6. ASSUME NEW r, Looked(c, Head(cl[c].todo), r) PROVE FALSE
      BY <2>4, <3>1, <3>6 DEF Looked, CheckedFor, NeedsDuplicateCheck
    <3>7. ASSUME NEW k, NEW r, Planned(c, k, r) PROVE FALSE
      BY <2>4, <3>1, <3>7 DEF Planned, CheckedFor
    <3>8. ASSUME NEW r, Waited(c, r) PROVE FALSE
      BY <2>4, <3>1, <3>8 DEF Waited, CheckedFor, Form, Base
    <3> QED BY <1>2, <3>2, <3>3, <3>4, <3>5, <3>6, <3>7, <3>8 DEF ClientStep
  <2> QED BY <2>2, <2>3, <2>4 DEF Routes
<1>3. ASSUME NEW p, NEW st, Built(p, st) PROVE Routes'
  <2>1. /\ cl' = cl /\ checked' = checked /\ (calm' => calm)
        /\ \A n \in Name : store'["http"][n] = store["http"][n]
    BY <1>1, <1>3 DEF Built, BuilderWrites, clientVars
  <2>2. \A x : Dups(store', x) = Dups(store, x)
    BY <2>1 DEF Dups
  <2> QED BY <2>1, <2>2 DEF Routes, CheckedFor, RoutesUnique
<1>4. CASE UNCHANGED vars
  BY <1>4 DEF vars, apiVars, clientVars, historyVars, Routes
<1> QED BY <1>2, <1>3, <1>4 DEF Stepped

(* What is left to do is what there was without the first call.            *)
Shorter(s, r) ==
    /\ Len(s.todo) \in Nat \ {0} /\ Len(r.todo) = Len(s.todo) - 1
    /\ \A j \in 1 .. Len(s.todo) - 1 : r.todo[j] = s.todo[j + 1]
    /\ ToSet(r.todo) \subseteq ToSet(s.todo)
    /\ IsList(r.todo)

(* The form of a command is kept by each of its calls.                     *)
LEMMA ShorterForm ==
    ASSUME NEW s, NEW r, Shorter(s, r), CliForm(s)
    PROVE  CliForm(r)
<1> DEFINE L == Len(s.todo)  M == Len(r.todo)
<1>1. L \in Nat \ {0} /\ M = L - 1 /\ \A j \in 1 .. L - 1 : r.todo[j] = s.todo[j + 1]
  BY DEF Shorter
<1>2. \A j \in 2 .. L : ~PkgWrite(s.todo[j])
  BY DEF CliForm
<1> HIDE DEF L, M
<1>3. \A j \in 2 .. M : ~PkgWrite(r.todo[j])
  <2>1. TAKE j \in 2 .. M
  <2>2. j \in 1 .. L - 1 /\ j + 1 \in 2 .. L
    BY <1>1
  <2> QED BY <1>1, <1>2, <2>2
<1> QED BY <1>3 DEF CliForm, Shorter, M

LEMMA SentShorter ==
    ASSUME Base, NEW c \in Client, NEW y, NEW x, NEW r, Sent(c, y, x, r)
    PROVE  Shorter(cl[c], r)
<1>1. /\ ToSet(cl[c].todo) = {y} \cup ToSet(r.todo)
      /\ Len(cl[c].todo) \in Nat \ {0}
      /\ Len(r.todo) = Len(cl[c].todo) - 1
      /\ \A j \in 1 .. Len(cl[c].todo) - 1 : r.todo[j] = cl[c].todo[j + 1]
  BY SentFacts
<1>2. IsList(r.todo)
  BY ClientForm DEF Sent, AreCalls
<1> QED BY <1>1, <1>2 DEF Shorter

LEMMA FailedShorter ==
    ASSUME NEW c, NEW r, Failed(c, r)
    PROVE  Shorter(cl[c], r)
BY DEF Failed, Shorter

(* A package is looked at: its turn is over, or it is about to be deleted. *)
Marked(s, r, p) ==
    /\ Len(s.todo) \in Nat \ {0} /\ Len(r.todo) = Len(s.todo)
    /\ r.todo[1] = Delete("pkg", p)
    /\ \A j \in 2 .. Len(s.todo) : r.todo[j] = s.todo[j]
    /\ ToSet(r.todo) \subseteq {Delete("pkg", p)} \cup ToSet(s.todo)

LEMMA LookedLeaves ==
    ASSUME NEW c, NEW y, NEW r, Looked(c, y, r)
    PROVE  \/ Shorter(cl[c], r)
           \/ FunctionsByPackage(y.n) = {} /\ Marked(cl[c], r, y.n)
<1>1. IsList(r.todo)
  BY ClientForm DEF Looked, AreCalls
<1> QED BY <1>1 DEF Looked, Shorter, Marked

(* A command that looks at packages does nothing else.                     *)
LEMMA LookedGone ==
    ASSUME Base, NEW c \in Client, NEW y, NEW r, Looked(c, y, r), CliForm(cl[c])
    PROVE  /\ \A x \in ToSet(cl[c].todo) : PkgGone(x)
           /\ \A x \in ToSet(r.todo) : PkgGone(x)
           /\ CliForm(r)
<1>1. /\ IsClient(cl[c]) /\ Pending(c) /\ y = Head(cl[c].todo) /\ y.op = "orphan"
      /\ y.k = "pkg"
  BY DEF Looked, Base, ResourcesTypeOK
<1>2. y \in ToSet(cl[c].todo)
  <2>1. IsList(cl[c].todo) /\ cl[c].todo # <<>>
    BY <1>1, ClientForm DEF AreCalls, Pending
  <2> QED BY <1>1, <2>1, RestListed
<1>3. \A x \in ToSet(cl[c].todo) : PkgGone(x)
  BY <1>1, <1>2 DEF CliForm, PkgGone, ReadOnly
<1>4. PkgGone(Delete("pkg", y.n))
  BY DEF Delete, Call, PkgGone, ReadOnly
<1>5. \A x \in ToSet(r.todo) : PkgGone(x)
  BY <1>3, <1>4, LookedLeaves DEF Shorter, Marked
<1>6. \A j \in 1 .. Len(r.todo) : r.todo[j] \in ToSet(r.todo)
  <2>1. IsList(r.todo)
    BY ClientForm DEF Looked, AreCalls
  <2> QED BY <2>1 DEF IsList, ToSet
<1>7. \A x : PkgGone(x) => ~PkgWrite(x) /\ x.op # "status"
  BY DEF PkgGone, PkgWrite, ReadOnly
<1>8. Len(r.todo) \in Nat
  <2>1. IsList(r.todo)
    BY ClientForm DEF Looked, AreCalls
  <2> QED BY <2>1 DEF IsList
<1>9. \A j \in 2 .. Len(r.todo) : ~PkgWrite(r.todo[j])
  BY <1>5, <1>6, <1>7, <1>8
<1> QED BY <1>3, <1>5, <1>7, <1>9 DEF CliForm

-----------------------------------------------------------------------------
(* Commands have their form; a command that met an error is known for it.  *)
Forms ==
    \A c \in Client :
        /\ cl[c].cmd = "cli" => CliForm(cl[c])
        /\ (cl[c].cmd \in {"cli", "apply"} /\ cl[c].err) => ~whole

(* Forms are kept.                                                         *)
LEMMA FormsStep ==
    ASSUME Base, Stepped, Forms
    PROVE  Forms'
<1>1. DOMAIN cl = Client /\ \A c \in Client : IsClient(cl[c]) /\ Form(cl[c])
  BY DEF Base, ResourcesTypeOK
<1>2. ASSUME NEW c \in Client, ClientStep(c) PROVE Forms'
  <2>1. \A d \in Client \ {c} : cl'[d] = cl[d]
    BY <1>2, StepFrame
  <2>2. whole' => whole
    BY <1>2, BeginsOrGoesOn DEF GoesOn, Commenced, Begin
  <2>3. ASSUME cl'[c].cmd \in {"cli", "apply"}
        PROVE  /\ cl'[c].cmd = "cli" => CliForm(cl'[c])
               /\ cl'[c].err => ~whole'
    <3>1. /\ cl[c].cmd = "cli" => CliForm(cl[c])
          /\ (cl[c].cmd \in {"cli", "apply"} /\ cl[c].err) => ~whole
      BY DEF Forms
    <3>2. ASSUME NEW s, Begin(c, s), Starts(s) PROVE CliForm(s) \/ s.cmd # "cli"
      BY <3>2 DEF Starts
    <3>3. ASSUME NEW s, Begin(c, s), Starts(s) PROVE cl'[c] = s /\ s.err = FALSE
      BY <1>1, <3>3 DEF Begin, Starts
    <3>4. CASE Passed(c)
      BY <2>2, <2>3, <3>1, <3>4 DEF Passed
    <3>5. ASSUME NEW r, Failed(c, r)
          PROVE  ~whole' /\ (cl'[c].cmd = "cli" => CliForm(cl'[c]))
      <4>1. IsClient(r) /\ r.cmd = cl[c].cmd /\ cl'[c] = Settled(r) /\ whole' = FALSE
        BY <1>1, <3>5 DEF Failed
      <4>2. Settled(r) = r
        BY <2>3, <4>1, SettledBusy
      <4>3. Shorter(cl[c], r)
        BY <3>5, FailedShorter
      <4> DEFINE s == cl[c]
      <4>4. Shorter(s, r) /\ (r.cmd = "cli" => CliForm(s))
        BY <3>1, <4>1, <4>3
      <4> HIDE DEF s
      <4>5. r.cmd = "cli" => CliForm(r)
        BY <4>4, ShorterForm
      <4> QED BY <4>1, <4>2, <4>5
    <3>6. ASSUME NEW y, NEW x, NEW r, Sent(c, y, x, r)
          PROVE  (cl'[c].err => ~whole') /\ (cl'[c].cmd = "cli" => CliForm(cl'[c]))
      <4>1. IsClient(r) /\ r.cmd = cl[c].cmd /\ cl'[c] = Settled(r) /\ whole' = whole
            /\ r.err = cl[c].err
        BY <1>1, <3>6 DEF Sent
      <4>2. Settled(r) = r
        BY <2>3, <4>1, SettledBusy
      <4>3. Shorter(cl[c], r)
        BY <3>6, SentShorter
      <4> DEFINE s == cl[c]
      <4>4. Shorter(s, r) /\ (r.cmd = "cli" => CliForm(s))
        BY <3>1, <4>1, <4>3
      <4> HIDE DEF s
      <4>5. r.cmd = "cli" => CliForm(r)
        BY <4>4, ShorterForm
      <4> QED BY <2>3, <3>1, <4>1, <4>2, <4>5
    <3>7. ASSUME NEW r, Looked(c, Head(cl[c].todo), r)
          PROVE  (cl'[c].err => ~whole') /\ (cl'[c].cmd = "cli" => CliForm(cl'[c]))
      <4>1. IsClient(r) /\ cl[c].cmd = "cli" /\ cl'[c] = Settled(r) /\ whole' = whole
            /\ r.err = cl[c].err
        BY <1>1, <3>7 DEF Looked, historyVars
      <4>2. Settled(r) = r
        BY <2>3, <4>1, SettledBusy
      <4>3. CliForm(r)
        BY <3>1, <3>7, <4>1, LookedGone
      <4> QED BY <3>1, <4>1, <4>2, <4>3
    <3>8. ASSUME NEW k, NEW r, Planned(c, k, r)
          PROVE  (cl'[c].err => ~whole') /\ cl'[c].cmd # "cli"
      <4>1. IsClient(r) /\ cl[c].cmd = "apply" /\ cl'[c] = Settled(r) /\ whole' = whole
            /\ r.err = cl[c].err /\ r.cmd = "apply"
        BY <1>1, <3>8 DEF Planned, historyVars
      <4>2. Settled(r) = r
        BY <2>3, <4>1, SettledBusy
      <4> QED BY <3>1, <4>1, <4>2
    <3>9. ASSUME NEW r, Waited(c, r) PROVE FALSE
      BY <1>1, <2>3, <3>9 DEF Waited
    <3> QED BY <1>2, <3>2, <3>3, <3>4, <3>5, <3>6, <3>7, <3>8, <3>9 DEF ClientStep, Commenced
  <2> QED BY <2>1, <2>2, <2>3 DEF Forms
<1>3. ASSUME NEW p, NEW st, Built(p, st) PROVE Forms'
  BY <1>3 DEF Built, BuilderWrites, clientVars, Forms
<1>4. CASE UNCHANGED vars
  BY <1>4 DEF vars, clientVars, historyVars, Forms
<1> QED BY <1>2, <1>3, <1>4 DEF Stepped

-----------------------------------------------------------------------------
(* Packages are kept.                                                      *)

(* The functions that use a package.                                       *)
Users(st, p) == {f \in Name : st["fn"][f] # None /\ st["fn"][f].spec.to = {p}}

(* The packages of the functions that a command writes are there, or it is *)
(* about to create them, and without --force it deletes unused ones.       *)
KeepsPkgs(s, st, lost) ==
    /\ \A j \in 1 .. Len(s.todo) : FnWrite(s.todo[j]) =>
         \A p \in s.todo[j].o.spec.to \ lost :
            \/ st["pkg"][p] # None
            \/ /\ j = 2 /\ s.todo[1].k = "pkg" /\ s.todo[1].op = "create"
               /\ s.todo[1].n = p /\ s.todo[2].lax = FALSE
    /\ s.force \/ \A x \in ToSet(s.todo) :
         (x.k = "pkg" /\ x.op = "delete") => Users(st, x.n) = {}

(* Functions have their packages, and what is planned keeps it so.         *)
Kept ==
    calm => /\ PackagesKept(store, waived)
            /\ \A c \in Client : cl[c].cmd = "cli" => KeepsPkgs(cl[c], store, waived)

LEMMA UsersAre ==
    ASSUME NEW p
    PROVE  Users(store, p) = FunctionsByPackage(p)
BY DEF Users, FunctionsByPackage, Objects, Get

LEMMA CliKeeps ==
    ASSUME NEW s
    PROVE  CliKept(s) <=> KeepsPkgs(s, store, waived)
BY UsersAre DEF CliKept, KeepsPkgs, Exists

(* A function refers to one package.                                       *)
LEMMA OneRef ==
    ASSUME StoreTyped, NEW f \in Name, store["fn"][f] # None
    PROVE  \E p \in Name : store["fn"][f].spec.to = {p}
<1>1. store["fn"][f] \in Object("fn", f)
  BY KindsAre DEF StoreTyped
<1>2. store["fn"][f].spec \in [v : Strategies, to : {{p} : p \in Name}, at : Nat]
  BY <1>1, ContentsOf DEF Object
<1> QED BY <1>2

LEMMA CallRef ==
    ASSUME NEW x, IsCall(x), FnWrite(x)
    PROVE  \E p \in Name : x.o.spec.to = {p}
<1>1. x.o \in Object("fn", x.n)
  BY DEF IsCall, ReadOnly, FnWrite
<1>2. x.o.spec \in [v : Strategies, to : {{p} : p \in Name}, at : Nat]
  BY <1>1, ContentsOf DEF Object
<1> QED BY <1>2

(* When a call fails, those that go on need no package of its making.      *)
LEMMA FailedKeeps ==
    ASSUME Base, NEW c \in Client, NEW r, Failed(c, r), NEW st, NEW lost,
           KeepsPkgs(cl[c], st, lost), cl'[c].cmd = "cli"
    PROVE  KeepsPkgs(cl'[c], st, lost)
<1> DEFINE s == cl[c]  L == Len(s.todo)  M == Len(r.todo)
<1>1. /\ IsClient(r) /\ cl'[c] = Settled(r) /\ r.err = TRUE /\ r.force = s.force
      /\ DOMAIN cl = Client
  BY DEF Failed, Base, ResourcesTypeOK
<1>2. Settled(r) = r /\ ~Dead(r)
  BY <1>1, SettledBusy
<1>3. r.todo # <<>> /\ Head(r.todo).lax
  BY <1>1, <1>2 DEF Dead
<1>4. Shorter(s, r)
  BY FailedShorter
<1>5. Head(r.todo) = r.todo[1]
  BY <1>3, <1>4, RestListed DEF Shorter
<1>6. /\ L \in Nat \ {0} /\ M = L - 1 /\ \A j \in 1 .. L - 1 : r.todo[j] = s.todo[j + 1]
      /\ ToSet(r.todo) \subseteq ToSet(s.todo)
  BY <1>4 DEF Shorter
<1> HIDE DEF L, M
<1>7. ASSUME NEW j \in 1 .. M, FnWrite(r.todo[j]), NEW p \in r.todo[j].o.spec.to \ lost
      PROVE  st["pkg"][p] # None
  <2>1. j \in 1 .. L - 1 /\ j + 1 \in 1 .. L
    BY <1>6
  <2>2. r.todo[j] = s.todo[j + 1]
    BY <1>6, <2>1
  <2>3. \/ st["pkg"][p] # None
        \/ j + 1 = 2 /\ s.todo[2].lax = FALSE
    BY <1>7, <2>1, <2>2 DEF KeepsPkgs, L
  <2>4. j + 1 = 2 => j = 1
    BY <2>1
  <2> QED BY <1>3, <1>5, <2>2, <2>3, <2>4
<1> QED BY <1>1, <1>2, <1>6, <1>7 DEF KeepsPkgs, M

LEMMA LookedKeeps ==
    ASSUME Base, NEW c \in Client, NEW y, NEW r, Looked(c, y, r), CliForm(cl[c]),
           KeepsPkgs(cl[c], store, waived)
    PROVE  KeepsPkgs(r, store, waived)
<1>1. \A x \in ToSet(r.todo) : PkgGone(x)
  BY LookedGone
<1>2. \A j \in 1 .. Len(r.todo) : r.todo[j] \in ToSet(r.todo)
  <2>1. IsList(r.todo)
    BY ClientForm DEF Looked, AreCalls
  <2> QED BY <2>1 DEF IsList, ToSet
<1>3. \A j \in 1 .. Len(r.todo) : ~FnWrite(r.todo[j])
  BY <1>1, <1>2 DEF PkgGone, FnWrite
<1>4. r.force = cl[c].force
  BY DEF Looked
<1>5. CASE Shorter(cl[c], r)
  BY <1>3, <1>4, <1>5 DEF KeepsPkgs, Shorter
<1>6. CASE FunctionsByPackage(y.n) = {} /\ Marked(cl[c], r, y.n)
  <2>1. Delete("pkg", y.n).n = y.n
    BY DEF Delete, Call
  <2>2. Users(store, y.n) = {}
    BY <1>6, UsersAre
  <2> QED BY <1>3, <1>4, <1>6, <2>1, <2>2 DEF KeepsPkgs, Marked
<1> QED BY <1>5, <1>6, LookedLeaves

(* What the call that is sent has of the one that was planned.             *)
SentAs(c, y, x, r) ==
    /\ x.op = y.op /\ x.k = y.k /\ x.n = y.n /\ x.lax = y.lax
    /\ x.k \in Kind /\ x.n \in Name /\ Elsewhere(x.k, x.n)
    /\ y.op # "delete" =>
         /\ x.o.by = y.o.by /\ x.o.status = y.o.status
         /\ x.o.spec.v = y.o.spec.v /\ x.o.spec.to = y.o.spec.to
         /\ y.k = "fn" => \A p \in y.o.spec.to :
              x.o.spec.at = IF cl[c].meta[p] = 0 THEN y.o.spec.at ELSE cl[c].meta[p]
    /\ cl[c].cmd \in {"cli", "apply"}
    /\ ToSet(cl[c].todo) = {y} \cup ToSet(r.todo)
    /\ y = cl[c].todo[1] /\ Len(cl[c].todo) \in Nat \ {0}
    /\ cl'[c] = Settled(r)

LEMMA SentFollows ==
    ASSUME Base, NEW c \in Client, NEW y, NEW x, NEW r, Sent(c, y, x, r)
    PROVE  SentAs(c, y, x, r)
<1>1. x.op = y.op /\ x.k = y.k /\ x.n = y.n /\ x.lax = y.lax
  BY SentFacts
<1>2. x.k \in Kind /\ x.n \in Name /\ Elsewhere(x.k, x.n)
  BY SentFacts
<1>3. y.op # "delete" =>
         /\ x.o.by = y.o.by /\ x.o.status = y.o.status
         /\ x.o.spec.v = y.o.spec.v /\ x.o.spec.to = y.o.spec.to
  BY SentFacts
<1>4. (y.op # "delete" /\ y.k = "fn") => \A p \in y.o.spec.to :
         x.o.spec.at = IF cl[c].meta[p] = 0 THEN y.o.spec.at ELSE cl[c].meta[p]
  BY SentFacts
<1>5. /\ cl[c].cmd \in {"cli", "apply"}
      /\ ToSet(cl[c].todo) = {y} \cup ToSet(r.todo)
  BY SentFacts
<1>6. y = cl[c].todo[1] /\ Len(cl[c].todo) \in Nat \ {0}
  BY SentFacts
<1>7. cl'[c] = Settled(r)
  BY SentFacts
<1> QED BY <1>1, <1>2, <1>3, <1>4, <1>5, <1>6, <1>7 DEF SentAs

(* The functions of an apply find their packages.                          *)
LEMMA AppliedPackages ==
    ASSUME Base, NEW c \in Client, NEW y, NEW x, NEW r, Sent(c, y, x, r),
           cl[c].cmd = "apply", OnTrack(cl[c], store), FnWrite(x), NEW p \in x.o.spec.to
    PROVE  store'["pkg"][p] # None
<1> DEFINE s == cl[c]  n == Len(s.kinds)
<1>1. IsClient(s) /\ Form(s)
  BY DEF Base, ResourcesTypeOK
<1>2. /\ y.op # "delete" /\ y.k = "fn" /\ x.o.spec.to = y.o.spec.to
      /\ ToSet(s.todo) = {y} \cup ToSet(r.todo)
  <2>1. /\ x.op = y.op /\ x.k = y.k
        /\ y.op # "delete" => x.o.spec.to = y.o.spec.to
        /\ ToSet(s.todo) = {y} \cup ToSet(r.todo)
    BY SentFacts
  <2> QED BY <2>1 DEF FnWrite
<1>3. \A z \in ToSet(s.todo) : Aims(s, z)
  BY DEF OnTrack
<1>4. PICK i \in s.want : Brings(s, y, i)
  BY <1>2, <1>3 DEF Aims
<1>5. i.k = "fn" /\ p \in i.spec.to
  BY <1>2, <1>4 DEF Brings
<1>6. p \in Names(s.want, "pkg")
  BY <1>1, <1>4, <1>5, WantedPackages
<1>7. n \in 0 .. 7 /\ n < 7 /\ ApplyOrder[7 - n] = "fn"
  BY <1>1, <1>2, <1>3, KindsLeft DEF Aims
<1>8. Begun(n, "pkg")
  BY <1>7, BegunOrder
<1>9. ~Writing(r, "pkg", p)
  <2>1. \A z \in ToSet(r.todo) : z.k = "fn"
    BY <1>2, <1>3, <1>7 DEF Aims
  <2> QED BY <2>1 DEF Writing
<1>10. OnTrack(r, store') /\ r.kinds = s.kinds /\ r.want = s.want
  BY SentTrack DEF Sent
<1>11. Knowing(r, store')
  BY <1>10 DEF OnTrack
<1> QED BY <1>6, <1>8, <1>9, <1>10, <1>11 DEF Knowing

(* A call takes no package from a function.                                *)
LEMMA SentKept ==
    ASSUME Base, Base', Kept, Forms, OneBusy, Converging, calm,
           NEW c \in Client, NEW y, NEW x, NEW r, Sent(c, y, x, r)
    PROVE  PackagesKept(store', waived')
<1> DEFINE s == cl[c]
<1>1. StoreTyped /\ StoreTyped' /\ IsCall(x) /\ PackagesKept(store, waived)
      /\ "fn" \in Kind /\ "pkg" \in Kind /\ x.op \in {"create", "update", "status", "delete"}
  BY KindsAre DEF Base, ResourcesTypeOK, Kept, Sent
<1>2. /\ x.op = y.op /\ x.k = y.k /\ x.n = y.n /\ x.k \in Kind /\ x.n \in Name
      /\ Elsewhere(x.k, x.n) /\ s.cmd \in {"cli", "apply"}
      /\ y.op # "delete" => x.o.spec.to = y.o.spec.to
      /\ y = s.todo[1] /\ Len(s.todo) \in Nat \ {0}
      /\ ToSet(s.todo) = {y} \cup ToSet(r.todo)
  BY SentFacts
<1>3. /\ x.op = "delete" => store'[x.k][x.n] = None
      /\ x.op # "delete" => /\ store'[x.k][x.n] # None
                            /\ store'[x.k][x.n].spec = x.o.spec
  BY SentMoves
<1>4. waived' = IF x.k = "pkg" /\ x.op = "delete" /\ (s.force \/ s.cmd = "apply")
                  THEN waived \cup {x.n} ELSE waived
  BY DEF Sent
<1> SUFFICES ASSUME NEW f \in Name, store'["fn"][f] # None,
                    NEW p \in store'["fn"][f].spec.to \ waived'
             PROVE  store'["pkg"][p] # None
  BY DEF PackagesKept
<1>5. p \notin waived
  BY <1>4
<1>6. CASE x.k = "fn" /\ x.n = f
  <2>1. x.op # "delete" /\ FnWrite(x) /\ FnWrite(y) /\ p \in x.o.spec.to
    BY <1>1, <1>2, <1>3, <1>6 DEF FnWrite
  <2>2. PICK q \in Name : x.o.spec.to = {q}
    BY <1>1, <2>1, CallRef
  <2>3. CASE s.cmd = "cli"
    <3>1. KeepsPkgs(s, store, waived)
      BY <2>3 DEF Kept
    <3>2. 1 \in 1 .. Len(s.todo)
      BY <1>2
    <3>3. \/ store["pkg"][p] # None
          \/ 1 = 2
      BY <1>2, <1>5, <2>1, <3>1, <3>2 DEF KeepsPkgs
    <3>4. store'["pkg"][p] = store["pkg"][p]
      BY <1>1, <1>2, <1>6, <2>1, <2>2 DEF Elsewhere
    <3> QED BY <3>3, <3>4
  <2>4. CASE s.cmd = "apply"
    <3>1. OnTrack(cl[c], store)
      BY <2>4 DEF OneBusy, Converging, Applying
    <3> QED BY <2>1, <2>4, <3>1, AppliedPackages
  <2> QED BY <1>2, <2>3, <2>4
<1>7. CASE x.k # "fn" \/ x.n # f
  <2>1. store'["fn"][f] = store["fn"][f]
    BY <1>1, <1>2, <1>7 DEF Elsewhere
  <2>2. store["pkg"][p] # None
    BY <1>1, <1>5, <2>1 DEF PackagesKept
  <2>3. PICK q \in Name : store["fn"][f].spec.to = {q}
    BY <1>1, <2>1, OneRef
  <2>4. p = q
    BY <2>1, <2>3
  <2>5. CASE x.k = "pkg" /\ x.n = p
    <3>1. CASE x.op = "delete"
      <4>1. s.cmd = "cli" /\ ~s.force
        BY <1>2, <1>4, <2>5, <3>1
      <4>x. KeepsPkgs(s, store, waived) /\ y \in ToSet(s.todo)
        BY <1>2, <4>1 DEF Kept
      <4>2. Users(store, p) = {}
        BY <1>2, <2>5, <3>1, <4>1, <4>x DEF KeepsPkgs
      <4> QED BY <2>1, <2>3, <2>4, <4>2 DEF Users
    <3> QED BY <1>3, <2>5, <3>1
  <2>6. CASE x.k # "pkg" \/ x.n # p
    BY <1>1, <1>2, <2>2, <2>3, <2>4, <2>6 DEF Elsewhere
  <2> QED BY <2>5, <2>6
<1> QED BY <1>6, <1>7

(* And what is planned after it is as good as before.                      *)
LEMMA SentKeeps ==
    ASSUME Base, Kept, Forms, calm, NEW c \in Client, NEW y, NEW x, NEW r, Sent(c, y, x, r),
           cl[c].cmd = "cli"
    PROVE  KeepsPkgs(r, store', waived')
<1>0. /\ x.op = y.op /\ x.k = y.k /\ x.n = y.n /\ x.k \in Kind /\ x.n \in Name
      /\ Elsewhere(x.k, x.n) /\ y = cl[c].todo[1] /\ cl[c].cmd \in {"cli", "apply"}
      /\ y.op # "delete" => x.o.spec.to = y.o.spec.to
      /\ ToSet(cl[c].todo) = {y} \cup ToSet(r.todo) /\ Len(cl[c].todo) \in Nat \ {0}
  BY SentFollows DEF SentAs
<1> DEFINE s == cl[c]  L == Len(s.todo)  M == Len(r.todo)
<1>1. KeepsPkgs(s, store, waived) /\ CliForm(s) /\ "fn" \in Kind /\ "pkg" \in Kind
      /\ IsClient(s) /\ IsClient(r) /\ r.force = s.force
  BY KindsAre DEF Kept, Forms, Base, ResourcesTypeOK, Sent
<1>2. /\ x.op = y.op /\ x.k = y.k /\ x.n = y.n /\ x.k \in Kind /\ x.n \in Name
      /\ Elsewhere(x.k, x.n) /\ y = s.todo[1]
      /\ ToSet(s.todo) = {y} \cup ToSet(r.todo) /\ Len(s.todo) \in Nat \ {0}
  BY <1>0
<1>3. x.op # "delete" => store'[x.k][x.n] # None
  BY SentMoves
<1>4. waived \subseteq waived'
  BY DEF Sent
<1>5. Shorter(s, r)
  BY SentShorter
<1>6. /\ L \in Nat \ {0} /\ M = L - 1 /\ \A j \in 1 .. L - 1 : r.todo[j] = s.todo[j + 1]
      /\ \A j \in 1 .. M : r.todo[j] \in ToSet(r.todo)
  <2>1. IsList(r.todo)
    BY <1>1, ClientForm DEF AreCalls
  <2> QED BY <1>5, <2>1 DEF Shorter, IsList, ToSet
<1>7. PkgGone(y) => \A z \in ToSet(s.todo) : PkgGone(z)
  BY <1>1, <1>2 DEF CliForm
<1>8. \A z \in ToSet(s.todo) : PkgGone(z) => PkgGone(y)
  BY <1>1, <1>2 DEF CliForm
<1> HIDE DEF L, M
<1>9. ASSUME NEW j \in 1 .. M, FnWrite(r.todo[j]), NEW p \in r.todo[j].o.spec.to \ waived'
      PROVE  store'["pkg"][p] # None
  <2>1. j \in 1 .. L - 1 /\ j + 1 \in 1 .. L
    BY <1>6
  <2>2. r.todo[j] = s.todo[j + 1] /\ r.todo[j] \in ToSet(s.todo) /\ IsCall(r.todo[j])
    <3>1. r.todo[j] = s.todo[j + 1] /\ r.todo[j] \in ToSet(s.todo)
      BY <1>2, <1>6, <2>1
    <3> QED BY <1>1, <3>1 DEF IsClient
  <2>3. ~PkgGone(y)
    BY <1>7, <1>9, <2>2 DEF PkgGone, FnWrite
  <2>4. p \in Name /\ p \notin waived
    <3>1. PICK q \in Name : r.todo[j].o.spec.to = {q}
      BY <1>9, <2>2, CallRef
    <3> QED BY <1>4, <3>1
  <2>5. \/ store["pkg"][p] # None
        \/ s.todo[1].k = "pkg" /\ s.todo[1].op = "create" /\ s.todo[1].n = p
    BY <1>1, <1>9, <2>1, <2>2, <2>4 DEF KeepsPkgs, L
  <2>6. CASE x.k = "pkg" /\ x.n = p
    BY <1>2, <1>3, <2>3, <2>6 DEF PkgGone, ReadOnly
  <2>7. CASE x.k # "pkg" \/ x.n # p
    BY <1>1, <1>2, <2>4, <2>5, <2>7 DEF Elsewhere
  <2> QED BY <2>6, <2>7
<1>10. ASSUME ~s.force, NEW z \in ToSet(r.todo), z.k = "pkg", z.op = "delete"
       PROVE  Users(store', z.n) = {}
  <2>1. z \in ToSet(s.todo) /\ PkgGone(z)
    BY <1>2, <1>10 DEF PkgGone, ReadOnly
  <2>2. x.k # "fn"
    BY <1>2, <1>8, <2>1 DEF PkgGone
  <2>3. \A f \in Name : store'["fn"][f] = store["fn"][f]
    BY <1>1, <1>2, <2>2 DEF Elsewhere
  <2>4. Users(store, z.n) = {}
    BY <1>1, <1>10, <2>1 DEF KeepsPkgs
  <2> QED BY <2>3, <2>4 DEF Users
<1> QED BY <1>1, <1>9, <1>10 DEF KeepsPkgs, M

(* The builder leaves packages and functions where they are.               *)
LEMMA BuiltFns ==
    ASSUME Base, NEW p, NEW st, Built(p, st), NEW f \in Name
    PROVE  /\ store'["fn"][f] = None <=> store["fn"][f] = None
           /\ store["fn"][f] # None =>
                /\ store'["fn"][f].by = store["fn"][f].by
                /\ store'["fn"][f].spec.to = store["fn"][f].spec.to
<1>1. CASE f \in Touched(p, st)
  <2>1. store["fn"][f] # None
    BY <1>1 DEF Touched, FunctionsByPackage, Objects
  <2> QED BY <1>1, <2>1 DEF Built
<1>2. CASE f \notin Touched(p, st)
  BY <1>2 DEF Built
<1> QED BY <1>1, <1>2

(* Packages are kept.                                                      *)
LEMMA KeptStep ==
    ASSUME Base, Base', Stepped, OneBusy, Forms, Converging, Kept
    PROVE  Kept'
<1>1. /\ DOMAIN cl = Client /\ calm \in BOOLEAN
      /\ \A c \in Client : IsClient(cl[c]) /\ Form(cl[c])
  BY DEF Base, ResourcesTypeOK
<1>2. ASSUME NEW c \in Client, ClientStep(c) PROVE Kept'
  <2> SUFFICES ASSUME calm' PROVE Kept'
    BY DEF Kept
  <2>1. /\ \A d \in Client \ {c} : cl'[d] = cl[d]
        /\ calm
    BY <1>2, StepFrame
  <2>2. \A d \in Client \ {c} : cl'[d].cmd # "cli"
    <3>1. CASE ~Busy(c) /\ Commenced(c)
      BY <2>1, <3>1 DEF Commenced, Begin, Busy
    <3>2. CASE GoesOn(c)
      BY <2>1, <3>2 DEF GoesOn, OneBusy, Busy
    <3> QED BY <1>2, <3>1, <3>2, BeginsOrGoesOn
  <2>3. PackagesKept(store, waived) /\ (cl[c].cmd = "cli" => KeepsPkgs(cl[c], store, waived))
        /\ (cl[c].cmd = "cli" => CliForm(cl[c]))
    BY <2>1 DEF Kept, Forms
  <2>4. /\ PackagesKept(store', waived')
        /\ cl'[c].cmd = "cli" => KeepsPkgs(cl'[c], store', waived')
    <3>1. ASSUME NEW s, Begin(c, s), Starts(s)
          PROVE  /\ store' = store /\ waived' = waived
                 /\ cl'[c].cmd = "cli" => KeepsPkgs(cl'[c], store, waived)
      BY <1>1, <3>1, CliKeeps DEF Begin, Starts, apiVars
    <3>2. CASE Passed(c)
      BY <2>3, <3>2 DEF Passed, apiVars, historyVars
    <3>3. ASSUME NEW r, Failed(c, r)
          PROVE  /\ store' = store /\ waived' = waived
                 /\ cl'[c].cmd = "cli" => KeepsPkgs(cl'[c], store, waived)
      <4>1. store' = store /\ waived' = waived
        BY <3>3 DEF Failed, apiVars
      <4>2. ASSUME cl'[c].cmd = "cli" PROVE cl[c].cmd = "cli"
        <5>1. Idle.cmd = "idle"
          BY DEF Idle
        <5> QED BY <3>3, <4>2, <5>1, FailedEnds
      <4> QED BY <2>3, <3>3, <4>1, <4>2, FailedKeeps
    <3>4. ASSUME NEW y, NEW x, NEW r, Sent(c, y, x, r)
          PROVE  /\ PackagesKept(store', waived')
                 /\ cl'[c].cmd = "cli" => KeepsPkgs(cl'[c], store', waived')
      <4>1. PackagesKept(store', waived')
        BY <2>1, <3>4, SentKept
      <4>2. IsClient(r) /\ r.cmd = cl[c].cmd /\ cl'[c] = Settled(r)
        BY <1>1, <3>4 DEF Sent
      <4>3. ASSUME cl'[c].cmd = "cli" PROVE cl'[c] = r /\ cl[c].cmd = "cli"
        BY <4>2, <4>3, SettledBusy
      <4> QED BY <2>1, <3>4, <4>1, <4>3, SentKeeps
    <3>5. ASSUME NEW r, Looked(c, Head(cl[c].todo), r)
          PROVE  /\ store' = store /\ waived' = waived
                 /\ cl'[c].cmd = "cli" => KeepsPkgs(cl'[c], store, waived)
      <4>1. /\ store' = store /\ waived' = waived /\ cl[c].cmd = "cli"
            /\ IsClient(r) /\ cl'[c] = Settled(r)
        BY <1>1, <3>5 DEF Looked, apiVars, historyVars
      <4>2. KeepsPkgs(r, store, waived)
        BY <2>3, <3>5, <4>1, LookedKeeps
      <4> QED BY <4>1, <4>2, SettledBusy
    <3>6. ASSUME NEW k, NEW r, Planned(c, k, r)
          PROVE  store' = store /\ waived' = waived /\ cl'[c].cmd # "cli"
      <4>1. /\ store' = store /\ waived' = waived
            /\ IsClient(r) /\ r.cmd = "apply" /\ cl'[c] = Settled(r)
        BY <1>1, <3>6 DEF Planned, apiVars, historyVars
      <4> QED BY <4>1, SettledCmd
    <3>7. ASSUME NEW r, Waited(c, r)
          PROVE  store' = store /\ waived' = waived /\ cl'[c].cmd # "cli"
      BY <1>1, <3>7 DEF Waited, apiVars, historyVars
    <3> QED BY <1>2, <2>3, <3>1, <3>2, <3>3, <3>4, <3>5, <3>6, <3>7 DEF ClientStep, Commenced
  <2> QED BY <2>2, <2>4 DEF Kept
<1>3. ASSUME NEW p, NEW st, Built(p, st) PROVE Kept'
  <2> SUFFICES ASSUME calm' PROVE Kept'
    BY DEF Kept
  <2>1. cl' = cl /\ waived' = waived /\ calm
        /\ \A c \in Client : cl[c].cmd \in {"idle", "wait"}
    BY <1>3 DEF Built, BuilderWrites, clientVars
  <2>2. \A q \in Name : store["pkg"][q] # None => store'["pkg"][q] # None
    BY <1>3 DEF Built
  <2>3. \A f \in Name : store["fn"][f] # None => store["fn"][f].spec.to \subseteq Name
    BY OneRef DEF Base, ResourcesTypeOK
  <2>4. PackagesKept(store', waived')
    BY <1>3, <2>1, <2>2, <2>3, BuiltFns DEF Kept, PackagesKept
  <2> QED BY <2>1, <2>4 DEF Kept
<1>4. CASE UNCHANGED vars
  BY <1>4 DEF vars, apiVars, clientVars, historyVars, Kept
<1> QED BY <1>2, <1>3, <1>4 DEF Stepped

-----------------------------------------------------------------------------
(* Versions are right.                                                     *)

(* A function has the version of its package, if that is built and both    *)
(* have one owner.                                                         *)
Cur(st, lost, f) ==
    \A p \in st["fn"][f].spec.to \ lost :
        (/\ st["pkg"][p] # None /\ st["pkg"][p].status \in {"succeeded", "none"}
         /\ st["pkg"][p].by = st["fn"][f].by)
            => st["fn"][f].spec.at = st["pkg"][p].rv

(* A function that a command writes gets the version of its package.       *)
Version(s, st, lost, x) ==
    \A p \in x.o.spec.to \ lost :
       \/ PkgWrite(s.todo[1]) /\ s.todo[1].n = p
       \/ /\ st["pkg"][p] # None
          /\ \/ s.meta[p] = st["pkg"][p].rv
             \/ s.meta[p] = 0 /\ x.o.spec.at = st["pkg"][p].rv

(* A command is about to write a function.                                 *)
Mends(s, f) == \E x \in ToSet(s.todo) : FnWrite(x) /\ x.n = f

(* A function that has not the version of its package is about to get it,  *)
(* and so is one whose package is about to be written.                     *)
CliRight(s, st, lost) ==
    /\ \A f \in Name : st["fn"][f] # None => Cur(st, lost, f) \/ Mends(s, f)
    /\ \A x \in ToSet(s.todo) : (x.k = "pkg" /\ x.op = "update") =>
          \A f \in Users(st, x.n) : Mends(s, f)
    /\ \A x \in ToSet(s.todo) : FnWrite(x) => Version(s, st, lost, x)

(* An apply may leave its own functions behind for a while, and no others. *)
ApplyRight(s, st, lost) ==
    /\ \A f \in Name : (st["fn"][f] # None /\ st["fn"][f].by # s.by) => Cur(st, lost, f)
    /\ ~s.del => \A f \in Name :
          (st["fn"][f] # None /\ st["fn"][f].by = s.by) => f \in Names(s.want, "fn")

(* Both, by the command that a client runs.                                *)
Right(s, st, lost) ==
    /\ s.cmd = "cli" => CliRight(s, st, lost)
    /\ s.cmd = "apply" => ApplyRight(s, st, lost)

(* Between commands every function has the version of its package.         *)
Rights ==
    (calm /\ whole) =>
        /\ (\A c \in Client : cl[c].cmd \in {"idle", "wait"}) => VersionsCurrent(store, waived)
        /\ \A c \in Client : Right(cl[c], store, waived)

(* VersionsCurrent, function by function.                                  *)
LEMMA AllCur ==
    ASSUME NEW st, NEW lost
    PROVE  VersionsCurrent(st, lost) <=>
              \A f \in Name : st["fn"][f] # None => Cur(st, lost, f)
BY DEF VersionsCurrent, Cur

(* A command that starts well is right.                                    *)
LEMMA CliBegins ==
    ASSUME NEW s, CliVersions(s), VersionsCurrent(store, waived)
    PROVE  CliRight(s, store, waived)
<1>1. \A f \in Name : store["fn"][f] # None => Cur(store, waived, f)
  BY AllCur
<1>2. \A x \in ToSet(s.todo) : (x.k = "pkg" /\ x.op = "update") =>
          \A f \in Users(store, x.n) : Mends(s, f)
  BY UsersAre DEF CliVersions, Mends
<1>3. \A x \in ToSet(s.todo) : FnWrite(x) => Version(s, store, waived, x)
  BY DEF CliVersions, CliVersion, Version, Exists, Get
<1> QED BY <1>1, <1>2, <1>3 DEF CliRight

(* A command with nothing left to do leaves every function current.        *)
LEMMA CliEnds ==
    ASSUME NEW s, NEW st, NEW lost, CliRight(s, st, lost), s.todo = <<>>
    PROVE  VersionsCurrent(st, lost)
<1>1. \A f : ~Mends(s, f)
  BY NoneListed DEF Mends
<1> QED BY <1>1, AllCur DEF CliRight

(* And so does an apply.                                                   *)
LEMMA ApplyEnds ==
    ASSUME NEW s, NEW st, NEW lost, IsClient(s), ApplyRight(s, st, lost), OnTrack(s, st),
           s.todo = <<>>, s.kinds = <<>>
    PROVE  VersionsCurrent(st, lost)
<1>1. Len(s.kinds) = 0 /\ ToSet(s.todo) = {}
  BY NoneListed
<1>2. Begun(0, "fn") /\ "fn" \in Kind
  <2>1. "fn" \in ToSet(ApplyOrder)
    BY OrderFacts DEF ApplyOrder, ToSet
  <2> QED BY <2>1, BegunAll, KindsAre
<1>3. ASSUME NEW f \in Name, st["fn"][f] # None, st["fn"][f].by = s.by
      PROVE  Cur(st, lost, f)
  <2>1. f \in Names(s.want, "fn")
    <3>1. CASE ~s.del
      BY <1>3, <3>1 DEF ApplyRight
    <3>2. CASE s.del
      BY <1>1, <1>2, <1>3, <3>2 DEF OnTrack, Clearing, Dropping
    <3> QED BY <3>1, <3>2
  <2>2. PICK i \in s.want : i.k = "fn" /\ i.n = f
    BY <2>1, NamesElim
  <2>3. Has(st, s.by, i)
    BY <1>1, <1>2, <2>2 DEF OnTrack, Bringing, Writing
  <2> QED BY <2>2, <2>3 DEF Has, Cur
<1> QED BY <1>3, AllCur DEF ApplyRight

-----------------------------------------------------------------------------
(* A call of a command keeps it right.                                     *)
LEMMA SentCli ==
    ASSUME Base, Kept, Forms, calm, NEW c \in Client, NEW y, NEW x, NEW r, Sent(c, y, x, r),
           cl[c].cmd = "cli", CliRight(cl[c], store, waived)
    PROVE  CliRight(r, store', waived')
<1> DEFINE s == cl[c]
<1>1. /\ StoreTyped /\ IsClient(s) /\ IsCall(x) /\ IsCall(y) /\ CliForm(s)
      /\ PackagesKept(store, waived) /\ "fn" \in Kind /\ "pkg" \in Kind
      /\ x.op \in {"create", "update", "status", "delete"}
  BY KindsAre DEF Base, ResourcesTypeOK, Kept, Forms, Sent
<1>2. /\ x.op = y.op /\ x.k = y.k /\ x.n = y.n /\ x.k \in Kind /\ x.n \in Name
      /\ Elsewhere(x.k, x.n) /\ y = s.todo[1]
      /\ y.op # "delete" =>
           /\ x.o.status = y.o.status /\ x.o.spec.to = y.o.spec.to
           /\ y.k = "fn" => \A p \in y.o.spec.to :
                x.o.spec.at = IF s.meta[p] = 0 THEN y.o.spec.at ELSE s.meta[p]
      /\ ToSet(s.todo) = {y} \cup ToSet(r.todo)
  BY SentFollows DEF SentAs
<1>3. /\ x.op = "delete" => store'[x.k][x.n] = None
      /\ x.op # "delete" => /\ store'[x.k][x.n] # None
                            /\ store'[x.k][x.n].spec = x.o.spec
                            /\ store'[x.k][x.n].status = x.o.status
                            /\ store'[x.k][x.n].rv = version[x.k][x.n] + 1
      /\ x.op = "create" => store[x.k][x.n] = None
  BY SentMoves
<1>4. waived \subseteq waived' /\ \A p \in Name :
           r.meta[p] = IF x.k = "pkg" /\ x.op # "delete" /\ p = x.n
                         THEN version["pkg"][p] + 1 ELSE s.meta[p]
  BY DEF Sent
<1>5. /\ \A f \in Name : store["fn"][f] # None => Cur(store, waived, f) \/ Mends(s, f)
      /\ \A z \in ToSet(s.todo) : (z.k = "pkg" /\ z.op = "update") =>
            \A f \in Users(store, z.n) : Mends(s, f)
      /\ \A z \in ToSet(s.todo) : FnWrite(z) => Version(s, store, waived, z)
  BY DEF CliRight
<1>6. ASSUME NEW f, Mends(s, f) PROVE Mends(r, f) \/ (x.k = "fn" /\ x.n = f)
  BY <1>2, <1>6 DEF Mends, FnWrite
<1>7. ASSUME NEW f \in Name, store'["fn"][f] # None
      PROVE  Cur(store', waived', f) \/ Mends(r, f)
  <2>1. CASE x.k = "fn" /\ x.n = f
    <3>1. x.op # "delete" /\ FnWrite(x) /\ FnWrite(y) /\ ~PkgWrite(y)
      BY <1>1, <1>2, <1>3, <1>7, <2>1 DEF FnWrite, PkgWrite
    <3>2. PICK q \in Name : x.o.spec.to = {q}
      BY <1>1, <3>1, CallRef
    <3>3. Version(s, store, waived, y) /\ y.o.spec.to = {q}
      BY <1>2, <1>5, <3>1, <3>2
    <3>4. store'["pkg"][q] = store["pkg"][q] /\ store'["fn"][f].spec = x.o.spec
      BY <1>1, <1>2, <1>3, <2>1, <3>1 DEF Elsewhere
    <3>5. ASSUME q \notin waived PROVE x.o.spec.at = store["pkg"][q].rv
      <4>1. /\ store["pkg"][q] # None
            /\ \/ s.meta[q] = store["pkg"][q].rv
               \/ s.meta[q] = 0 /\ y.o.spec.at = store["pkg"][q].rv
        BY <1>2, <3>1, <3>3, <3>5 DEF Version
      <4>2. store["pkg"][q].rv > 0 /\ store["pkg"][q].rv \in Nat
        BY <1>1, <4>1 DEF StoreTyped, Object
      <4>3. x.o.spec.at = IF s.meta[q] = 0 THEN y.o.spec.at ELSE s.meta[q]
        BY <1>2, <2>1, <3>1, <3>3
      <4> QED BY <4>1, <4>2, <4>3
    <3>6. Cur(store', waived', f)
      BY <1>4, <3>2, <3>4, <3>5 DEF Cur
    <3> QED BY <3>6
  <2>2. CASE x.k # "fn" \/ x.n # f
    <3>1. store'["fn"][f] = store["fn"][f] /\ store["fn"][f] # None
      BY <1>1, <1>2, <1>7, <2>2 DEF Elsewhere
    <3>2. PICK q \in Name : store["fn"][f].spec.to = {q}
      BY <1>1, <3>1, OneRef
    <3>3. CASE x.k # "pkg" \/ x.n # q
      <4>1. store'["pkg"][q] = store["pkg"][q]
        BY <1>1, <1>2, <3>3 DEF Elsewhere
      <4>2. Cur(store, waived, f) => Cur(store', waived', f)
        BY <1>4, <3>1, <3>2, <4>1 DEF Cur
      <4> QED BY <1>5, <1>6, <2>2, <3>1, <4>2
    <3>4. CASE x.k = "pkg" /\ x.n = q /\ x.op = "update"
      <4>1. f \in Users(store, y.n) /\ y \in ToSet(s.todo)
        BY <1>2, <3>1, <3>2, <3>4 DEF Users
      <4>2. Mends(s, f)
        BY <1>2, <1>5, <3>4, <4>1
      <4> QED BY <1>6, <3>4, <4>2
    <3>5. CASE x.k = "pkg" /\ x.n = q /\ x.op = "status"
      <4>1. y.o.status = "pending"
        BY <1>1, <1>2, <3>5 DEF CliForm
      <4>2. store'["pkg"][q].status = "pending"
        BY <1>2, <1>3, <3>5, <4>1
      <4> QED BY <3>1, <3>2, <4>2 DEF Cur
    <3>6. CASE x.k = "pkg" /\ x.n = q /\ x.op = "create"
      <4>1. q \in waived'
        BY <1>1, <1>3, <1>4, <3>1, <3>2, <3>6 DEF PackagesKept
      <4> QED BY <3>1, <3>2, <4>1 DEF Cur
    <3>7. CASE x.k = "pkg" /\ x.n = q /\ x.op = "delete"
      BY <1>3, <3>1, <3>2, <3>7 DEF Cur
    <3> QED BY <1>1, <3>3, <3>4, <3>5, <3>6, <3>7
  <2> QED BY <2>1, <2>2
<1>8. \A z \in ToSet(r.todo) : ~PkgWrite(z)
  <2> DEFINE L == Len(s.todo)  M == Len(r.todo)
  <2>1. Shorter(s, r)
    BY SentShorter
  <2>2. /\ L \in Nat \ {0} /\ M = L - 1 /\ \A j \in 1 .. L - 1 : r.todo[j] = s.todo[j + 1]
        /\ ToSet(r.todo) = {r.todo[j] : j \in 1 .. M}
    BY <2>1 DEF Shorter, IsList, ToSet
  <2>3. \A j \in 2 .. L : ~PkgWrite(s.todo[j])
    BY <1>1 DEF CliForm
  <2> HIDE DEF L, M
  <2>4. \A j \in 1 .. M : ~PkgWrite(r.todo[j])
    <3>1. TAKE j \in 1 .. M
    <3>2. j \in 1 .. L - 1 /\ j + 1 \in 2 .. L
      BY <2>2
    <3> QED BY <2>2, <2>3, <3>2
  <2> QED BY <2>2, <2>4
<1>9. \A z \in ToSet(r.todo) : ~(z.k = "pkg" /\ z.op = "update")
  BY <1>8 DEF PkgWrite
<1>10. ASSUME NEW z \in ToSet(r.todo), FnWrite(z) PROVE Version(r, store', waived', z)
  <2>1. Version(s, store, waived, z) /\ z \in ToSet(s.todo) /\ IsCall(z) /\ ~PkgGone(z)
    <3>1. z \in ToSet(s.todo)
      BY <1>2
    <3> QED BY <1>1, <1>5, <1>10, <3>1 DEF IsClient, PkgGone, FnWrite
  <2>2. ~PkgGone(y)
    BY <1>1, <1>2, <2>1 DEF CliForm
  <2>3. PICK q \in Name : z.o.spec.to = {q}
    BY <1>10, <2>1, CallRef
  <2>4. CASE x.k = "pkg" /\ x.n = q
    <3>1. x.op # "delete"
      BY <1>2, <2>2, <2>4 DEF PkgGone, ReadOnly
    <3>2. store'["pkg"][q] # None /\ r.meta[q] = store'["pkg"][q].rv
      BY <1>3, <1>4, <2>4, <3>1
    <3> QED BY <2>3, <3>2 DEF Version
  <2>5. CASE x.k # "pkg" \/ x.n # q
    <3>1. store'["pkg"][q] = store["pkg"][q] /\ r.meta[q] = s.meta[q]
      BY <1>1, <1>2, <1>4, <2>5 DEF Elsewhere
    <3>2. ~(PkgWrite(y) /\ y.n = q)
      BY <1>2, <2>5 DEF PkgWrite
    <3>3. q \notin waived' => q \notin waived
      BY <1>4
    <3> QED BY <1>2, <2>1, <2>3, <3>1, <3>2, <3>3 DEF Version
  <2> QED BY <2>4, <2>5
<1> QED BY <1>7, <1>9, <1>10 DEF CliRight

(* A call of an apply keeps it right.                                      *)
LEMMA SentApply ==
    ASSUME Base, NEW c \in Client, NEW y, NEW x, NEW r, Sent(c, y, x, r),
           cl[c].cmd = "apply", ApplyRight(cl[c], store, waived), OnTrack(cl[c], store)
    PROVE  ApplyRight(r, store', waived')
<1> DEFINE s == cl[c]
<1>1. StoreTyped /\ Form(s) /\ "fn" \in Kind /\ "pkg" \in Kind
  BY KindsAre DEF Base, ResourcesTypeOK
<1>2. /\ x.op = y.op /\ x.k = y.k /\ x.n = y.n /\ x.k \in Kind /\ x.n \in Name
      /\ Elsewhere(x.k, x.n) /\ (y.op # "delete" => x.o.by = y.o.by)
      /\ ToSet(s.todo) = {y} \cup ToSet(r.todo)
  BY SentFollows DEF SentAs
<1>3. /\ x.op = "delete" => store'[x.k][x.n] = None
      /\ x.op # "delete" => store'[x.k][x.n].by = x.o.by
  BY SentMoves
<1>4. /\ waived \subseteq waived' /\ r.by = s.by /\ r.want = s.want /\ r.del = s.del
  BY DEF Sent
<1>5. x.op # "delete" => x.o.by = s.by
  BY <1>1, <1>2 DEF Form
<1>6. ASSUME NEW f \in Name, store'["fn"][f] # None, store'["fn"][f].by # s.by
      PROVE  Cur(store', waived', f)
  <2>1. store'["fn"][f] = store["fn"][f]
    BY <1>1, <1>2, <1>3, <1>5, <1>6 DEF Elsewhere
  <2>2. Cur(store, waived, f)
    BY <1>6, <2>1 DEF ApplyRight
  <2>3. PICK q \in Name : store["fn"][f].spec.to = {q}
    BY <1>1, <1>6, <2>1, OneRef
  <2>4. CASE x.k = "pkg" /\ x.n = q
    BY <1>3, <1>5, <1>6, <2>1, <2>3, <2>4 DEF Cur
  <2>5. CASE x.k # "pkg" \/ x.n # q
    <3>1. store'["pkg"][q] = store["pkg"][q]
      BY <1>1, <1>2, <2>5 DEF Elsewhere
    <3> QED BY <1>4, <2>1, <2>2, <2>3, <3>1 DEF Cur
  <2> QED BY <2>4, <2>5
<1>7. ASSUME ~s.del, NEW f \in Name, store'["fn"][f] # None, store'["fn"][f].by = s.by
      PROVE  f \in Names(s.want, "fn")
  <2>1. CASE x.k = "fn" /\ x.n = f
    <3>1. x.op # "delete"
      BY <1>3, <1>7, <2>1
    <3>2. PICK i \in s.want : Brings(s, y, i)
      BY <1>2, <3>1 DEF OnTrack, Aims
    <3> QED BY <1>2, <2>1, <3>2, NamesIntro DEF Brings
  <2>2. CASE x.k # "fn" \/ x.n # f
    <3>1. store'["fn"][f] = store["fn"][f]
      BY <1>1, <1>2, <2>2 DEF Elsewhere
    <3> QED BY <1>7, <3>1 DEF ApplyRight
  <2> QED BY <2>1, <2>2
<1> QED BY <1>4, <1>6, <1>7 DEF ApplyRight

(* The builder brings the functions of a package that it built up to date. *)
LEMMA BuiltCurrent ==
    ASSUME Base, NEW p, NEW st, Built(p, st), VersionsCurrent(store, waived)
    PROVE  VersionsCurrent(store', waived)
<1> SUFFICES ASSUME NEW f \in Name, store'["fn"][f] # None PROVE Cur(store', waived, f)
  BY AllCur
<1>1. StoreTyped
  BY DEF Base, ResourcesTypeOK
<1>2. /\ store["fn"][f] # None /\ store'["fn"][f].by = store["fn"][f].by
      /\ store'["fn"][f].spec.to = store["fn"][f].spec.to
  BY BuiltFns
<1>3. PICK q \in Name : store["fn"][f].spec.to = {q}
  BY <1>1, <1>2, OneRef
<1>4. Cur(store, waived, f)
  BY <1>2, AllCur
<1>5. /\ p \in Name /\ store'["pkg"][p].status = st
      /\ store'["pkg"][p].rv = version["pkg"][p] + 1
      /\ \A n \in Name \ {p} : store'["pkg"][n] = store["pkg"][n]
      /\ \A g \in Touched(p, st) : store'["fn"][g].spec.at = version["pkg"][p] + 1
      /\ \A g \in Name \ Touched(p, st) : store'["fn"][g] = store["fn"][g]
      /\ st \in {"running", "failed", "succeeded"}
  BY DEF Built
<1>6. CASE q = p
  <2>1. CASE st = "succeeded"
    <3>1. f \in Touched(p, st)
      BY <1>2, <1>3, <1>6, <2>1 DEF Touched, FunctionsByPackage, Objects, Get
    <3> QED BY <1>2, <1>3, <1>5, <1>6, <3>1 DEF Cur
  <2>2. CASE st # "succeeded"
    BY <1>2, <1>3, <1>5, <1>6, <2>2 DEF Cur
  <2> QED BY <2>1, <2>2
<1>7. CASE q # p
  <2>1. f \notin Touched(p, st)
    BY <1>3, <1>7 DEF Touched, FunctionsByPackage, Get
  <2> QED BY <1>3, <1>4, <1>5, <1>7, <2>1 DEF Cur
<1> QED BY <1>6, <1>7

(* A command that is settled: it is right still, or it is over and every   *)
(* function has its version.                                               *)
Lands(s, st, lost) ==
    /\ Right(s, st, lost)
    /\ s.cmd \in {"idle", "wait"} => VersionsCurrent(st, lost)

(* Commands that are right land well.                                      *)
LEMMA CliLands ==
    ASSUME NEW r, NEW st, NEW lost, IsClient(r), r.cmd = "cli", ~r.err,
           CliRight(r, st, lost)
    PROVE  Lands(Settled(r), st, lost)
<1>1. ~Dead(r)
  BY DEF Dead
<1>2. CASE Settled(r) = r
  BY <1>2 DEF Lands, Right
<1>3. CASE Done(r) /\ Settled(r) = Idle
  <2>1. VersionsCurrent(st, lost)
    BY <1>3, CliEnds DEF Done
  <2>2. Idle.cmd = "idle"
    BY DEF Idle
  <2> QED BY <1>3, <2>1, <2>2 DEF Lands, Right
<1> QED BY <1>1, <1>2, <1>3, SettledForms DEF Rested

LEMMA ApplyLands ==
    ASSUME NEW r, NEW st, NEW lost, IsClient(r), r.cmd = "apply", ~r.err,
           ApplyRight(r, st, lost), OnTrack(r, st)
    PROVE  Lands(Settled(r), st, lost)
<1>1. ~Dead(r)
  BY DEF Dead
<1>2. CASE Settled(r) = r
  BY <1>2 DEF Lands, Right
<1>3. CASE Rested(Settled(r), r)
  <2>1. VersionsCurrent(st, lost)
    BY <1>3, ApplyEnds DEF Rested, Done
  <2> QED BY <1>3, <2>1 DEF Lands, Right, Rested
<1> QED BY <1>1, <1>2, <1>3, SettledForms

(* Versions are right after every step.                                    *)
LEMMA RightsStep ==
    ASSUME Base, Base', Stepped, OneBusy, Forms, Converging, Kept, Rights
    PROVE  Rights'
<1>1. /\ DOMAIN cl = Client /\ calm \in BOOLEAN /\ whole \in BOOLEAN
      /\ \A c \in Client : IsClient(cl[c]) /\ Form(cl[c])
  BY DEF Base, ResourcesTypeOK
<1>2. ASSUME NEW c \in Client, ClientStep(c) PROVE Rights'
  <2> SUFFICES ASSUME calm', whole' PROVE Rights'
    BY DEF Rights
  <2>1. calm /\ whole /\ \A d \in Client \ {c} : cl'[d] = cl[d]
    <3>1. calm /\ \A d \in Client \ {c} : cl'[d] = cl[d]
      BY <1>2, StepFrame
    <3>2. whole
      BY <1>2, BeginsOrGoesOn DEF GoesOn, Commenced, Begin
    <3> QED BY <3>1, <3>2
  <2>2. \A d \in Client \ {c} : cl[d].cmd = "idle" /\ cl'[d].cmd = "idle"
    <3>1. CASE ~Busy(c) /\ Commenced(c)
      BY <2>1, <3>1 DEF Commenced, Begin, Busy
    <3>2. CASE GoesOn(c)
      BY <2>1, <3>2 DEF GoesOn, OneBusy, Busy
    <3> QED BY <1>2, <3>1, <3>2, BeginsOrGoesOn
  <2>3. /\ cl[c].cmd \in {"idle", "wait"} => VersionsCurrent(store, waived)
        /\ cl[c].cmd = "cli" => CliRight(cl[c], store, waived) /\ CliForm(cl[c])
        /\ cl[c].cmd = "apply" =>
             ApplyRight(cl[c], store, waived) /\ OnTrack(cl[c], store)
        /\ cl[c].cmd \in {"cli", "apply"} => ~cl[c].err
    <3>1. /\ cl[c].cmd \in {"idle", "wait"} => VersionsCurrent(store, waived)
          /\ Right(cl[c], store, waived)
      BY <2>1, <2>2 DEF Rights
    <3>2. cl[c].cmd = "apply" => OnTrack(cl[c], store)
      BY <2>1 DEF OneBusy, Converging, Applying
    <3> QED BY <2>1, <3>1, <3>2 DEF Right, Forms
  <2>4. Lands(cl'[c], store', waived')
    <3>1. ASSUME NEW s, Begin(c, s), Starts(s), ~Busy(c) PROVE Lands(cl'[c], store', waived')
      <4>1. cl'[c] = s /\ store' = store /\ waived' = waived /\ ~LeavesOut(s)
            /\ s.cmd \in {"cli", "apply"}
        BY <1>1, <3>1 DEF Begin, Starts, apiVars
      <4>2. VersionsCurrent(store, waived)
        BY <2>3, <3>1 DEF Busy
      <4>3. s.cmd = "cli" => CliRight(s, store, waived)
        BY <3>1, <4>2, CliBegins DEF Starts
      <4>4. s.cmd = "apply" => ApplyRight(s, store, waived)
        BY <4>1, <4>2, AllCur DEF ApplyRight, LeavesOut, Objects, Get
      <4> QED BY <4>1, <4>3, <4>4 DEF Lands, Right
    <3>2. CASE Passed(c)
      BY <2>3, <3>2 DEF Passed, apiVars, historyVars, Lands, Right
    <3>3. ASSUME NEW r, Failed(c, r) PROVE FALSE
      BY <3>3 DEF Failed
    <3>4. ASSUME NEW y, NEW x, NEW r, Sent(c, y, x, r)
          PROVE  Lands(cl'[c], store', waived')
      <4>1. IsClient(r) /\ r.cmd = cl[c].cmd /\ r.err = cl[c].err
        BY <3>4 DEF Sent
      <4>2. cl'[c] = Settled(r) /\ cl[c].cmd \in {"cli", "apply"}
        BY <3>4, SentFollows DEF SentAs
      <4>3. ~r.err
        BY <2>3, <4>1, <4>2
      <4> DEFINE st == store'  lost == waived'
      <4>4. CASE cl[c].cmd = "cli"
        <5>1. CliRight(r, store', waived')
          BY <2>1, <2>3, <3>4, <4>4, SentCli
        <5>2. CliRight(r, st, lost)
          BY <5>1
        <5> HIDE DEF st, lost
        <5>3. Lands(Settled(r), st, lost)
          BY <4>1, <4>3, <4>4, <5>2, CliLands
        <5> QED BY <4>2, <5>3 DEF st, lost
      <4>5. CASE cl[c].cmd = "apply"
        <5>1. ApplyRight(r, store', waived') /\ OnTrack(r, store')
          BY <2>3, <3>4, <4>5, SentApply, SentTrack
        <5>2. ApplyRight(r, st, lost) /\ OnTrack(r, st)
          BY <5>1
        <5> HIDE DEF st, lost
        <5>3. Lands(Settled(r), st, lost)
          BY <4>1, <4>3, <4>5, <5>2, ApplyLands
        <5> QED BY <4>2, <5>3 DEF st, lost
      <4> QED BY <4>2, <4>4, <4>5
    <3>5. ASSUME NEW r, Looked(c, Head(cl[c].todo), r)
          PROVE  Lands(cl'[c], store', waived')
      <4>1. /\ IsClient(r) /\ r.cmd = "cli" /\ cl[c].cmd = "cli" /\ r.err = cl[c].err
            /\ cl'[c] = Settled(r) /\ store' = store /\ waived' = waived
        BY <1>1, <3>5 DEF Looked, apiVars, historyVars
      <4>2. /\ \A x \in ToSet(cl[c].todo) : PkgGone(x)
            /\ \A x \in ToSet(r.todo) : PkgGone(x)
        BY <2>3, <3>5, <4>1, LookedGone
      <4>3. \A x : PkgGone(x) => ~FnWrite(x) /\ x.op # "update"
        BY DEF PkgGone, FnWrite, ReadOnly
      <4>4. \A f : ~Mends(cl[c], f)
        BY <4>2, <4>3 DEF Mends
      <4>5. CliRight(r, store, waived)
        BY <2>3, <4>1, <4>2, <4>3, <4>4 DEF CliRight
      <4> QED BY <2>3, <4>1, <4>5, CliLands
    <3>6. ASSUME NEW k, NEW r, Planned(c, k, r) PROVE Lands(cl'[c], store', waived')
      <4>1. /\ IsClient(r) /\ r.cmd = "apply" /\ cl[c].cmd = "apply" /\ r.err = cl[c].err
            /\ cl'[c] = Settled(r) /\ store' = store /\ waived' = waived
            /\ r.by = cl[c].by /\ r.want = cl[c].want /\ r.del = cl[c].del
        BY <1>1, <3>6 DEF Planned, apiVars, historyVars
      <4>2. ApplyRight(r, store, waived)
        BY <2>3, <4>1 DEF ApplyRight
      <4>3. OnTrack(r, store)
        BY <2>3, <3>6, <4>1, PlannedTrack
      <4> QED BY <2>3, <4>1, <4>2, <4>3, ApplyLands
    <3>7. ASSUME NEW r, Waited(c, r) PROVE Lands(cl'[c], store', waived')
      <4>1. /\ cl[c].cmd = "wait" /\ cl'[c].cmd = "idle" /\ store' = store
            /\ waived' = waived
        BY <1>1, <3>7 DEF Waited, apiVars, historyVars
      <4> QED BY <2>3, <4>1 DEF Lands, Right
    <3> QED BY <1>2, <3>1, <3>2, <3>3, <3>4, <3>5, <3>6, <3>7 DEF ClientStep, Commenced
  <2>5. \A d \in Client : Right(cl'[d], store', waived')
    BY <2>2, <2>4 DEF Lands, Right
  <2> QED BY <2>4, <2>5 DEF Lands, Rights
<1>3. ASSUME NEW p, NEW st, Built(p, st) PROVE Rights'
  <2> SUFFICES ASSUME calm', whole' PROVE Rights'
    BY DEF Rights
  <2>1. cl' = cl /\ waived' = waived /\ calm /\ whole
        /\ \A c \in Client : cl[c].cmd \in {"idle", "wait"}
    BY <1>3 DEF Built, BuilderWrites, clientVars
  <2>2. VersionsCurrent(store', waived)
    BY <1>3, <2>1, BuiltCurrent DEF Rights
  <2>3. \A c \in Client : Right(cl'[c], store', waived')
    BY <2>1 DEF Right
  <2> QED BY <2>1, <2>2, <2>3 DEF Rights
<1>4. CASE UNCHANGED vars
  BY <1>4 DEF vars, apiVars, clientVars, historyVars, Rights
<1> QED BY <1>2, <1>3, <1>4 DEF Stepped

-----------------------------------------------------------------------------
(* The inductive invariant, beside Base and Converging.                    *)
Integrity == OneBusy /\ Routes /\ Forms /\ Kept /\ Rights

(* It holds in every cluster that one may begin with.                      *)
LEMMA IntegrityInit ==
    ASSUME ResourcesInit
    PROVE  Integrity
<1>1. /\ \A c \in Client : cl[c] = Idle /\ checked[c] = FALSE
      /\ waived = {} /\ store \in Stores
  BY DEF ResourcesInit
<1>2. RoutesUnique(store) /\ PackagesKept(store, waived) /\ VersionsCurrent(store, waived)
  BY <1>1, StoreAssumption
<1>3. Idle.cmd = "idle"
  BY DEF Idle
<1>4. OneBusy
  BY <1>1, <1>3 DEF OneBusy, Busy
<1>5. Routes
  BY <1>1, <1>2 DEF Routes
<1>6. Forms /\ Kept
  BY <1>1, <1>2, <1>3 DEF Forms, Kept
<1>7. Rights
  BY <1>1, <1>2, <1>3 DEF Rights, Right
<1> QED BY <1>4, <1>5, <1>6, <1>7 DEF Integrity

LEMMA IntegrityHolds == ResourcesSpec => []Integrity
<1>1. ResourcesInit => Integrity
  BY IntegrityInit
<1>2. Base /\ Base' /\ Converging /\ Integrity /\ [ResourcesNext]_vars => Integrity'
  BY NextSteps, OneBusyStep, RoutesStep, FormsStep, KeptStep, RightsStep DEF Integrity
<1> QED BY <1>1, <1>2, BaseHolds, ConvergingHolds, PTL DEF ResourcesSpec

(* SequentialIntegrity, for any number of clients, names and commands, any *)
(* specs and any cluster to begin with: commands that run one after the    *)
(* other keep routes apart and packages in place, and if none failed or    *)
(* left out a function they leave every function with the version that its *)
(* package has.                                                            *)
THEOREM SequentialIntegrityHolds == ResourcesSpec => []SequentialIntegrity
<1>1. Integrity => SequentialIntegrity
  BY DEF Integrity, Routes, Kept, Rights, SequentialIntegrity
<1> QED BY <1>1, IntegrityHolds, PTL

=============================================================================
