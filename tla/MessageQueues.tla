---------------------------- MODULE MessageQueues ----------------------------
(***************************************************************************)
(* The message queue trigger manager (pkg/mqtrigger/mqtmanager.go) and the *)
(* three message queues it runs with (NATS streaming, Kafka and Azure      *)
(* queue storage; one process has one of them).  The manager subscribes    *)
(* new triggers and then unsubscribes old ones.  A delivered message is    *)
(* posted to the function until the answer is good or the retries are used *)
(* up, and then acknowledged, marked, deleted or left, as the queue has    *)
(* it.  Brokers are modelled as the adapters use them: what is not         *)
(* acknowledged is delivered again.                                        *)
(***************************************************************************)
EXTENDS TriggerList

CONSTANTS Queues,        \* of "nats", "kafka" and "azure"
          NumMessages,   \* messages in the topic, in this order
          Retries,       \* MaxRetries of the trigger, AzureQueueRetryLimit
          MaxDeliveries  \* deliveries, the repeated ones included

ASSUME QueueAssumption ==
  /\ Queues \subseteq {"nats", "kafka", "azure"}
  /\ NumMessages \in Nat /\ Retries \in Nat /\ MaxDeliveries \in Nat

VARIABLES
  kind,       \* the queue of this process, or "none" when it does not run
  other,      \* versions of the trigger that name another queue type
  pc,         \* where syncTriggers is
  todo,       \* the triggers that its present loop has still to look at
  current,    \* manager's map: triggers with a subscription, by key
  handlers,   \* goroutines and callbacks that handle a message
  deliveries, \* how many messages were delivered
  taken,      \* messages that the present consumers have been given (Kafka)
  gone,       \* messages that the broker will not deliver again
  good,       \* messages that the function answered with success
  exhausted   \* messages that ran out of attempts on an Azure queue

queueVars == <<handlers, deliveries, taken, gone, good, exhausted>>
mqVars == <<listVars, kind, other, pc, todo, current, queueVars>>

Messages == 1 .. NumMessages

\* tries: attempts made.  ok: the last one had a good answer.  (Errors and bad
\* answers differ in what is reported to the error topic, which the manager
\* never reads.)
Handlers == [message : Messages, sub : Keys, tries : 0 .. Retries + 1, ok : BOOLEAN]

QueueTypeOK ==
  /\ kind \in Queues \union {"none"} /\ other \in SUBSET Varied
  /\ pc \in {"off", "list", "subscribe", "unsubscribe", "drain"}
  /\ todo \in SUBSET Keys /\ current \in SUBSET Keys
  /\ handlers \in SUBSET Handlers
  /\ deliveries \in 0 .. MaxDeliveries
  /\ taken \in SUBSET Messages /\ gone \in SUBSET Messages
  /\ good \in SUBSET Messages /\ exhausted \in SUBSET Messages

MQTypeOK == ListTypeOK /\ QueueTypeOK

MQInit ==
  /\ ListInit
  /\ kind \in Queues \union {"none"} /\ other \in SUBSET Varied
  /\ pc = IF kind = "none" THEN "off" ELSE "list"
  /\ todo = {} /\ current = {} /\ handlers = {}
  /\ deliveries = 0
  /\ taken = {} /\ gone = {} /\ good = {} /\ exhausted = {}

------------------------------------------------------------------------------
\* A trigger is of this process's queue type.
OwnType(t) == t.rv \notin other

\* syncTriggers lists the triggers, retries after a network error, and keeps
\* those of its own type.
ListTriggers ==
  /\ pc = "list"
  /\ \E failed \in BOOLEAN :
       LET own == {t \in trigger : OwnType(t)} IN
       /\ Fails(failed)
       /\ IF failed THEN UNCHANGED <<listed, todo, pc>>
          ELSE listed' = own /\ todo' = own \ current /\ pc' = "subscribe"
  /\ UNCHANGED <<trigger, changes, kind, other, current, queueVars>>

\* The streaming server refuses a second subscription under a durable name,
\* which is the trigger's UID.
DurableTaken(t) == kind = "nats" /\ \E s \in current : s.uid = t.uid

\* A new consumer of the group (its name is the UID) or the end of one makes
\* Kafka hand out the messages after the committed offset again.
Rebalance == taken' = {}

\* Subscribe and addTrigger; after an error the trigger is tried next round.
Subscribe ==
  /\ pc = "subscribe"
  /\ \E t \in todo :
       /\ todo' = todo \ {t}
       /\ \/ ~DurableTaken(t) /\ NoFault /\ current' = current \union {t} /\ Rebalance
          \/ DurableTaken(t) /\ UNCHANGED <<faults, current, taken>>
          \/ Fault /\ UNCHANGED <<current, taken>>
  /\ UNCHANGED <<trigger, changes, listed, kind, other, pc, handlers, deliveries,
                 gone, good, exhausted>>

\* Where the second loop is when it has still these triggers to look at; the
\* round ends with it, and the next one begins three seconds later.
Second(triggers) == IF triggers = {} THEN "list" ELSE "unsubscribe"

\* Mutant: the old triggers are looked up by UID.
Old(t) == \A n \in listed : n.uid # t.uid

SubscribedByUid ==
  /\ pc = "subscribe" /\ todo = {}
  /\ todo' = {t \in current \ listed : Old(t)} /\ pc' = Second({t \in current \ listed : Old(t)})
  /\ UNCHANGED <<listVars, kind, other, current, queueVars>>

Subscribed ==
  /\ pc = "subscribe" /\ todo = {}
  /\ todo' = current \ listed /\ pc' = Second(current \ listed)
  /\ UNCHANGED <<listVars, kind, other, current, queueVars>>

\* Unsubscribe closes the subscription and delTrigger forgets it; on an error
\* it stays.  On an Azure queue the poller is told to end and waited for.
Unsubscribe ==
  /\ pc = "unsubscribe"
  /\ \E t \in todo :
       IF kind = "azure"
       THEN /\ pc' = "drain"
            /\ UNCHANGED <<faults, todo, current, taken>>
       ELSE /\ todo' = todo \ {t} /\ pc' = Second(todo \ {t})
            /\ \/ NoFault /\ current' = current \ {t} /\ Rebalance
               \/ Fault /\ UNCHANGED <<current, taken>>
  /\ UNCHANGED <<trigger, changes, listed, kind, other, handlers, deliveries,
                 gone, good, exhausted>>

\* Mutant: the poller ends without waiting for its goroutines.
DrainAtOnce ==
  /\ pc = "drain"
  /\ \E t \in todo : /\ todo' = todo \ {t} /\ current' = current \ {t}
                     /\ pc' = Second(todo \ {t})
  /\ UNCHANGED <<listVars, kind, other, queueVars>>

\* The poller waits for its goroutines before it reports that it is done.
Drain ==
  /\ pc = "drain"
  /\ \E t \in todo :
       /\ \A h \in handlers : h.sub # t
       /\ todo' = todo \ {t} /\ current' = current \ {t}
       /\ pc' = Second(todo \ {t})
  /\ UNCHANGED <<listVars, kind, other, queueVars>>

------------------------------------------------------------------------------
\* NATS calls back for one message at a time, and repeats what is not
\* acknowledged in time.
NatsDelivers(m, s) == \A h \in handlers : h.sub # s

\* The goroutine that Subscribe starts for a consumer goes through the messages
\* in order and starts a goroutine for each.
KafkaDelivers(m, s) == m \notin taken /\ 1 .. m - 1 \subseteq taken \union gone

\* The poller takes what is visible, until it is told to end.  A message is
\* visible again after a minute, even while it is handled.
AzureDelivers(m, s) == ~(pc = "drain" /\ s \in todo)

Deliverable(m, s) ==
  /\ m \notin gone /\ deliveries < MaxDeliveries
  /\ \/ kind = "nats" /\ NatsDelivers(m, s)
     \/ kind = "kafka" /\ KafkaDelivers(m, s)
     \/ kind = "azure" /\ AzureDelivers(m, s)

Deliver ==
  /\ current # {}
  /\ \E m \in Messages, s \in current :
       /\ Deliverable(m, s)
       /\ deliveries' = deliveries + 1
       /\ taken' = taken \union {m}
       /\ handlers' = handlers \union {[message |-> m, sub |-> s, tries |-> 0, ok |-> FALSE]}
  /\ UNCHANGED <<listVars, kind, other, pc, todo, current, gone, good, exhausted>>

\* One pass of the loop that posts the message: a good answer ends the loop, an
\* error or an answer with another status does not.
Attempt ==
  /\ handlers # {}
  /\ \E h \in handlers, ok \in BOOLEAN :
       /\ h.tries <= Retries /\ ~h.ok
       /\ handlers' = (handlers \ {h}) \union {[h EXCEPT !.tries = @ + 1, !.ok = ok]}
       /\ good' = IF ok THEN good \union {h.message} ELSE good
  /\ UNCHANGED <<listVars, kind, other, pc, todo, current, deliveries, taken, gone, exhausted>>

LoopEnded(h) == h.ok \/ h.tries = Retries + 1

\* What the broker forgets when a handler ends.  broken: the answer could not
\* be read (NATS), or its response could not be published (Kafka).  lost: the
\* acknowledgement does not reach the broker.

\* Mutant: the message is acknowledged whatever the answer is.
NatsAcksAll(h, broken, lost) ==
  IF ~lost /\ h.sub \in current THEN {h.message} ELSE {}

\* msgHandler: only a good answer is acknowledged, through the subscription.
\* Other answers are published to the error topic, errors are logged.
NatsForgets(h, broken, lost) ==
  IF h.ok /\ ~broken /\ ~lost /\ h.sub \in current THEN {h.message} ELSE {}

\* kafkaMsgHandler: a good answer whose response was published is marked, and
\* with it everything before it.  A consumer that is closed marks nothing.
KafkaForgets(h, broken, lost) ==
  IF h.ok /\ ~broken /\ ~lost /\ h.sub \in current
  THEN 1 .. h.message ELSE {}

\* invokeTriggeredFunction deletes the message in any case.  One that ran out of
\* attempts is put into the poison queue before, if that succeeds (nothing reads
\* that queue); a response that cannot be written to the output queue is lost.
AzureForgets(h, broken, lost) == IF lost THEN {} ELSE {h.message}

Forgets(h, broken, lost) ==
  CASE kind = "nats" -> NatsForgets(h, broken, lost)
    [] kind = "kafka" -> KafkaForgets(h, broken, lost)
    [] kind = "azure" -> AzureForgets(h, broken, lost)

\* The handler reports its outcome and ends.
Finish ==
  /\ handlers # {}
  /\ \E h \in handlers, broken, lost \in BOOLEAN :
       /\ LoopEnded(h)
       /\ handlers' = handlers \ {h}
       /\ gone' = gone \union Forgets(h, broken, lost)
       /\ exhausted' = IF kind = "azure" /\ ~h.ok
                      THEN exhausted \union {h.message} ELSE exhausted
  /\ UNCHANGED <<listVars, kind, other, pc, todo, current, deliveries, taken, good>>

\* A fatal error, or a lost connection to the streaming server, ends the
\* process; the next one starts without subscriptions and handlers.
Restart ==
  /\ Fault
  /\ pc' = "list" /\ todo' = {} /\ current' = {} /\ handlers' = {} /\ listed' = {}
  /\ Rebalance
  /\ UNCHANGED <<trigger, changes, kind, other, deliveries, gone, good, exhausted>>

SyncTriggers ==
  ListTriggers \/ Subscribe \/ Subscribed \/ Unsubscribe \/ Drain

Handle == Attempt \/ Finish

MQChange == Change /\ UNCHANGED <<kind, other, pc, todo, current, queueVars>>

MQNext == SyncTriggers \/ Deliver \/ Handle \/ Restart \/ MQChange

\* The manager's loop runs on, and handlers end: requests have a time-out.
MQFairness == WF_mqVars(SyncTriggers) /\ WF_mqVars(Handle)

\* The subscriptions are those of the trigger that exists.
Follows == current = {t \in trigger : OwnType(t)}
==============================================================================
