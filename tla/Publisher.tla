------------------------------ MODULE Publisher ------------------------------
(***************************************************************************)
(* The webhook publisher (pkg/publisher/webhookPublisher.go), used by the  *)
(* timer and the Kubernetes watcher: Publish puts an event into a buffered *)
(* channel, and waits while it is full; one goroutine posts the events to  *)
(* the router one after the other.  Any answer, whatever its status, ends  *)
(* an event; after a failed request the event is put into the channel      *)
(* again by a timer, behind what was published since, until its attempts   *)
(* are used up.                                                            *)
(***************************************************************************)
EXTENDS Integers, Sequences, FiniteSets

CONSTANTS MaxEvents, \* events published in a behaviour
          QueueSize, \* capacity of the channel, 32 in the code
          Attempts   \* maxRetries, 10 in the code

ASSUME PublisherAssumption ==
  MaxEvents \in Nat /\ QueueSize \in Nat \ {0} /\ Attempts \in Nat \ {0}

VARIABLES
  published, \* number of the last event published
  queue,     \* requestChannel
  posting,   \* the set of requests that svc is posting, at most one
  delayed,   \* requests whose timer has not put them back
  newest     \* the highest event posted so far

publisherVars == <<published, queue, posting, delayed, newest>>

Events == 1 .. MaxEvents
Requests == [event : Events, retries : 1 .. Attempts]

PublisherTypeOK ==
  /\ published \in 0 .. MaxEvents
  /\ queue \in Seq(Requests) /\ Len(queue) <= QueueSize
  /\ posting \in SUBSET Requests /\ Cardinality(posting) <= 1
  /\ delayed \in SUBSET Requests
  /\ newest \in 0 .. MaxEvents

PublisherInit ==
  /\ published = 0 /\ queue = << >>
  /\ posting = {} /\ delayed = {} /\ newest = 0

Request(e) == [event |-> e, retries |-> Attempts]

\* Mutant: Publish does not wait for room, a goroutine does.
PublishAside ==
  /\ published < MaxEvents
  /\ published' = published + 1
  /\ delayed' = delayed \union {Request(published + 1)}
  /\ UNCHANGED <<queue, posting, newest>>

\* Publish: the next event enters the channel when there is room for it.
Publish ==
  /\ published < MaxEvents /\ Len(queue) < QueueSize
  /\ published' = published + 1
  /\ queue' = Append(queue, Request(published + 1))
  /\ UNCHANGED <<posting, delayed, newest>>

\* svc takes the next request and makeHttpRequest posts it.
Post ==
  /\ posting = {} /\ queue # << >>
  /\ posting' = {Head(queue)} /\ queue' = Tail(queue)
  /\ newest' = IF Head(queue).event > newest THEN Head(queue).event ELSE newest
  /\ UNCHANGED <<published, delayed>>

\* The router answered and the body could be read.
Answer ==
  /\ posting # {}
  /\ posting' = {}
  /\ UNCHANGED <<published, queue, delayed, newest>>

\* The request failed: it is scheduled again, or given up without retries.
Retry ==
  /\ posting # {}
  /\ posting' = {}
  /\ delayed' = delayed \union {[r EXCEPT !.retries = @ - 1] :
                                 r \in {r \in posting : r.retries > 1}}
  /\ UNCHANGED <<published, queue, newest>>

\* The goroutine of time.AfterFunc puts a request back when there is room.
PutBack ==
  /\ Len(queue) < QueueSize
  /\ \E r \in delayed :
       /\ queue' = Append(queue, r) /\ delayed' = delayed \ {r}
       /\ UNCHANGED <<published, posting, newest>>

\* The process stops: what the publisher holds is lost.
LosePublisher ==
  /\ queue' = << >> /\ posting' = {} /\ delayed' = {}
  /\ UNCHANGED <<published, newest>>

\* The one goroutine that serves the channel and the timers run on; requests
\* have an answer or an error in the end.
PublisherFairness ==
  /\ WF_publisherVars(Post \/ Answer \/ Retry)
  /\ SF_publisherVars(PutBack)
==============================================================================
