------------------------------ MODULE MCEvents -------------------------------
(***************************************************************************)
(* The message queue trigger manager, the timer, the Kubernetes watcher    *)
(* and the environment watcher are processes that share nothing but the    *)
(* API server: a behaviour is about one of them, and the others stay as    *)
(* they are.                                                               *)
(***************************************************************************)
EXTENDS EventSources, MessageQueues, EnvWatcher

mcVars == <<sourceVars, mqVars, envVars>>

sourceOnly == <<publisherVars, source, phase, timerVars, watchVars>>
mqOnly == <<kind, other, pc, todo, current, queueVars>>
envOnly == <<watchEnvVars, builderVars>>

Init ==
  /\ SourceInit /\ MQInit /\ EnvInit
  /\ \/ source # "none" /\ kind = "none" /\ at = "off"
     \/ source = "none" /\ kind # "none" /\ at = "off"
     \/ source = "none" /\ kind = "none" /\ at # "off"
  /\ (kind = "none" => other = {}) /\ (at = "off" => plain = {})

Next ==
  \/ source # "none" /\ SourceNext /\ UNCHANGED <<mqOnly, envOnly>>
  \/ kind # "none" /\ MQNext /\ UNCHANGED <<sourceOnly, envOnly>>
  \/ at # "off" /\ EnvNext /\ UNCHANGED <<sourceOnly, mqOnly>>

Safety == Init /\ [][Next]_mcVars

Spec == Safety /\ SourceFairness /\ MQFairness /\ EnvFairness

TypeOK == SourceTypeOK /\ MQTypeOK /\ EnvTypeOK

\* A message that its broker will not deliver again (msg.Ack, MarkOffset and
\* message.Delete in the handlers) was answered well by the function, or ran
\* out of attempts on an Azure queue (the code then tries to write it to the
\* poison queue), or precedes a message of its Kafka partition that was
\* answered well.
HandledBeforeGone ==
  \A m \in gone :
    \/ m \in good
    \/ kind = "azure" /\ m \in exhausted
    \/ kind = "kafka" /\ \E n \in good : m < n

\* What was stopped stays quiet: after a round of syncCron only crons of listed
\* triggers run; a subscription of an Azure queue that is closed has no handler
\* left; a watch that was removed publishes at most one more event, also when
\* removeWatch stopped another watch than the one the loop reads.
StoppedIsQuiet ==
  /\ source = "timer" /\ phase = "list" => crons \subseteq listed
  /\ kind = "azure" => \A h \in handlers : h.sub \in current
  /\ \A u \in Uids : late[u] <= 1

\* Events are posted for the first time in the order in which they were
\* published, as Publish promises; only their repetitions are late.
FirstAttemptsInOrder ==
  \A i \in 1 .. Len(queue) : queue[i].retries = Attempts => queue[i].event > newest

\* When users stop making changes and calls stop failing, the processes run what
\* the trigger says: the manager's subscriptions and the crons are those of its
\* present version, the dispatch loops those of its UID, and every event that
\* was published has been answered or given up.  The builders are those of the
\* present environment, unless a call of the last round of sync failed or the
\* watch began anew when there was no environment.
SourcesSettle ==
  <>[](/\ kind # "none" => Follows
       /\ source = "timer" => crons = trigger
       /\ source = "watcher" =>
            {u \in Uids : subs[u].loop \notin {"none", "ended"}} = {t.uid : t \in trigger}
       /\ queue = << >> /\ posting = {} /\ delayed = {} /\ jobs = {}
       /\ at # "off" => BuildersFollow \/ missed)
==============================================================================
