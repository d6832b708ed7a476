----------------------------- MODULE EnvWatcher ------------------------------
(***************************************************************************)
(* The environment watcher of the builder manager (pkg/buildermgr/         *)
(* envwatcher.go): for every version of an environment that has a builder  *)
(* image it keeps a builder, which is a service and a deployment.  One     *)
(* goroutine watches environments and, at every event, lists them all,     *)
(* asks for a builder of each and asks for the removal of all others.      *)
(* Another goroutine serves these requests; nobody waits for the end of a  *)
(* removal.  The trigger of TriggerList is the environment here.           *)
(***************************************************************************)
EXTENDS TriggerList

VARIABLES
  at,          \* where watchEnvironments is, "off" if this process does not run
  rv,          \* its rv, 0 standing for the empty string
  pos,         \* the version up to which the watch has delivered events
  plain,       \* versions of the environment without a builder image
  serving,     \* what the service goroutine does
  keep,        \* the versions in its CLEANUP_BUILDERS request
  builders,    \* its cache: versions that have a builder
  services,    \* versions with a builder service in Kubernetes
  deployments, \* versions with a builder deployment in Kubernetes
  missed       \* a call of the last round failed, or there was none to begin with

watchEnvVars == <<at, rv, pos, plain>>
builderVars == <<serving, keep, builders, services, deployments, missed>>
envVars == <<listVars, watchEnvVars, builderVars>>

Versions == 1 .. MaxChanges + 1

BuilderTypeOK ==
  /\ at \in {"off", "watch", "wait", "list", "get", "clean"}
  /\ rv \in 0 .. MaxChanges + 1 /\ pos \in 0 .. MaxChanges + 1
  /\ plain \in SUBSET Varied
  /\ serving \in {"idle", "deployment", "services", "deployments"}
  /\ keep \in SUBSET Versions /\ builders \in SUBSET Versions
  /\ services \in SUBSET Versions /\ deployments \in SUBSET Versions
  /\ missed \in BOOLEAN

EnvTypeOK == ListTypeOK /\ BuilderTypeOK

EnvInit ==
  /\ ListInit
  /\ at \in {"off", "watch"} /\ rv = 0 /\ pos = 0
  /\ plain \in SUBSET Varied
  /\ serving = "idle" /\ keep = {} /\ builders = {}
  /\ services = {} /\ deployments = {} /\ missed = FALSE

------------------------------------------------------------------------------
\* The watch begins after rv, or from the start: then there is an event for
\* every environment that exists, and none if there is no environment.
WatchBegins ==
  /\ at = "watch" /\ at' = "wait"
  /\ pos' = IF rv > 0 THEN rv ELSE IF trigger = {} THEN changes + 1 ELSE changes
  /\ missed' = (missed \/ (rv = 0 /\ trigger = {}))
  /\ UNCHANGED <<listVars, rv, plain, serving, keep, builders, services, deployments>>

\* Any event starts a round of sync.
EnvironmentEvent ==
  /\ at = "wait" /\ pos < changes + 1 /\ at' = "list"
  /\ pos' = pos + 1 /\ rv' = pos + 1
  /\ UNCHANGED <<listVars, plain, builderVars>>

\* The server closes the watch, which is restarted from rv; after an error it
\* is restarted from the start.
WatchEnds ==
  /\ at = "wait" /\ at' = "watch"
  /\ \/ UNCHANGED <<faults, rv>>
     \/ Fault /\ rv' = 0
  /\ UNCHANGED <<trigger, changes, listed, pos, plain, builderVars>>

\* sync lists the environments; it tries again after a network error, and ends
\* after ten of them (one failure here stands for one or for ten).
SyncLists ==
  /\ at = "list"
  /\ \/ /\ listed' = trigger /\ at' = "get" /\ missed' = FALSE /\ NoFault
     \/ /\ Fault /\ UNCHANGED <<listed, missed>> /\ UNCHANGED at
     \/ /\ Fault /\ UNCHANGED listed /\ at' = "wait" /\ missed' = TRUE
  /\ UNCHANGED <<trigger, changes, rv, pos, plain, serving, keep, builders, services,
                 deployments>>

ListedVersions == {t.rv : t \in listed}

\* The objects of a builder are named after the environment and its version.
CreateBuilderService(versions) == services' = services \union versions
CreateBuilderDeployment(versions) == deployments' = deployments \union versions

\* GET_BUILDER: a cached builder is taken as it is; otherwise createBuilder looks
\* for the service and creates it.  Without environment or builder image, or
\* after an error, the round goes on.
GetBuilder ==
  /\ at = "get" /\ serving = "idle"
  /\ LET wanted == ListedVersions \ (plain \union builders) IN
     \/ /\ wanted = {} /\ at' = "clean"
        /\ UNCHANGED <<faults, serving, services, missed>>
     \/ /\ wanted # {} /\ CreateBuilderService(wanted)
        /\ serving' = "deployment" /\ UNCHANGED <<faults, at, missed>>
     \/ /\ wanted # {} /\ Fault /\ at' = "clean" /\ missed' = TRUE
        /\ UNCHANGED <<serving, services>>
  /\ UNCHANGED <<trigger, changes, listed, rv, pos, plain, keep, builders, deployments>>

\* createBuilder goes on with the deployment, and the cache gets the builder.
CreateDeployment ==
  /\ serving = "deployment" /\ serving' = "idle" /\ at' = "clean"
  /\ \/ /\ CreateBuilderDeployment(ListedVersions)
        /\ builders' = builders \union ListedVersions /\ UNCHANGED <<faults, missed>>
     \/ Fault /\ missed' = TRUE /\ UNCHANGED <<deployments, builders>>
  /\ UNCHANGED <<trigger, changes, listed, rv, pos, plain, keep, services>>

\* The request CLEANUP_BUILDERS with the list is received; sync does not wait.
SendCleanup ==
  /\ at = "clean" /\ serving = "idle"
  /\ at' = "wait" /\ serving' = "services" /\ keep' = ListedVersions
  /\ UNCHANGED <<listVars, rv, pos, plain, builders, services, deployments, missed>>

\* One loop of CLEANUP_BUILDERS over the objects found: those that are not to be
\* kept are deleted, unless the call fails, and the cache forgets all of them.
\* If they cannot be listed nothing happens.  (Nobody else reads or writes the
\* objects, so that a loop is one step.)
Cleaned(objects, left) ==
  \/ /\ left = objects \intersect keep
     /\ builders' = builders \ objects /\ UNCHANGED <<faults, missed>>
  \/ /\ left # objects \intersect keep /\ objects \intersect keep \subseteq left
     /\ builders' = builders \ objects /\ Fault /\ missed' = TRUE
  \/ /\ left = objects /\ UNCHANGED builders /\ Fault /\ missed' = TRUE

CleanupServices ==
  /\ serving = "services" /\ serving' = "deployments"
  /\ \E left \in SUBSET services : Cleaned(services, left) /\ services' = left
  /\ UNCHANGED <<trigger, changes, listed, watchEnvVars, keep, deployments>>

CleanupDeployments ==
  /\ serving = "deployments" /\ serving' = "idle"
  /\ \E left \in SUBSET deployments : Cleaned(deployments, left) /\ deployments' = left
  /\ UNCHANGED <<trigger, changes, listed, watchEnvVars, keep, services>>

\* The manager stops, at a fatal error for example, and starts anew.
EnvRestart ==
  /\ Fault
  /\ at' = "watch" /\ rv' = 0 /\ pos' = 0 /\ listed' = {}
  /\ serving' = "idle" /\ keep' = {} /\ builders' = {}
  /\ UNCHANGED <<trigger, changes, plain, services, deployments, missed>>

EnvChange == Change /\ UNCHANGED <<watchEnvVars, builderVars>>

WatchStep == WatchBegins \/ WatchEnds \/ SyncLists \/ SendCleanup
ServiceStep == GetBuilder \/ CreateDeployment \/ CleanupServices \/ CleanupDeployments

EnvNext == WatchStep \/ EnvironmentEvent \/ ServiceStep \/ EnvRestart \/ EnvChange

\* Both goroutines run on, and the server sends events sooner or later.
EnvFairness ==
  /\ WF_envVars(WatchStep) /\ WF_envVars(ServiceStep)
  /\ SF_envVars(EnvironmentEvent)

\* The builders are those of the present version of the environment.
BuildersFollow ==
  LET wanted == {t.rv : t \in trigger} \ plain
  IN  services = wanted /\ deployments = wanted
==============================================================================
