----------------------------- MODULE Controller -----------------------------
(***************************************************************************)
(* The custom resources of the cluster as the controller's REST API and    *)
(* its Go client (pkg/controller/client/v1) expose them.                   *)
(*                                                                         *)
(* A resource has a kind and a name (everything is in one namespace).  Its *)
(* specification is abstracted to three fields, whatever its kind:         *)
(*   v   the content (for a function its execution strategy, for an HTTP   *)
(*       trigger its route, that is host, URL and method),                 *)
(*   to  the names it refers to (packages for a function, functions for a  *)
(*       trigger, HTTP triggers for a canary configuration),               *)
(*   at  the resource version of the package a function refers to.         *)
(* A call is a request of a client: [op, k, n, o], where o is the object   *)
(* sent, with the uid and the resource version its sender put in.          *)
(***************************************************************************)
EXTENDS Integers, FiniteSets, Sequences

CONSTANTS
    Name,       \* names of resources
    None,       \* no resource, no uid, no deployment
    Bad         \* a content that Validate refuses

VARIABLES
    store,      \* the resources: store[k][n] is an object or None
    version     \* the last resource version given to k, n

apiVars == <<store, version>>

Kind == {"env", "pkg", "fn", "http", "watch", "time", "mq", "canary"}

(* PackageStatus.BuildStatus; other kinds have none.                       *)
Status == {"none", "pending", "running", "succeeded", "failed"}

Objects(k) == {n \in Name : store[k][n] # None}

-----------------------------------------------------------------------------
(* Validate, in the client, before a request is sent.                      *)

(* ExecutionStrategy.Validate: the limits apply to deployments only.       *)
ValidStrategy(s) ==
    s.type = "newdeploy" => s.min >= 0 /\ s.max >= 1 /\ s.min <= s.max

(* FunctionSpec.Validate, InvokeStrategy.Validate and their references.    *)
ValidFunction(spec) == ValidStrategy(spec.v)

ValidPackage(spec) == spec.v # Bad

(* HTTPTriggerSpec.Validate: the method, the host and the ingress.         *)
ValidHTTPTrigger(spec) == spec.v # Bad

ValidWatch(spec) == spec.v # Bad

ValidTimeTrigger(spec) == spec.v # Bad

ValidMessageQueueTrigger(spec) == spec.v # Bad

(* EnvironmentSpec.Validate, which `environment create` calls itself: the  *)
(* client does not.                                                        *)
ValidEnvironment(spec) == spec.v # Bad

Writes(call) == call.op \in {"create", "update", "status"}

(* What each client of package v1 sends: the others are refused locally.   *)
FunctionClient(call) == Writes(call) => ValidFunction(call.o.spec)

PackageClient(call) == Writes(call) => ValidPackage(call.o.spec)

HTTPTriggerClient(call) == Writes(call) => ValidHTTPTrigger(call.o.spec)

TimeTriggerClient(call) == Writes(call) => ValidTimeTrigger(call.o.spec)

MessageQueueTriggerClient(call) ==
    Writes(call) => ValidMessageQueueTrigger(call.o.spec)

KubeWatcherClient(call) ==
    /\ call.op # "update"
    /\ Writes(call) => ValidWatch(call.o.spec)

EnvironmentClient(call) == call.op \in {"create", "update", "delete"}

CanaryConfigClient(call) == call.op \in {"create", "update", "status", "delete"}

(* V1: the client of a kind.                                               *)
Sends(call) ==
    CASE call.k = "fn"     -> FunctionClient(call)
      [] call.k = "pkg"    -> PackageClient(call)
      [] call.k = "http"   -> HTTPTriggerClient(call)
      [] call.k = "time"   -> TimeTriggerClient(call)
      [] call.k = "mq"     -> MessageQueueTriggerClient(call)
      [] call.k = "watch"  -> KubeWatcherClient(call)
      [] call.k = "env"    -> EnvironmentClient(call)
      [] call.k = "canary" -> CanaryConfigClient(call)

-----------------------------------------------------------------------------
(* The Kubernetes API server: names are unique, and an update must name    *)
(* the resource version that is stored.                                    *)
Accepts(call) ==
    LET s == store[call.k][call.n]
    IN  CASE call.op = "create" -> s = None
          [] call.op = "delete" -> s # None
          [] OTHER              -> s # None /\ call.o.rv = s.rv

Write(call) ==
    LET k == call.k
        n == call.n
        rv == version[k][n] + 1
        uid == IF call.op = "create" THEN <<n, rv>> ELSE store[k][n].uid
    IN  IF call.op = "delete"
          THEN /\ store' = [store EXCEPT ![k][n] = None]
               /\ UNCHANGED version
          ELSE /\ store' = [store EXCEPT ![k][n] =
                               [call.o EXCEPT !.rv = rv, !.uid = uid]]
               /\ version' = [version EXCEPT ![k][n] = rv]

-----------------------------------------------------------------------------
(* The handlers of the controller.  A call has one name, so the one in the *)
(* URL of an update is that of the object.                                 *)

Routed(call) == call.op \in {"create", "update", "delete"}

(* Packages and canary configurations have a route for their status too.   *)
RoutedStatus(call) == Routed(call) \/ call.op = "status"

FunctionApi(call) == Routed(call) /\ Accepts(call)

EnvironmentApi(call) == Routed(call) /\ Accepts(call)

MessageQueueTriggerApi(call) == Routed(call) /\ Accepts(call)

(* Literals are small: the commands upload larger files to the storage.    *)
PackageApi(call) == RoutedStatus(call) /\ Accepts(call)

TimeTriggerApi(call) ==
    /\ Routed(call)
    /\ call.op \in {"create", "update"} => call.o.spec.v # Bad    \* cron.Parse
    /\ Accepts(call)

(* WatchApiUpdate is not implemented.                                      *)
WatchApi(call) == Routed(call) /\ call.op # "update" /\ Accepts(call)

(* The canary feature is enabled.                                          *)
CanaryConfigApi(call) == RoutedStatus(call) /\ Accepts(call)

HTTPTriggerApi(call) == Routed(call) /\ Accepts(call)

(* checkHTTPTriggerDuplicates: the list of triggers is read before the     *)
(* request to the API server, and is a step of its own in Commands.        *)
Duplicates(call) ==
    {n \in Objects("http") :
        /\ store["http"][n].uid # call.o.uid
        /\ store["http"][n].spec.v = call.o.spec.v}

ChecksNew(call) == call.k = "http" /\ call.op = "create"

NeedsDuplicateCheck(call) == call.k = "http" /\ call.op \in {"create", "update"}

(* GetHandler: the handler of a kind.                                      *)
Handles(call) ==
    CASE call.k = "fn"     -> FunctionApi(call)
      [] call.k = "pkg"    -> PackageApi(call)
      [] call.k = "http"   -> HTTPTriggerApi(call)
      [] call.k = "time"   -> TimeTriggerApi(call)
      [] call.k = "mq"     -> MessageQueueTriggerApi(call)
      [] call.k = "watch"  -> WatchApi(call)
      [] call.k = "env"    -> EnvironmentApi(call)
      [] call.k = "canary" -> CanaryConfigApi(call)

=============================================================================
