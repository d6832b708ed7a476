------------------------------ MODULE Commands ------------------------------
(***************************************************************************)
(* The command line: every client runs one command after the other against *)
(* the controller, and the commands of several clients interleave.         *)
(*                                                                         *)
(* A command reads what it needs in its first step (`complete`) and then   *)
(* makes its calls one at a time (`run`); the calls that are left are the  *)
(* client's todo.  A command that is refused by its first reads changes    *)
(* nothing and is not a step.  SpecApply adds `spec apply`.                *)
(***************************************************************************)
EXTENDS Controller, SequencesExt

CONSTANTS
    Client,
    FirstClient,    \* the client of the first command: all are alike
    Route,          \* contents of HTTP triggers
    AnyRoute,       \* the one that `function create` is given
    First,          \* the name used for kinds that need one name only
    MaxCommands

ASSUME NameAssumption == First \in Name /\ AnyRoute \in Route /\ FirstClient \in Client

VARIABLES
    cl,             \* the state of each client
    checked,        \* the controller found no duplicate for the client's call
    last,           \* how the last command of a client ended
    commands,       \* number of commands begun
    fresh,          \* nobody else wrote since the client's command began
    calm,           \* no two commands overlapped
    whole,          \* no command failed, or left out a function
    waived          \* packages deleted on purpose while functions may use them

clientVars == <<cl, checked, last, commands>>
historyVars == <<fresh, calm, whole, waived>>
vars == <<apiVars, clientVars, historyVars>>

Content(v, to, at) == [v |-> v, to |-> to, at |-> at]

Obj(spec, status) ==
    [uid |-> None, rv |-> 0, by |-> None, spec |-> spec, status |-> status]

Call(op, k, n, o) == [op |-> op, k |-> k, n |-> n, o |-> o, lax |-> FALSE]

(* A call whose failure is collected while its siblings go on.             *)
Lax(call) == [call EXCEPT !.lax = TRUE]

(* meta: the resource versions of the packages a command wrote or kept.    *)
Idle == [cmd |-> "idle", todo |-> <<>>, err |-> FALSE, kinds |-> <<>>,
         by |-> None, want |-> {}, del |-> FALSE, wait |-> FALSE,
         force |-> FALSE,
         meta |-> [n \in Name |-> 0]]

Busy(c) == cl[c].cmd # "idle"

Free(c) ==
    /\ ~Busy(c) /\ commands < MaxCommands
    /\ commands = 0 => c = FirstClient

Get(k, n) == store[k][n]

Exists(k, n) == store[k][n] # None

(* The names that a plan has for a kind.                                   *)
Names(plan, k) == {i.n : i \in {j \in plan : j.k = k}}

(* An apply without --delete passes over functions that are not in its     *)
(* plan any more.                                                          *)
LeavesOut(s) ==
    /\ s.cmd = "apply" /\ ~s.del
    /\ \E f \in Objects("fn") : Get("fn", f).by = s.by /\ f \notin Names(s.want, "fn")

(* A command begins with the calls that its first reads led to.            *)
Begin(c, state) ==
    /\ cl' = [cl EXCEPT ![c] = state]
    /\ commands' = commands + 1
    /\ last' = [last EXCEPT ![c] = "none"]
    /\ fresh' = [fresh EXCEPT ![c] = TRUE]
    /\ calm' = (calm /\ \A d \in Client : ~Busy(d))
    /\ whole' = (whole /\ ~LeavesOut(state))
    /\ UNCHANGED <<apiVars, checked, waived>>

RunForced(c, todo, force) ==
    /\ todo # <<>>
    /\ Begin(c, [Idle EXCEPT !.cmd = "cli", !.todo = todo, !.force = force])

Run(c, todo) == RunForced(c, todo, FALSE)

Create(k, n, spec) == Call("create", k, n, Obj(spec, "none"))

Update(k, n, spec) == Call("update", k, n, [Get(k, n) EXCEPT !.spec = spec])

Delete(k, n) == Call("delete", k, n, None)

(* GetFunctionsByPackage                                                   *)
FunctionsByPackage(p) == {f \in Objects("fn") : Get("fn", f).spec.to = {p}}

-----------------------------------------------------------------------------
(* Execution strategies of `function create` and `function update`; a      *)
(* minimum or a maximum that is not given is None.                         *)

Strategy(type, min, max) == [type |-> type, min |-> min, max |-> max]

Pool == Strategy("poolmgr", 0, 0)

Flags == {[type |-> "poolmgr", min |-> None, max |-> None],
          [type |-> "newdeploy", min |-> -1, max |-> None],
          [type |-> "newdeploy", min |-> 2, max |-> None]}

(* getExecutionStrategy: the set has no member when it returns an error.   *)
GetExecutionStrategy(f) ==
    LET min == IF f.min = None THEN 1 ELSE f.min
        max == IF f.max = None THEN min ELSE f.max
    IN  IF f.type = "poolmgr"
          THEN IF f.min = None /\ f.max = None THEN {Pool} ELSE {}
          ELSE IF (f.max # None /\ max <= 0) \/ min > max THEN {}
               ELSE {Strategy("newdeploy", min, max)}

(* updateExecutionStrategy                                                 *)
UpdateExecutionStrategy(f, old) ==
    LET base == IF old.type = "newdeploy" THEN old ELSE Strategy("newdeploy", 1, 1)
        min == IF f.min = None THEN base.min ELSE f.min
        max == IF f.max # None THEN f.max
               ELSE IF base.max <= 0 THEN 1 ELSE base.max
    IN  IF f.type = "poolmgr"
          THEN IF f.min = None /\ f.max = None THEN {Pool} ELSE {}
          ELSE IF (f.max # None /\ max <= 0) \/ min > max THEN {}
               ELSE {Strategy("newdeploy", min, max)}

-----------------------------------------------------------------------------
(* Packages.  Content 1 is a deployment archive, 2 a source archive.       *)

Archive == {1, 2}

(* CreatePackage                                                           *)
CreatePackage(p, v) ==
    Call("create", "pkg", p,
         Obj(Content(v, {}, 0), IF v = 2 THEN "pending" ELSE "succeeded"))

(* UpdatePackage: nothing is sent when nothing was given.                  *)
UpdatePackage(p, v) ==
    IF v = None THEN <<>>
    ELSE <<Call("update", "pkg", p,
             [Get("pkg", p) EXCEPT !.spec.v = v,
                                   !.status = IF v = 2 THEN "pending" ELSE @])>>

(* UpdateFunctionPackageResourceVersion: the version is the one the client *)
(* has just been given for the package.                                    *)
UpdateFunctionPackageResourceVersion(fns) ==
    SetToSeq({Lax(Update("fn", f, Get("fn", f).spec)) : f \in fns})

PackageCreate(c) ==
    /\ Free(c)
    /\ \E p \in Name, v \in Archive : Run(c, <<CreatePackage(p, v)>>)

PackageUpdate(c) ==
    /\ Free(c)
    /\ \E p \in Objects("pkg"), v \in Archive, force \in BOOLEAN :
           /\ force \/ Cardinality(FunctionsByPackage(p)) <= 1
           /\ Run(c, UpdatePackage(p, v)
                     \o UpdateFunctionPackageResourceVersion(FunctionsByPackage(p)))

PackageDelete(c) ==
    /\ Free(c)
    /\ \E p \in Objects("pkg"), force \in BOOLEAN :
           /\ force \/ FunctionsByPackage(p) = {}
           /\ RunForced(c, <<Delete("pkg", p)>>, force)

(* deleteOrphanPkgs: each package that was listed is looked at again.      *)
DeleteOrphanPkgs(c) ==
    /\ Free(c)
    /\ Run(c, SetToSeq({Call("orphan", "pkg", p, None) : p \in Objects("pkg")}))

PackageRebuild(c) ==
    /\ Free(c)
    /\ \E p \in Objects("pkg") :
           /\ Get("pkg", p).status = "failed"
           /\ Run(c, <<Call("status", "pkg", p,
                           [Get("pkg", p) EXCEPT !.status = "pending"])>>)

-----------------------------------------------------------------------------
(* Functions.  A package made by `function create` gets the function's     *)
(* name, and so does its HTTP trigger.                                     *)

(* The function object that complete builds; a version of 0 is the one     *)
(* that the package gets when it is created.                               *)
FunctionSpec(s, p, at) == Content(s, {p}, at)

(* getInvokeStrategy, for a new function and for an existing one.          *)
InvokeStrategies(f, old) ==
    IF old = None THEN GetExecutionStrategy(f)
    ELSE UpdateExecutionStrategy(f, old.v)

(* CreateSubCommand.run: the function, and a trigger if a URL was given.   *)
CreateFunction(n, spec, routes) ==
    <<Create("fn", n, spec)>>
    \o SetToSeq({Create("http", n, Content(r, {n}, 0)) : r \in routes})

FunctionCreate(c) ==
    /\ Free(c)
    /\ \E n \in Name, f \in Flags, routes \in {{}, {AnyRoute}} :
           /\ ~Exists("fn", n)
           /\ \E s \in InvokeStrategies(f, None) :
                 \/ \E p \in Objects("pkg") :
                       Run(c, CreateFunction(n, FunctionSpec(s, p, Get("pkg", p).rv),
                                             routes))
                 \/ \E v \in Archive :
                       Run(c, <<CreatePackage(n, v)>>
                              \o CreateFunction(n, FunctionSpec(s, n, 0), routes))

FunctionUpdate(c) ==
    /\ Free(c)
    /\ \E n \in Objects("fn"), f \in Flags, v \in {None, 2} :
           LET old == Get("fn", n).spec
               p == CHOOSE p \in Name : old.to = {p}
               fns == FunctionsByPackage(p)
           IN  /\ Exists("pkg", p)
               /\ \E s \in InvokeStrategies(f, old), force \in BOOLEAN :
                     /\ force \/ Cardinality(fns) <= 1
                     /\ Run(c, UpdatePackage(p, v)
                               \o (IF v = None THEN <<>>
                                   ELSE UpdateFunctionPackageResourceVersion(fns \ {n}))
                               \o <<Update("fn", n,
                                     FunctionSpec(s, p, Get("pkg", p).rv))>>)

FunctionDelete(c) == Free(c) /\ \E n \in Name : Run(c, <<Delete("fn", n)>>)

-----------------------------------------------------------------------------
(* Triggers, environments and canary configurations.                       *)

(* setHtFunctionRef: one function, or two with weights that sum to 100.    *)
FunctionRefs == {{First}, Name}

HTTPTriggerCreate(c) ==
    /\ Free(c)
    /\ \E n \in Name, r \in Route, fns \in FunctionRefs :
           /\ ~Exists("http", n)
           /\ Run(c, <<Create("http", n, Content(r, fns, 0))>>)

HTTPTriggerUpdate(c) ==
    /\ Free(c)
    /\ \E n \in Objects("http"), r \in Route :
           Run(c, <<Update("http", n, Content(r, {First}, 0))>>)

(* By name, or all those that refer to one function and no other.          *)
HTTPTriggerDelete(c) ==
    \/ Free(c) /\ \E n \in Name : Run(c, <<Lax(Delete("http", n))>>)
    \/ Free(c) /\ \E f \in Name :
          Run(c, SetToSeq({Lax(Delete("http", n)) :
                             n \in {n \in Objects("http") :
                                       Get("http", n).spec.to = {f}}}))

Simple(v) == Content(v, {First}, 0)

(* Kinds of which one resource is enough.                                  *)
CreateOne(c, k, Value) ==
    Free(c) /\ \E v \in Value : Run(c, <<Create(k, First, Simple(v))>>)

UpdateOne(c, k, Value) ==
    /\ Free(c) /\ Exists(k, First)
    /\ \E v \in Value : Run(c, <<Update(k, First, Simple(v))>>)

DeleteOne(c, k) == Free(c) /\ \E n \in {First} : Run(c, <<Delete(k, n)>>)

MqtCreate(c) == CreateOne(c, "mq", {1})

MqtUpdate(c) == UpdateOne(c, "mq", {2})

MqtDelete(c) == DeleteOne(c, "mq")

(* The controller parses the cron expression.                              *)
TimeTriggerCreate(c) == CreateOne(c, "time", {1, Bad})

TimeTriggerUpdate(c) == UpdateOne(c, "time", {2})

TimeTriggerDelete(c) == DeleteOne(c, "time")

KubeWatchCreate(c) == CreateOne(c, "watch", {1})

KubeWatchDelete(c) == DeleteOne(c, "watch")

(* createEnvironmentFromCmd: an invalid environment is not sent.           *)
EnvironmentCreate(c) ==
    CreateOne(c, "env", {v \in {1, Bad} : ValidEnvironment(Simple(v))})

(* updateExistingEnvironmentWithCmd checks the flags it is given.          *)
EnvironmentUpdate(c) == UpdateOne(c, "env", {2})

EnvironmentDelete(c) == DeleteOne(c, "env")

CheckFunctionExistence(fns) == fns \subseteq Objects("fn")

(* The trigger has weights for both functions, and the functions exist.    *)
CanaryCreate(c) ==
    /\ Free(c)
    /\ \E t \in Objects("http") :
           /\ Get("http", t).spec.to = Name /\ Cardinality(Name) = 2
           /\ CheckFunctionExistence(Name)
           /\ Run(c, <<Create("canary", First, Content(1, {t}, 0))>>)

(* updateNeeded is never set: the status stays.                            *)
CanaryUpdate(c) ==
    /\ Free(c) /\ Exists("canary", First)
    /\ Run(c, <<Call("status", "canary", First,
                     [Get("canary", First) EXCEPT !.spec.v = 2])>>)

CanaryDelete(c) == DeleteOne(c, "canary")

=============================================================================
