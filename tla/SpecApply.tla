----------------------------- MODULE SpecApply ------------------------------
(***************************************************************************)
(* `spec apply` and `spec destroy`, the package builder they race with,    *)
(* and the whole of the command line as one specification.                 *)
(*                                                                         *)
(* A plan is what a directory of specs holds: a set of [k, n, spec,        *)
(* status].  A deployment is the uid written into its deployment           *)
(* configuration; what it applied carries that uid in `by`.                *)
(***************************************************************************)
EXTENDS Commands

CONSTANTS
    Deployment,
    Plans,          \* the directories of specs that are applied
    Stores          \* the resources there are at the beginning

Item(k, n, spec, status) == [k |-> k, n |-> n, spec |-> spec, status |-> status]

Wanted(s, k) == {i \in s.want : i.k = k}

(* The archives of the specs were uploaded before.                         *)
ApplyOrder == <<"env", "pkg", "fn", "http", "watch", "time", "mq">>

-----------------------------------------------------------------------------
(* What there is: contents and references by kind, objects, calls, clients.*)

Strategies == [type : {"poolmgr", "newdeploy"}, min : Int, max : Int]

Value(k) ==
    CASE k = "fn"   -> Strategies
      [] k = "http" -> Route \cup {Bad}
      [] OTHER      -> Nat \cup {Bad}

(* A package refers to nothing, a function to one package.                 *)
Refs(k) ==
    CASE k = "pkg" -> {{}}
      [] k = "fn"  -> {{p} : p \in Name}
      [] OTHER     -> SUBSET Name

Contents(k) == [v : Value(k), to : Refs(k), at : Nat]

Uid(n) == {n} \X Nat

Object(k, n) ==
    [uid : Uid(n) \cup {None}, rv : Nat, by : Deployment \cup {None},
     spec : Contents(k), status : Status]

ReadOnly(x) == x.op \in {"delete", "orphan"}

IsCall(x) ==
    /\ x \in [op : {"create", "update", "status", "delete", "orphan"}, k : Kind,
              n : Name, o : {x.o}, lax : BOOLEAN]
    /\ IF ReadOnly(x) THEN x.o = None ELSE x.o \in Object(x.k, x.n)
    /\ x.op = "orphan" => x.k = "pkg"

IsClient(s) ==
    /\ s \in [cmd : {"idle", "cli", "apply", "wait"}, todo : Seq(ToSet(s.todo)),
              err : BOOLEAN, kinds : Seq(Kind), by : Deployment \cup {None},
              want : Plans \cup {{}}, del : BOOLEAN, wait : BOOLEAN, force : BOOLEAN,
              meta : [Name -> Nat]]
    /\ \A x \in ToSet(s.todo) : IsCall(x)

(* No two HTTP triggers have one route.                                    *)
RoutesUnique(st) ==
    \A m, n \in Name :
        (/\ st["http"][m] # None /\ st["http"][n] # None
         /\ st["http"][m].spec.v = st["http"][n].spec.v) => m = n

(* A function has its package, unless that was deleted on purpose.         *)
PackagesKept(st, gone) ==
    \A f \in Name : st["fn"][f] # None =>
        \A p \in st["fn"][f].spec.to \ gone : st["pkg"][p] # None

(* A function refers to the version that its package has once it is built, *)
(* if both have one owner.                                                 *)
VersionsCurrent(st, gone) ==
    \A f \in Name : st["fn"][f] # None =>
        \A p \in st["fn"][f].spec.to \ gone :
            (/\ st["pkg"][p] # None
             /\ st["pkg"][p].status \in {"succeeded", "none"}
             /\ st["pkg"][p].by = st["fn"][f].by)
                => st["fn"][f].spec.at = st["pkg"][p].rv

ASSUME NothingAssumption ==
    /\ IsFiniteSet(Name)
    /\ None \notin Nat /\ None \notin Name \X Nat
    /\ \A k \in Kind, n \in Name : None \notin Object(k, n)

(* The items of the specs are of the kinds that are applied.               *)
ASSUME PlanAssumption ==
    \A plan \in Plans :
        /\ IsFiniteSet(plan)
        /\ \A i \in plan :
             /\ i \in [k : ToSet(ApplyOrder), n : Name, spec : {i.spec}, status : Status]
             /\ i.spec \in Contents(i.k)

ASSUME StoreAssumption ==
    \A st \in Stores :
        /\ DOMAIN st = Kind
        /\ \A k \in Kind :
             /\ DOMAIN st[k] = Name
             /\ \A n \in Name : st[k][n] # None =>
                  /\ st[k][n] \in Object(k, n)
                  /\ st[k][n].uid # None /\ st[k][n].rv = 1
        /\ RoutesUnique(st) /\ PackagesKept(st, {}) /\ VersionsCurrent(st, {})

-----------------------------------------------------------------------------
(* ReadSpecs: no resource is in two files (trackSourceMap).                *)
ReadSpecs(plan) ==
    \A i, j \in plan : (i.k = j.k /\ i.n = j.n) => i = j

(* FissionResources.Validate: references within the specs.                 *)
ValidItem(i) ==
    CASE i.k = "fn"    -> ValidFunction(i.spec)
      [] i.k = "pkg"   -> ValidPackage(i.spec)
      [] i.k = "http"  -> ValidHTTPTrigger(i.spec)
      [] i.k = "watch" -> ValidWatch(i.spec)
      [] i.k = "time"  -> ValidTimeTrigger(i.spec)
      [] i.k = "mq"    -> ValidMessageQueueTrigger(i.spec)
      [] OTHER         -> TRUE

Validate(plan) ==
    \A i \in plan :
        /\ ValidItem(i)
        /\ i.k = "fn" => i.spec.to \subseteq Names(plan, "pkg")
        /\ i.k \in {"http", "watch", "time", "mq"} =>
              i.spec.to \subseteq Names(plan, "fn")

(* resourceConflictCheck: nothing of that name belongs to somebody else.   *)
ResourceConflictCheck(plan, d) ==
    \A i \in plan : Exists(i.k, i.n) => Get(i.k, i.n).by = d

ApplyBegin(c) ==
    /\ Free(c)
    /\ \E plan \in Plans, d \in Deployment, del, wait \in BOOLEAN :
          /\ ReadSpecs(plan) /\ Validate(plan)
          /\ ResourceConflictCheck(plan, d)
          /\ Begin(c, [Idle EXCEPT !.cmd = "apply", !.kinds = ApplyOrder,
                                   !.want = plan, !.by = d, !.del = del,
                                   !.wait = wait])

(* `spec destroy`: nothing is wanted.                                      *)
DestroyBegin(c) ==
    /\ Free(c)
    /\ \E d \in Deployment :
          Begin(c, [Idle EXCEPT !.cmd = "apply", !.kinds = ApplyOrder,
                                !.by = d, !.del = TRUE])

-----------------------------------------------------------------------------
(* What becomes of a client after a call: an error ends the command, but   *)
(* not before the other calls of its group were tried.                     *)

Dead(s) == s.err /\ (s.todo = <<>> \/ ~Head(s.todo).lax)

Done(s) == s.todo = <<>> /\ s.kinds = <<>>

Ended(s) == Dead(s) \/ (Done(s) /\ ~s.wait)

Settle(c, s) ==
    /\ cl' = [cl EXCEPT ![c] =
                 IF Dead(s) THEN Idle
                 ELSE IF ~Done(s) THEN s
                 ELSE IF s.cmd = "cli" THEN Idle
                 ELSE [s EXCEPT !.cmd = IF s.wait THEN "wait" ELSE "idle"]]
    /\ last' = [last EXCEPT ![c] = IF Dead(s) THEN "failed"
                                   ELSE IF Ended(s) THEN "ok" ELSE @]
    /\ UNCHANGED commands

(* The reference of a function gets the version the package has now.       *)
Resolve(c, call) ==
    IF call.k # "fn" \/ call.op = "delete" THEN call
    ELSE LET at == {cl[c].meta[p] : p \in call.o.spec.to} \ {0}
         IN  IF at = {} THEN call
             ELSE [call EXCEPT !.o.spec.at = CHOOSE v \in at : TRUE]

NextCall(c) == Resolve(c, Head(cl[c].todo))

Pending(c) == Busy(c) /\ cl[c].todo # <<>>

Pop(c, ok) ==
    [cl[c] EXCEPT !.todo = Tail(@), !.err = @ \/ ~ok]

Ready(c) == NeedsDuplicateCheck(NextCall(c)) => checked[c]

Fail(c) ==
    /\ Settle(c, Pop(c, FALSE))
    /\ checked' = [checked EXCEPT ![c] = FALSE]
    /\ whole' = FALSE
    /\ UNCHANGED <<apiVars, fresh, calm, waived>>

(* The controller lists the triggers before it writes one.                 *)
CheckDuplicates(c) ==
    /\ Pending(c) /\ NeedsDuplicateCheck(NextCall(c)) /\ ~checked[c]
    /\ Sends(NextCall(c))
    /\ IF Duplicates(NextCall(c)) = {}
         THEN /\ checked' = [checked EXCEPT ![c] = TRUE]
              /\ UNCHANGED <<apiVars, cl, last, commands, historyVars>>
         ELSE Fail(c)

(* A call that succeeds.                                                   *)
Do(c) ==
    LET call == NextCall(c)
        k == call.k
        n == call.n
    IN  /\ Pending(c) /\ call.op # "orphan" /\ Ready(c)
        /\ Sends(call) /\ Handles(call)
        /\ Write(call)
        /\ Settle(c, [Pop(c, TRUE) EXCEPT !.meta[n] =
                         IF k = "pkg" /\ call.op # "delete"
                           THEN version[k][n] + 1 ELSE @])
        /\ checked' = [checked EXCEPT ![c] = FALSE]
        /\ fresh' = [d \in Client |-> fresh[d] /\ d = c]
        /\ waived' = IF k = "pkg" /\ call.op = "delete"
                          /\ (cl[c].force \/ cl[c].cmd = "apply")
                       THEN waived \cup {n} ELSE waived
        /\ UNCHANGED <<calm, whole>>

(* A call that the client or the controller refuses.                       *)
Refuse(c) ==
    LET call == NextCall(c)
    IN  /\ Pending(c) /\ call.op # "orphan"
        /\ ~Sends(call) \/ (Ready(c) /\ ~Handles(call))
        /\ Fail(c)

(* One turn of the loop of deleteOrphanPkgs.                               *)
Orphan(c) ==
    LET call == NextCall(c)
    IN  /\ Pending(c) /\ call.op = "orphan"
        /\ IF FunctionsByPackage(call.n) = {}
             THEN Settle(c, [cl[c] EXCEPT !.todo[1] = Delete("pkg", call.n)])
             ELSE Settle(c, Pop(c, TRUE))
        /\ UNCHANGED <<apiVars, checked, historyVars>>

-----------------------------------------------------------------------------
(* applyResources, one kind at a time.                                     *)

OwnedAll(k, d) == Objects(k)

(* hasDeploymentConfig                                                     *)
Owned(k, d) == {n \in Objects(k) : Get(k, n).by = d}

(* A package is kept if its source is the same, but only once it is built. *)
SamePackage(old, spec) == old.spec.v = spec.v /\ old.status = "succeeded"

Keeps(k, old, spec) ==
    IF k = "pkg" THEN SamePackage(old, spec) ELSE old.spec = spec

(* The object sent has no uid: it was read from a file.                    *)
Applied(s, i) == [Obj(i.spec, i.status) EXCEPT !.by = s.by]

(* Each reference of a function gets the version of the package.           *)
WithVersion(s, i) ==
    IF i.k # "fn" THEN i
    ELSE [i EXCEPT !.spec.at = s.meta[CHOOSE p \in Name : i.spec.to = {p}]]

(* The calls for an item of the specs: at most one.                        *)
ApplyItem(s, i, owned) ==
    IF i.n \notin owned THEN {Call("create", i.k, i.n, Applied(s, i))}
    ELSE IF Keeps(i.k, Get(i.k, i.n), i.spec) THEN {}
    ELSE {Call("update", i.k, i.n,
               [Applied(s, i) EXCEPT !.rv = Get(i.k, i.n).rv])}

DeletesNothing(s, k, owned) == <<>>

Deletes(s, k, owned) ==
    IF s.del THEN SetToSeq({Delete(k, n) : n \in owned \ Names(s.want, k)})
    ELSE <<>>

ApplyKind(c, k) ==
    LET s == cl[c]
        owned == Owned(k, s.by)
        todo == SetToSeq(UNION {ApplyItem(s, WithVersion(s, i), owned) :
                                   i \in Wanted(s, k)})
        kept == {i.n : i \in {i \in Wanted(s, k) :
                    i.n \in owned /\ Keeps(k, Get(k, i.n), i.spec)}}
    IN  /\ s.cmd = "apply" /\ s.todo = <<>> /\ s.kinds # <<>> /\ Head(s.kinds) = k
        /\ Settle(c, [s EXCEPT !.kinds = Tail(@),
                        !.todo = todo \o Deletes(s, k, owned),
                        !.meta = IF k # "pkg" THEN @
                                 ELSE [n \in Name |-> IF n \in kept
                                         THEN Get("pkg", n).rv ELSE @[n]]])
        /\ UNCHANGED <<apiVars, checked, historyVars>>

ApplyEnvironments(c) == ApplyKind(c, "env")

(* waitForPackageBuild is given the package of the specs, whose status is  *)
(* never `running`: it returns at once.                                    *)
ApplyPackages(c) == ApplyKind(c, "pkg")

ApplyFunctions(c) == ApplyKind(c, "fn")

ApplyHTTPTriggers(c) == ApplyKind(c, "http")

ApplyKubernetesWatchTriggers(c) == ApplyKind(c, "watch")

ApplyTimeTriggers(c) == ApplyKind(c, "time")

ApplyMessageQueueTriggers(c) == ApplyKind(c, "mq")

(* packageBuildWatcher.watch, with --wait: the command polls until no      *)
(* package of the specs is pending or running.                             *)
Unbuilt(c) ==
    {p \in Objects("pkg") : /\ p \in Names(cl[c].want, "pkg")
                            /\ Get("pkg", p).status \in {"pending", "running"}}

WaitOver(c) ==
    /\ cl[c].cmd = "wait" /\ Unbuilt(c) = {}
    /\ cl' = [cl EXCEPT ![c].cmd = "idle"]
    /\ last' = [last EXCEPT ![c] = "ok"]
    /\ UNCHANGED <<apiVars, checked, commands, historyVars>>

-----------------------------------------------------------------------------
(* The builder manager, as far as it changes what commands see; module     *)
(* PackageBuild has the whole of it.                                       *)

BuilderWrites ==
    /\ fresh' = [c \in Client |-> FALSE]
    /\ calm' = (calm /\ \A c \in Client : cl[c].cmd \in {"idle", "wait"})
    /\ UNCHANGED <<clientVars, whole, waived>>

BuildStarts(p) ==
    /\ Exists("pkg", p) /\ Get("pkg", p).status = "pending"
    /\ Write(Call("status", "pkg", p, [Get("pkg", p) EXCEPT !.status = "running"]))
    /\ BuilderWrites

(* After a success the references of the functions are brought up to date. *)
BuildEnds(p) ==
    LET rv == version["pkg"][p] + 1
        fns == FunctionsByPackage(p)
        NewFn(f) == [Get("fn", f) EXCEPT !.spec.at = rv, !.rv = version["fn"][f] + 1]
        PkgAs(status) == [Get("pkg", p) EXCEPT !.status = status, !.rv = rv]
    IN  /\ Exists("pkg", p) /\ Get("pkg", p).status = "running"
        /\ \/ /\ store' = [store EXCEPT !["pkg"][p] = PkgAs("failed")]
              /\ version' = [version EXCEPT !["pkg"][p] = rv]
           \/ /\ store' = [store EXCEPT
                     !["pkg"][p] = PkgAs("succeeded"),
                     !["fn"] = [f \in Name |-> IF f \in fns THEN NewFn(f) ELSE @[f]]]
              /\ version' = [version EXCEPT
                     !["pkg"][p] = rv,
                     !["fn"] = [f \in Name |-> IF f \in fns THEN @[f] + 1 ELSE @[f]]]
        /\ BuilderWrites

-----------------------------------------------------------------------------
ResourcesInit ==
    /\ store \in Stores
    /\ version = [k \in Kind |-> [n \in Name |-> 1]]
    /\ cl = [c \in Client |-> Idle]
    /\ checked = [c \in Client |-> FALSE]
    /\ last = [c \in Client |-> "none"]
    /\ commands = 0
    /\ fresh = [c \in Client |-> FALSE]
    /\ calm = TRUE /\ whole = TRUE
    /\ waived = {}

Commence(c) ==
    \/ PackageCreate(c) \/ PackageUpdate(c) \/ PackageDelete(c)
    \/ DeleteOrphanPkgs(c) \/ PackageRebuild(c)
    \/ FunctionCreate(c) \/ FunctionUpdate(c) \/ FunctionDelete(c)
    \/ HTTPTriggerCreate(c) \/ HTTPTriggerUpdate(c) \/ HTTPTriggerDelete(c)
    \/ MqtCreate(c) \/ MqtUpdate(c) \/ MqtDelete(c)
    \/ TimeTriggerCreate(c) \/ TimeTriggerUpdate(c) \/ TimeTriggerDelete(c)
    \/ KubeWatchCreate(c) \/ KubeWatchDelete(c)
    \/ EnvironmentCreate(c) \/ EnvironmentUpdate(c) \/ EnvironmentDelete(c)
    \/ CanaryCreate(c) \/ CanaryUpdate(c) \/ CanaryDelete(c)
    \/ ApplyBegin(c) \/ DestroyBegin(c)

Continue(c) ==
    \/ CheckDuplicates(c) \/ Do(c) \/ Refuse(c) \/ Orphan(c)
    \/ ApplyEnvironments(c) \/ ApplyPackages(c) \/ ApplyFunctions(c)
    \/ ApplyHTTPTriggers(c) \/ ApplyKubernetesWatchTriggers(c)
    \/ ApplyTimeTriggers(c) \/ ApplyMessageQueueTriggers(c) \/ WaitOver(c)

Progress ==
    \/ \E c \in Client : Continue(c)
    \/ \E p \in Name : BuildStarts(p) \/ BuildEnds(p)

(* Every command has ended, and every package is built.                    *)
Rest ==
    /\ commands = MaxCommands /\ \A c \in Client : ~Busy(c)
    /\ \A p \in Objects("pkg") : Get("pkg", p).status \notin {"pending", "running"}
    /\ UNCHANGED vars

(* There is no fairness: no behaviour has a cycle other than Rest, and TLC *)
(* reports a state without a step.  So every command ends, `spec apply     *)
(* --wait` also when the builds it waits for fail.                         *)
ResourcesNext == (\E c \in Client : Commence(c)) \/ Progress \/ Rest

ResourcesSpec == ResourcesInit /\ [][ResourcesNext]_vars

-----------------------------------------------------------------------------
(* Properties.                                                             *)

HasItem(d, i) ==
    /\ Exists(i.k, i.n)
    /\ LET o == Get(i.k, i.n)
       IN  /\ o.by = d /\ o.spec.v = i.spec.v /\ o.spec.to = i.spec.to
           /\ i.k = "fn" => \A p \in o.spec.to : o.spec.at = Get("pkg", p).rv

(* A `spec apply` that reports success while nobody else writes leaves     *)
(* every resource of the specs in the cluster, annotated with the          *)
(* deployment, every function with the version its package really has;     *)
(* with --delete nothing else carries the annotation (applyResources).     *)
ApplyConverges ==
    \A c \in Client :
        LET d == cl[c].by
        IN  (~Busy(c) /\ d # None /\ last[c] = "ok" /\ fresh[c]) =>
                /\ \A i \in cl[c].want : HasItem(d, i)
                /\ cl[c].del => \A k \in ToSet(ApplyOrder) :
                                   Owned(k, d) = Names(cl[c].want, k)

(* `spec apply` never changes a resource that was created otherwise or by  *)
(* another deployment, also when it appears after the conflict check; only *)
(* a deletion, which goes by name, may meet one that replaced its own      *)
(* since it was listed.                                                    *)
OnlyOwn ==
    [][\A c \in Client :
          (cl[c].cmd = "apply" /\ cl'[c] # cl[c]) =>
              \A k \in Kind, n \in Name :
                  store'[k][n] # store[k][n] =>
                      \/ store[k][n] = None
                      \/ store[k][n].by = cl[c].by
                      \/ store'[k][n] = None /\ ~fresh[c]]_vars

(* When commands run one after the other, whatever they are and however    *)
(* they end, no two HTTP triggers have one route, and no function loses    *)
(* its package except by a forced deletion or an apply.  If moreover none  *)
(* failed, and none applied a plan without a function that the deployment  *)
(* has and does not delete, then every function refers to the version its  *)
(* package has once that is built, if both have one owner.                 *)
SequentialIntegrity ==
    (calm /\ \A c \in Client : cl[c].cmd \in {"idle", "wait"}) =>
        /\ RoutesUnique(store)
        /\ PackagesKept(store, waived)
        /\ whole => VersionsCurrent(store, waived)

(* What the comment in checkHTTPTriggerDuplicates says: "Same resource. No *)
(* need to check."  A trigger is never a duplicate of itself.              *)
SameResourceIsNoDuplicate ==
    \A c \in Client :
        (Pending(c) /\ NeedsDuplicateCheck(NextCall(c)) /\ ~checked[c]
           /\ NextCall(c).op = "update")
        => NextCall(c).n \notin Duplicates(NextCall(c))

=============================================================================
