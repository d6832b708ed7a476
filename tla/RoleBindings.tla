---------------------------- MODULE RoleBindings ----------------------------
(***************************************************************************)
(* The role bindings of one namespace: what lets the fetchers read its     *)
(* packages, secrets and config maps, and the builders its packages.  The  *)
(* watchers of functions and packages, the deployment manager and the      *)
(* package builder add service accounts (SetupRoleBinding), and the        *)
(* executor's CleanupRoleBindings takes out those that nothing needs.      *)
(*                                                                         *)
(* Functions and packages are in this namespace and name environments of   *)
(* any namespace.  The service accounts of the reserved namespaces stand   *)
(* for those of the default one, as in the code, so an account is given by *)
(* the namespace of its environments.                                      *)
(***************************************************************************)
EXTENDS Integers, FiniteSets, Sequences

CONSTANTS
    Functions,      \* names of functions
    Namespaces,     \* namespaces of environments
    Own,            \* the namespace of the functions: their deployments run here
    MaxRetries,     \* attempts of a patch and of an update
    MaxEdits,       \* changes that users make
    MaxErrors       \* calls to the API server that fail, restarts of the executor

ASSUME GrantAssumption ==
    /\ IsFiniteSet(Functions)
    /\ \A w \in {"function", "package", "build"} : w \notin Functions
    /\ Own \in Namespaces /\ MaxRetries \in Nat \ {0}
    /\ MaxEdits \in Nat /\ MaxErrors \in Nat

VARIABLES
    binding,        \* the service accounts of every role binding, or Absent
    fns,            \* environment and executor type of every function
    package,        \* the environment of the package, or NoNs
    envs,           \* the namespaces in which there is an environment
    deployed,       \* functions that have a deployment
    events,         \* what the informers have still to tell their handlers
    setups,         \* the handlers that set up role bindings
    reaper,         \* CleanupRoleBindings
    edits, errors,  \* so far
    kept            \* grants that were set up, each with a reason to keep it
                    \* that has been there ever since

clusterVars == <<binding, fns, package, envs, deployed>>
countVars == <<edits, errors>>
grantVars == <<clusterVars, events, setups, reaper, countVars, kept>>

Binding == {"package", "secret"}
Accounts == [name : {"fetcher", "builder"}, ns : Namespaces]
Fetcher(n) == [name |-> "fetcher", ns |-> n]
BuilderAccount(n) == [name |-> "builder", ns |-> n]
Grant(b, s) == [rb |-> b, sa |-> s]
Grants == [rb : Binding, sa : Accounts]

Absent == {}        \* a role binding has an account as long as it exists
NoNs == "no namespace"
NoFn == [env |-> NoNs, type |-> "none"]
Fns == {NoFn} \union [env : Namespaces, type : {"poolmgr", "newdeploy"}]

(* The goroutines that call SetupRoleBinding: the pool manager's watchers  *)
(* of functions and packages, the package builder, and for every function  *)
(* the deployment manager.                                                 *)
Workers == {"function", "package", "build"} \union Functions

Unemployed == [pc |-> "idle", todo |-> << >>, tries |-> 0]
Asleep == [pc |-> "sleep", left |-> {}, listed |-> [b \in Binding |-> Absent], used |-> {},
           undecided |-> {}, remove |-> {}, new |-> {}, tries |-> 0, fresh |-> TRUE,
           rb |-> "secret"]

-----------------------------------------------------------------------------
(* Who needs an account.  The loop over the functions stops at the first   *)
(* one that names an environment of the account's namespace or is a        *)
(* deployment; a deployment does not count for a builder, but stops its    *)
(* search.                                                                 *)
References(s, fs) == \E f \in Functions : fs[f].env = s.ns
Deployments(fs) == {f \in Functions : fs[f].type = "newdeploy"}

FunctionNeeds(s, fs) ==
    IF s.name = "builder"
      THEN References(s, fs) /\ \A f \in Deployments(fs) : fs[f].env = s.ns
      ELSE References(s, fs) \/ Deployments(fs) # {}

FunctionMayNeed(s, fs) == References(s, fs) \/ FunctionNeeds(s, fs)

Reasons == {"function", "environment"}

Holds(k, fs, es) ==
    IF k.why = "function" THEN FunctionNeeds(k.sa, fs)
    ELSE k.rb = "package" /\ k.sa.ns \in es

Keep(g, why) == [rb |-> g.rb, sa |-> g.sa, why |-> why]

-----------------------------------------------------------------------------
(* Users.                                                                  *)

Notify(e, ws) == events' = [w \in Workers |->
                              IF w \in ws THEN Append(events[w], e) ELSE events[w]]

Edit == edits < MaxEdits /\ edits' = edits + 1

KeptAfter(fs, es) == kept' = {k \in kept : Holds(k, fs, es)}

EditFunction(f) ==
    /\ Edit
    /\ \E new \in Fns \ {fns[f]} :
          /\ fns' = [fns EXCEPT ![f] = new]
          /\ Notify([old |-> fns[f], new |-> new], {"function", f})
          /\ KeptAfter(fns', envs)
    /\ UNCHANGED <<binding, package, envs, deployed, setups, reaper, errors>>

EditPackage ==
    /\ Edit
    /\ \E new \in (Namespaces \union {NoNs}) \ {package} :
          /\ package' = new
          /\ Notify([old |-> package, new |-> new], {"package", "build"})
    /\ UNCHANGED <<binding, fns, envs, deployed, setups, reaper, errors, kept>>

EditEnvironment ==
    /\ Edit
    /\ \E n \in Namespaces :
          /\ envs' = IF n \in envs THEN envs \ {n} ELSE envs \union {n}
          /\ KeptAfter(fns, envs')
    /\ UNCHANGED <<binding, fns, package, deployed, events, setups, reaper, errors>>

-----------------------------------------------------------------------------
(* The handlers: what each sets up for an event.                           *)

(* makeFuncController, when a function is added and when it is updated.    *)
FunctionAdded(e) ==
    IF e.new.type = "poolmgr" THEN <<Grant("secret", Fetcher(e.new.env))>> ELSE << >>

FunctionUpdated(e) ==
    IF e.old.env # e.new.env \/ (e.old.type # "poolmgr" /\ e.new.type = "poolmgr")
      THEN <<Grant("secret", Fetcher(e.new.env))>> ELSE << >>

FunctionEvent(e) ==
    IF e.new = NoFn THEN << >>
    ELSE IF e.old = NoFn THEN FunctionAdded(e) ELSE FunctionUpdated(e)

(* makePkgController; the package's deletion has no handler.               *)
PackageEvent(e) ==
    IF e.new # NoNs /\ e.old # e.new THEN <<Grant("package", Fetcher(e.new))>> ELSE << >>

(* build: for a package whose environment has a builder.                   *)
BuildEvent(e) ==
    IF e.new \in envs THEN <<Grant("package", BuilderAccount(e.new))>> ELSE << >>

(* createOrGetDeployment: setupRBACObjs, if there is no deployment.        *)
SetupRBACObjs(f) ==
    IF f \in deployed THEN << >>
    ELSE <<Grant("package", Fetcher(Own)), Grant("secret", Fetcher(Own))>>

(* createFunction, and updateFunction if the executor type has changed.    *)
DeploymentEvent(f, e) ==
    IF e.new.type = "newdeploy" /\ e.old.type # "newdeploy" THEN SetupRBACObjs(f) ELSE << >>

Todo(w, e) ==
    CASE w = "function" -> FunctionEvent(e)
      [] w = "package"  -> PackageEvent(e)
      [] w = "build"    -> BuildEvent(e)
      [] OTHER          -> DeploymentEvent(w, e)

Working(todo) == IF todo = << >> THEN Unemployed ELSE [pc |-> "get", todo |-> todo, tries |-> 0]

Handle(w) ==
    /\ setups[w].pc = "idle" /\ events[w] # << >>
    /\ LET e == Head(events[w]) IN
       /\ setups' = [setups EXCEPT ![w] = Working(Todo(w, e))]
       /\ deployed' = IF w \in Functions /\ e.new.type # "newdeploy"
                        THEN deployed \ {w} ELSE deployed
    /\ events' = [events EXCEPT ![w] = Tail(@)]
    /\ UNCHANGED <<binding, fns, package, envs, reaper, countVars, kept>>

(* A request for a function without a deployment (GetFuncSvc).             *)
RequestDeployment(f) ==
    /\ setups[f].pc = "idle" /\ fns[f].type = "newdeploy" /\ f \notin deployed
    /\ setups' = [setups EXCEPT ![f] = Working(SetupRBACObjs(f))]
    /\ UNCHANGED <<clusterVars, events, reaper, countVars, kept>>

-----------------------------------------------------------------------------
(* SetupRoleBinding.                                                       *)

Current(w) == Head(setups[w].todo)

SetupAt(w, pc) == setups[w].pc = pc

Goto(w, pc) == setups' = [setups EXCEPT ![w].pc = pc]

(* The reaper is about to take the account out: it has decided so, or it   *)
(* deletes the role binding, or it has listed the functions before the one *)
(* that needs the account.                                                 *)
Doomed(g, why) ==
    /\ reaper.rb = g.rb
    /\ \/ reaper.pc = "delete"
       \/ reaper.pc \in {"environments", "get", "update"} /\ g.sa \in reaper.remove
       \/ /\ reaper.pc = "environments" /\ g.sa \in reaper.undecided \ reaper.used
          /\ why = "function"

(* A setup has succeeded: the next one, or the deployment is created.      *)
Succeed(w) ==
    LET g == Current(w)
        rest == Tail(setups[w].todo)
    IN  /\ setups' = [setups EXCEPT ![w] = Working(rest)]
        /\ deployed' = IF w \in Functions /\ rest = << >> THEN deployed \union {w}
                       ELSE deployed
        /\ kept' = kept \union {k \in {Keep(g, why) : why \in Reasons} :
                                  Holds(k, fns, envs) /\ ~Doomed(g, k.why)}

(* It has failed: setupRBACObjs gives up.                                  *)
Abandon(w) ==
    /\ setups' = [setups EXCEPT ![w] = Unemployed]
    /\ UNCHANGED <<deployed, kept>>

(* What is written to a role binding makes the reaper's copy outdated.     *)
AddAccount(b, s) ==
    /\ binding' = [binding EXCEPT ![b] = @ \union {s}]
    /\ reaper' = IF reaper.rb = b THEN [reaper EXCEPT !.fresh = FALSE] ELSE reaper

(* The role binding is read.                                               *)
SetupGet(w) ==
    /\ SetupAt(w, "get")
    /\ LET g == Current(w) IN
       \/ g.sa \in binding[g.rb] /\ Succeed(w)                \* isSAInRoleBinding
       \/ /\ g.sa \notin binding[g.rb]
          /\ Goto(w, IF binding[g.rb] = Absent THEN "create" ELSE "patch")
          /\ UNCHANGED <<deployed, kept>>
    /\ UNCHANGED <<binding, fns, package, envs, events, reaper, countVars>>

(* It was missing; somebody else may have created it by now.               *)
SetupCreate(w) ==
    /\ SetupAt(w, "create")
    /\ LET g == Current(w) IN
       \/ binding[g.rb] = Absent /\ AddAccount(g.rb, g.sa) /\ Succeed(w)
       \/ /\ binding[g.rb] # Absent /\ Goto(w, "patch")
          /\ UNCHANGED <<binding, deployed, reaper, kept>>
    /\ UNCHANGED <<fns, package, envs, events, countVars>>

(* AddSaToRoleBindingWithRetries: the patch appends to what is there.      *)
SetupPatch(w) ==
    /\ SetupAt(w, "patch")
    /\ LET g == Current(w) IN
       \/ binding[g.rb] # Absent /\ AddAccount(g.rb, g.sa) /\ Succeed(w)
       \/ /\ binding[g.rb] = Absent /\ Goto(w, "recreate")
          /\ UNCHANGED <<binding, deployed, reaper, kept>>
    /\ UNCHANGED <<fns, package, envs, events, countVars>>

(* One more turn of the loop, or the last one is over.                     *)
Again(w) ==
    IF setups[w].tries + 1 < MaxRetries
      THEN /\ setups' = [setups EXCEPT ![w].pc = "patch", ![w].tries = @ + 1]
           /\ UNCHANGED <<deployed, kept>>
      ELSE Abandon(w)

(* The patch found nothing to patch.                                       *)
SetupRecreate(w) ==
    /\ SetupAt(w, "recreate")
    /\ LET g == Current(w) IN
       \/ binding[g.rb] = Absent /\ AddAccount(g.rb, g.sa) /\ Succeed(w)
       \/ binding[g.rb] # Absent /\ Again(w) /\ UNCHANGED <<binding, reaper>>
    /\ UNCHANGED <<fns, package, envs, events, countVars>>

(* A call fails; a patch that meets a conflict is repeated.                *)
SetupError(w) ==
    /\ setups[w].pc # "idle"
    /\ errors < MaxErrors /\ errors' = errors + 1
    /\ Abandon(w) \/ (SetupAt(w, "patch") /\ Again(w))
    /\ UNCHANGED <<binding, fns, package, envs, events, reaper, edits>>

Setup(w) == SetupGet(w) \/ SetupCreate(w) \/ SetupPatch(w) \/ SetupRecreate(w)

-----------------------------------------------------------------------------
(* CleanupRoleBindings.                                                    *)

ReaperReads == UNCHANGED <<clusterVars, events, setups, edits, kept>>
ReaperWrites == UNCHANGED <<fns, package, envs, deployed, events, setups, countVars, kept>>

(* The next role binding of the list, or the round is over.                *)
NextBinding(r) ==
    IF r.left = {} THEN Asleep
    ELSE [Asleep EXCEPT !.pc = "functions", !.left = r.left, !.listed = r.listed]

(* All role bindings are listed.                                           *)
ListBindings ==
    /\ reaper.pc = "sleep"
    /\ reaper' = NextBinding([Asleep EXCEPT
                                !.left = {b \in Binding : binding[b] # Absent},
                                !.listed = binding])
    /\ ReaperReads /\ UNCHANGED errors

(* It is known what to remove from a role binding.                         *)
Decided(r) == IF r.remove = {} THEN NextBinding(r) ELSE [r EXCEPT !.pc = "get"]

(* The functions are listed, once for a role binding.  For the secrets     *)
(* that decides; for the packages the environments are looked at too.      *)
ListFunctions(b) ==
    /\ reaper.pc = "functions" /\ b \in reaper.left
    /\ LET accounts == reaper.listed[b] IN
       \E used \in SUBSET accounts :
          /\ {s \in accounts : FunctionNeeds(s, fns)} \subseteq used
          /\ used \subseteq {s \in accounts : FunctionMayNeed(s, fns)}
          /\ LET r == [reaper EXCEPT !.rb = b, !.left = @ \ {b}, !.used = used] IN
             reaper' = IF b = "package"
                         THEN [r EXCEPT !.pc = "environments", !.undecided = accounts]
                         ELSE Decided([r EXCEPT !.remove = accounts \ used])
    /\ ReaperReads /\ UNCHANGED errors

(* For each account of the packages' role binding the environments of its  *)
(* namespace are listed.                                                   *)
ListEnvironments(s) ==
    /\ reaper.pc = "environments" /\ s \in reaper.undecided
    /\ LET r == [reaper EXCEPT !.undecided = @ \ {s},
                               !.remove = IF s.ns \in envs \/ s \in reaper.used
                                            THEN @ ELSE @ \union {s}]
       IN  reaper' = IF r.undecided = {} THEN Decided(r) ELSE r
    /\ ReaperReads /\ UNCHANGED errors

(* RemoveSAFromRoleBindingWithRetries reads the role binding again; when   *)
(* no account is left it will be deleted.                                  *)
ReaperGet ==
    /\ reaper.pc = "get"
    /\ LET new == binding[reaper.rb] \ reaper.remove IN
       reaper' = IF binding[reaper.rb] = Absent THEN NextBinding(reaper)
                 ELSE IF new = {} THEN [reaper EXCEPT !.pc = "delete"]
                 ELSE [reaper EXCEPT !.pc = "update", !.new = new, !.fresh = TRUE]
    /\ ReaperReads /\ UNCHANGED errors

(* Mutant: an update that does not send the resource version it has read.  *)
UpToDateAlways == TRUE

(* An update is refused if the role binding has changed since it was read. *)
UpToDate == reaper.fresh

(* Then it is read again, a number of times.                               *)
ReaperUpdate ==
    /\ reaper.pc = "update"
    /\ \/ /\ UpToDate
          /\ binding' = [binding EXCEPT ![reaper.rb] = reaper.new]
          /\ reaper' = NextBinding(reaper)
       \/ /\ ~UpToDate
          /\ reaper' = IF reaper.tries + 1 < MaxRetries
                         THEN [reaper EXCEPT !.pc = "get", !.new = {}, !.fresh = TRUE,
                                             !.tries = @ + 1]
                         ELSE NextBinding(reaper)
          /\ UNCHANGED binding
    /\ ReaperWrites

(* DeleteRoleBinding: by name, whatever it holds by now.                   *)
ReaperDelete ==
    /\ reaper.pc = "delete"
    /\ binding' = [binding EXCEPT ![reaper.rb] = Absent]
    /\ reaper' = NextBinding(reaper)
    /\ ReaperWrites

(* A call fails: the account, the role binding or the round is left out.   *)
ReaperError ==
    /\ errors < MaxErrors /\ errors' = errors + 1
    /\ \/ /\ reaper.pc = "functions"
          /\ \E b \in reaper.left : reaper' = NextBinding([reaper EXCEPT !.left = @ \ {b}])
       \/ /\ reaper.pc = "environments"
          /\ \E s \in reaper.undecided :
                LET r == [reaper EXCEPT !.undecided = @ \ {s}] IN
                reaper' = IF r.undecided = {} THEN Decided(r) ELSE r
       \/ reaper.pc \in {"get", "update", "delete"} /\ reaper' = NextBinding(reaper)
    /\ ReaperReads

Reaper ==
    \/ ListBindings \/ (\E b \in Binding : ListFunctions(b))
    \/ (\E s \in Accounts : ListEnvironments(s))
    \/ ReaperGet \/ ReaperUpdate \/ ReaperDelete

-----------------------------------------------------------------------------
(* The executor restarts: its informers report everything as added, in any *)
(* order, and deployments are adopted.  The package builder, another       *)
(* process, goes on.                                                       *)
Orders(S) == {s \in [1 .. Cardinality(S) -> S] : \A i, j \in DOMAIN s : s[i] = s[j] => i = j}

Added(f) == [old |-> NoFn, new |-> fns[f]]

AddedAgain(w, order) ==
    CASE w = "build"     -> events[w]
      [] w = "package"   -> IF package = NoNs THEN << >>
                            ELSE <<[old |-> NoNs, new |-> package]>>
      [] w = "function"  -> [i \in DOMAIN order |-> Added(order[i])]
      [] OTHER           -> IF fns[w] = NoFn THEN << >> ELSE <<Added(w)>>

ExecutorRestart ==
    /\ errors < MaxErrors /\ errors' = errors + 1
    /\ setups' = [w \in Workers |-> IF w = "build" THEN setups[w] ELSE Unemployed]
    /\ \E order \in Orders({f \in Functions : fns[f] # NoFn}) :
          events' = [w \in Workers |-> AddedAgain(w, order)]
    /\ deployed' = deployed \intersect Deployments(fns)
    /\ reaper' = Asleep
    /\ UNCHANGED <<binding, fns, package, envs, edits, kept>>

-----------------------------------------------------------------------------
(* The role bindings hold an account from before that nothing needs now.   *)
GrantInit ==
    /\ binding = [b \in Binding |-> {Fetcher(Own)}]
    /\ fns = [f \in Functions |-> NoFn] /\ package = NoNs /\ envs = {}
    /\ deployed = {}
    /\ events = [w \in Workers |-> << >>]
    /\ setups = [w \in Workers |-> Unemployed]
    /\ reaper = Asleep
    /\ edits = 0 /\ errors = 0
    /\ kept = {}

GrantNext ==
    \/ (\E f \in Functions : EditFunction(f) \/ RequestDeployment(f))
    \/ EditPackage \/ EditEnvironment
    \/ (\E w \in Workers : Handle(w) \/ Setup(w) \/ SetupError(w))
    \/ Reaper \/ ReaperError \/ ExecutorRestart

(* The goroutines run.                                                     *)
GrantFairness ==
    /\ \A w \in Workers : WF_grantVars(Handle(w) \/ Setup(w))
    /\ WF_grantVars(Reaper)

GrantSpec == GrantInit /\ [][GrantNext]_grantVars /\ GrantFairness

Phases == {"sleep", "functions", "environments", "get", "update", "delete"}
EventsOf(T) == [old : T, new : T]

(* Types of the variables.                                                 *)
GrantTypeOK ==
    /\ binding \in [Binding -> SUBSET Accounts]
    /\ fns \in [Functions -> Fns] /\ package \in Namespaces \union {NoNs}
    /\ envs \in SUBSET Namespaces /\ deployed \in SUBSET Functions
    /\ DOMAIN events = Workers
    /\ \A w \in Workers :
          events[w] \in Seq(EventsOf(IF w \in {"package", "build"}
                                       THEN Namespaces \union {NoNs} ELSE Fns))
    /\ setups \in [Workers ->
                     [pc : {"idle", "get", "create", "patch", "recreate"},
                      todo : Seq(Grants), tries : 0 .. MaxRetries]]
    /\ reaper \in [pc : Phases, left : SUBSET Binding, listed : [Binding -> SUBSET Accounts],
                   used : SUBSET Accounts, undecided : SUBSET Accounts,
                   remove : SUBSET Accounts, new : SUBSET Accounts, tries : 0 .. MaxRetries,
                   fresh : BOOLEAN, rb : Binding]
    /\ edits \in 0 .. MaxEdits /\ errors \in 0 .. MaxErrors
    /\ kept \in SUBSET [rb : Binding, sa : Accounts, why : Reasons]

(* A service account that was set up and that, ever since, a function or   *)
(* an environment has needed, has its grant, whatever the setups, the      *)
(* reaper's lists and its removals do to the role binding meanwhile.       *)
(* Excepted are those set up when a round of CleanupRoleBindings had       *)
(* already decided without the function, or deletes the role binding.      *)
GrantKept == \A k \in kept : k.sa \in binding[k.rb]

(* No account but those that a function or an environment needs.           *)
NoStaleGrants ==
    \A b \in Binding : \A s \in binding[b] :
       FunctionMayNeed(s, fns) \/ (b = "package" /\ s.ns \in envs)
=============================================================================
