---------------------------- MODULE PackageBuild ----------------------------
(***************************************************************************)
(* pkg/buildermgr: the package watcher, for one package and one function   *)
(* that uses it.                                                           *)
(*                                                                         *)
(* The API server keeps the versions of the package; a write names the     *)
(* version it was computed from and succeeds only if that is the latest    *)
(* one.  The informer delivers the versions in order to handlers that mark *)
(* a changed package as pending and start a goroutine for a pending one.   *)
(* The goroutine marks the package as running, lets the environment's      *)
(* builder build the source archive, points the function at the version it *)
(* built, and writes the deployment archive and the result.                *)
(*                                                                         *)
(* The handlers and the goroutines change the object in the informer's     *)
(* store, so that its status may differ from that of its version.          *)
(*                                                                         *)
(* An archive is a number, 0 when it is empty; the archive built from      *)
(* source n is n again.                                                    *)
(***************************************************************************)
EXTENDS Naturals, Sequences

CONSTANTS
    Build,       \* goroutines that execute build, a bound on those at a time
    MaxEdits,    \* bound on the users' edits and rebuilds
    MaxErrors,   \* bound on failed API calls
    MaxRestarts  \* bound on restarts of the manager and of its watch

ASSUME BoundAssumption ==
    MaxEdits \in Nat /\ MaxErrors \in Nat /\ MaxRestarts \in Nat

VARIABLES
    log,       \* versions of the package
    store,     \* the object in the informer's store
    added,     \* the Add event of that object is still to be handled
    build,     \* build[b]: what goroutine b does
    function,  \* package version named by the function, and by a pending write
    loaded,    \* the function version and the archive in a specialized pod
    edits, errors, restarts,
    disturbed  \* a build was lost: see Disturb

watchVars == <<store, added>>
userVars == <<function, loaded, edits>>
vars == <<log, watchVars, build, userVars, errors, restarts, disturbed>>

BuildStatus == {"unset", "pending", "running", "succeeded", "failed", "none"}

Archive == 0 .. MaxEdits + 1

Package == [gen : Nat, src : Archive, deploy : Archive, status : BuildStatus]

(* key: the version the goroutine was started for, copy: the one it writes *)
(* from, built: the source it built.                                       *)
BuildPc == {"idle", "start", "run", "env", "builder", "functions", "unlisted",
            "package", "succeed", "fail"}

BuildState == [pc : BuildPc, key : Nat, copy : Nat, built : Archive]

Resting == [pc |-> "idle", key |-> 0, copy |-> 0, built |-> 0]

LogOK == log \in Seq(Package) /\ log # <<>>

WatchOK ==
    /\ store \in [rv : 0 .. Len(log), status : BuildStatus]
    /\ added \in BOOLEAN

BuildOK ==
    /\ build \in [Build -> BuildState]
    /\ \A b \in Build :
         /\ build[b].key <= build[b].copy /\ build[b].copy <= Len(log)
         /\ build[b].pc = "succeed" => build[b].copy < Len(log)

UserOK ==
    /\ function \in [ref : 1 .. Len(log), cli : 0 .. Len(log)]
    /\ loaded \in [ref : 0 .. Len(log), deploy : Archive]

BoundOK ==
    /\ edits \in 0 .. MaxEdits /\ errors \in 0 .. MaxErrors
    /\ restarts \in 0 .. MaxRestarts
    /\ disturbed \in BOOLEAN

TypeOK == LogOK /\ WatchOK /\ BuildOK /\ UserOK /\ BoundOK

(* A new package has no status; its source or its deployment may be empty. *)
Init ==
    /\ \E s \in {0, 1}, d \in {0, 1} :
         /\ s = 0 \/ d = 0
         /\ log = << [gen |-> 1, src |-> s, deploy |-> d, status |-> "unset"] >>
    /\ store = [rv |-> 0, status |-> "unset"]
    /\ added = FALSE
    /\ build = [b \in Build |-> Resting]
    /\ function = [ref |-> 1, cli |-> 0]
    /\ loaded = [ref |-> 0, deploy |-> 0]
    /\ edits = 0 /\ errors = 0 /\ restarts = 0
    /\ disturbed = FALSE
-----------------------------------------------------------------------------
(* The latest version.                                                     *)
Current == log[Len(log)]

Error == errors < MaxErrors /\ errors' = errors + 1

(* A write from version rv conflicts if there is a newer one.              *)
Latest(rv) == rv = Len(log)

(* A write from version rv does not succeed.                               *)
WriteFails(rv) ==
    IF Latest(rv) THEN Error ELSE UNCHANGED errors

(* updatePackageStatus: the status has a new time and is a new version.    *)
UpdateStatus(rv, status) ==
    /\ Latest(rv)
    /\ log' = Append(log, [Current EXCEPT !.status = status])

(* UpdateStatus of the handlers: nothing is written if nothing changes.    *)
SetPending(rv) ==
    /\ Latest(rv)
    /\ log' = IF Current.status = "pending" THEN log
              ELSE Append(log, [Current EXCEPT !.status = "pending"])

(* go build(pkg): a new goroutine, for the object in the store.            *)
GoBuild(rv) ==
    \E b \in Build :
        /\ build[b].pc = "idle"
        /\ build' = [build EXCEPT ![b] =
                        [pc |-> "start", key |-> rv, copy |-> rv, built |-> 0]]

(* What ends a build without a result: a step that could not be reported   *)
(* in the status, an edit or a restart of the manager while it runs.       *)
Disturb == disturbed' = TRUE
-----------------------------------------------------------------------------
(* watchPackages: the informer and its handlers.                           *)

(* The informer lists the packages.                                        *)
List ==
    /\ store.rv = 0
    /\ store' = [rv |-> Len(log), status |-> Current.status]
    /\ added' = TRUE
    /\ UNCHANGED <<log, build, userVars, errors, restarts, disturbed>>

(* AddFunc.                                                                *)
Add ==
    /\ added
    /\ added' = FALSE
    /\ CASE store.status = "unset" ->
              /\ store' = [store EXCEPT !.status = "pending"]
              /\ \/ SetPending(store.rv) /\ UNCHANGED errors
                 \/ WriteFails(store.rv) /\ UNCHANGED log
              /\ UNCHANGED build
         [] store.status = "pending" ->
              /\ GoBuild(store.rv)
              /\ UNCHANGED <<log, store, errors>>
         [] OTHER -> UNCHANGED <<log, store, build, errors>>
    /\ UNCHANGED <<userVars, restarts, disturbed>>

(* Faulty: a package is marked as pending although it is running.          *)
UpdatesRunning(rv) ==
    LET pkg == log[rv] IN
    IF log[store.rv].gen = pkg.gen
    THEN /\ store' = [rv |-> rv, status |-> pkg.status]
         /\ IF pkg.status = "pending" THEN GoBuild(rv) ELSE UNCHANGED build
         /\ UNCHANGED <<log, errors>>
    ELSE /\ store' = [rv |-> rv, status |-> "pending"]
         /\ \/ SetPending(rv) /\ UNCHANGED errors
            \/ WriteFails(rv) /\ UNCHANGED log
         /\ UNCHANGED build

(* UpdateFunc, for the object in the store and version rv.  A change of    *)
(* the specification makes the package pending, unless it is running: then *)
(* the change is taken for the manager's own.                              *)
Updates(rv) ==
    LET pkg == log[rv] IN
    IF log[store.rv].gen = pkg.gen
    THEN /\ store' = [rv |-> rv, status |-> pkg.status]
         /\ IF pkg.status = "pending" THEN GoBuild(rv) ELSE UNCHANGED build
         /\ UNCHANGED <<log, errors>>
    ELSE IF pkg.status = "running"
    THEN /\ store' = [rv |-> rv, status |-> pkg.status]
         /\ UNCHANGED <<log, build, errors>>
    ELSE /\ store' = [rv |-> rv, status |-> "pending"]
         /\ \/ SetPending(rv) /\ UNCHANGED errors
            \/ WriteFails(rv) /\ UNCHANGED log
         /\ UNCHANGED build

(* The watch delivers the next version.                                    *)
Update ==
    /\ store.rv \in 1 .. Len(log) - 1
    /\ ~added
    /\ Updates(store.rv + 1)
    /\ UNCHANGED <<added, userVars, restarts, disturbed>>

(* The watch was lost: the informer lists again and skips versions.        *)
Relist ==
    /\ store.rv # 0 /\ ~added
    /\ restarts < MaxRestarts
    /\ restarts' = restarts + 1
    /\ \E rv \in store.rv + 2 .. Len(log) : Updates(rv)
    /\ UNCHANGED <<added, userVars, disturbed>>

(* Every hour UpdateFunc is called with the object in the store.           *)
Resync ==
    /\ store.rv # 0 /\ ~added
    /\ store.status = "pending"
    /\ GoBuild(store.rv)
    /\ UNCHANGED <<log, watchVars, userVars, errors, restarts, disturbed>>
-----------------------------------------------------------------------------
(* build.                                                                  *)

Goto(b, pc) == build' = [build EXCEPT ![b].pc = pc]

Return(b) == build' = [build EXCEPT ![b] = Resting]

(* A duplicate request is ignored: its key is in the cache until the other *)
(* goroutine returns.                                                      *)
Start(b) ==
    /\ build[b].pc = "start"
    /\ IF \E x \in Build : /\ build[x].pc \notin {"idle", "start"}
                           /\ build[x].key = build[b].key
       THEN Return(b)
       ELSE Goto(b, "run")
    /\ UNCHANGED <<log, watchVars, userVars, errors, restarts, disturbed>>

(* The status without a source archive, or running.  It is first set in    *)
(* the object, which may still be the one in the store.                    *)
Run(b) ==
    LET rv == build[b].copy
        status == IF log[rv].src # 0 THEN "running"
                  ELSE IF log[rv].deploy = 0 THEN "failed" ELSE "none"
    IN
    /\ build[b].pc = "run"
    /\ store' = IF store.rv = rv THEN [store EXCEPT !.status = status] ELSE store
    /\ \/ /\ UpdateStatus(rv, status)
          /\ IF status = "running"
             THEN build' = [build EXCEPT ![b].pc = "env", ![b].copy = Len(log) + 1]
             ELSE Return(b)
          /\ UNCHANGED <<errors, disturbed>>
       \/ /\ WriteFails(rv)
          /\ Return(b)
          /\ disturbed' = (disturbed \/ Latest(rv))
          /\ UNCHANGED log
    /\ UNCHANGED <<added, userVars, restarts>>

(* The environment is read: it may be missing.  After another error the    *)
(* goroutine returns and the package stays running.                        *)
GetEnv(b) ==
    /\ build[b].pc = "env"
    /\ \/ Goto(b, "builder") /\ UNCHANGED <<errors, disturbed>>
       \/ Goto(b, "fail") /\ UNCHANGED <<errors, disturbed>>
       \/ Return(b) /\ Error /\ Disturb
    /\ UNCHANGED <<log, watchVars, userVars, restarts>>

(* The builder's fetcher reads the latest package and its source is built, *)
(* or the builder does not become ready, or the build fails.               *)
BuildPackage(b) ==
    /\ build[b].pc = "builder"
    /\ \/ /\ Current.src # 0
          /\ build' = [build EXCEPT ![b].pc = "functions", ![b].built = Current.src]
       \/ Goto(b, "fail")
    /\ UNCHANGED <<log, watchVars, userVars, errors, restarts, disturbed>>

(* Faulty: the function is not updated.                                    *)
SkipFunctions(b) ==
    /\ build[b].pc = "functions"
    /\ Goto(b, "package")
    /\ UNCHANGED <<log, watchVars, userVars, errors, restarts, disturbed>>

(* The function is listed and updated to the version that was built, which *)
(* makes a write of the command line fail that read the function before;   *)
(* or such a write comes in between, or the update fails, or the list.     *)
UpdateFunctions(b) ==
    /\ build[b].pc = "functions"
    /\ \/ /\ function' = [ref |-> build[b].copy, cli |-> 0]
          /\ Goto(b, "package")
          /\ UNCHANGED errors
       \/ /\ function.cli # 0
          /\ function' = [ref |-> function.cli, cli |-> 0]
          /\ Goto(b, "fail")
          /\ UNCHANGED errors
       \/ /\ Error
          /\ Goto(b, "fail")
          /\ UNCHANGED function
       \/ /\ Error
          /\ Goto(b, "unlisted")
          /\ UNCHANGED function
    /\ UNCHANGED <<log, watchVars, loaded, edits, restarts, disturbed>>

(* The failed list is reported, and the build goes on.                     *)
ReportUnlisted(b) ==
    /\ build[b].pc = "unlisted"
    /\ \/ UpdateStatus(build[b].copy, "failed") /\ UNCHANGED errors
       \/ WriteFails(build[b].copy) /\ UNCHANGED log
    /\ Goto(b, "package")
    /\ UNCHANGED <<watchVars, userVars, restarts, disturbed>>

(* The latest version with deployment archive d.                           *)
WithArchive(d) ==
    [gen |-> Current.gen + 1, src |-> Current.src, deploy |-> d,
     status |-> Current.status]

(* Faulty: the archive is written into the latest package.                 *)
UpdateLatest(b) ==
    /\ build[b].pc = "package"
    /\ log' = Append(log, WithArchive(build[b].built))
    /\ build' = [build EXCEPT ![b].pc = "succeed", ![b].copy = Len(log)]
    /\ UNCHANGED <<watchVars, userVars, errors, restarts, disturbed>>

(* The deployment archive is written.                                      *)
UpdatePackage(b) ==
    /\ build[b].pc = "package"
    /\ \/ /\ Latest(build[b].copy)
          /\ log' = Append(log, WithArchive(build[b].built))
          /\ Goto(b, "succeed")
          /\ UNCHANGED errors
       \/ /\ WriteFails(build[b].copy)
          /\ Goto(b, "fail")
          /\ UNCHANGED log
    /\ UNCHANGED <<watchVars, userVars, restarts, disturbed>>

(* The status is written to the version with the archive.  If that fails   *)
(* the failure is reported from the version before it, in vain.            *)
Succeed(b) ==
    /\ build[b].pc = "succeed"
    /\ \/ UpdateStatus(build[b].copy + 1, "succeeded") /\ UNCHANGED <<errors, disturbed>>
       \/ /\ WriteFails(build[b].copy + 1)
          /\ Disturb
          /\ UNCHANGED log
    /\ Return(b)
    /\ UNCHANGED <<watchVars, userVars, restarts>>

(* Faulty: the failure is not reported.                                    *)
FailSilently(b) ==
    /\ build[b].pc = "fail"
    /\ Return(b)
    /\ UNCHANGED <<log, watchVars, userVars, errors, restarts, disturbed>>

(* The failure is reported; an error is ignored.                           *)
Fail(b) ==
    /\ build[b].pc = "fail"
    /\ \/ UpdateStatus(build[b].copy, "failed") /\ UNCHANGED <<errors, disturbed>>
       \/ /\ WriteFails(build[b].copy)
          /\ disturbed' = (disturbed \/ Latest(build[b].copy))
          /\ UNCHANGED log
    /\ Return(b)
    /\ UNCHANGED <<watchVars, userVars, restarts>>
-----------------------------------------------------------------------------
(* A user gives the package another source, or a deployment archive of its *)
(* own instead of the source.  The status cannot be written with it.  Then *)
(* the command line updates the function, which it has read before.        *)
EditPackage ==
    /\ edits < MaxEdits
    /\ edits' = edits + 1
    /\ \E spec \in {[src |-> edits + 2, deploy |-> Current.deploy],
                    [src |-> 0, deploy |-> edits + 2]} :
         log' = Append(log, [gen |-> Current.gen + 1, src |-> spec.src,
                             deploy |-> spec.deploy, status |-> Current.status])
    /\ function' = [function EXCEPT !.cli = Len(log) + 1]
    /\ disturbed' = (disturbed \/ Current.status = "running")
    /\ UNCHANGED <<watchVars, build, loaded, errors, restarts>>

UpdateFunctionPackageResourceVersion ==
    /\ function.cli # 0
    /\ function' = [ref |-> function.cli, cli |-> 0]
    /\ UNCHANGED <<log, watchVars, build, loaded, edits, errors, restarts, disturbed>>

(* The command line's rebuild of a package that failed.                    *)
Rebuild ==
    /\ edits < MaxEdits
    /\ edits' = edits + 1
    /\ Current.status = "failed"
    /\ UpdateStatus(Len(log), "pending")
    /\ UNCHANGED <<watchVars, build, function, loaded, errors, restarts, disturbed>>

(* A pod is specialized for the function: the fetcher refuses a package    *)
(* that is not built.                                                      *)
Fetch ==
    /\ Current.status \in {"succeeded", "none"}
    /\ loaded' = [ref |-> function.ref, deploy |-> Current.deploy]
    /\ UNCHANGED <<log, watchVars, build, function, edits, errors, restarts, disturbed>>

(* The manager stops and starts again.                                     *)
Crash ==
    /\ restarts < MaxRestarts
    /\ restarts' = restarts + 1
    /\ store' = [rv |-> 0, status |-> "unset"]
    /\ added' = FALSE
    /\ build' = [b \in Build |-> Resting]
    /\ disturbed' = (disturbed \/ Current.status = "running")
    /\ UNCHANGED <<log, userVars, errors>>

Watch == List \/ Add \/ Update

Goroutine(b) ==
    \/ Start(b) \/ Run(b) \/ GetEnv(b) \/ BuildPackage(b) \/ UpdateFunctions(b)
    \/ ReportUnlisted(b) \/ UpdatePackage(b) \/ Succeed(b) \/ Fail(b)

Next ==
    \/ Watch \/ Relist \/ Resync
    \/ \E b \in Build : Goroutine(b)
    \/ EditPackage \/ UpdateFunctionPackageResourceVersion \/ Rebuild
    \/ Fetch \/ Crash

Spec == Init /\ [][Next]_vars

(* The informer and the goroutines run, and the hourly resync comes.       *)
Fairness ==
    /\ WF_vars(Watch)
    /\ WF_vars(Resync)
    /\ \A b \in Build : WF_vars(Goroutine(b))

FairSpec == Spec /\ Fairness
-----------------------------------------------------------------------------
(* A package that becomes succeeded has the deployment archive that was    *)
(* built from its own source, whatever was edited during the build.        *)
SucceededIsBuilt ==
    [][Current'.status = "succeeded" /\ Current.status # "succeeded"
         => Current'.deploy = Current'.src /\ Current'.src # 0]_vars

Building(b) ==
    build[b].pc \in {"env", "builder", "functions", "unlisted", "succeed"}

(* At most one goroutine has marked the package as running and has not     *)
(* reported a result.  (A goroutine that reported that it could not list   *)
(* the functions still tries to write the archive, and fails.)             *)
OneBuildAtATime ==
    \A b, x \in Build : Building(b) /\ Building(x) => b = x

(* Once the package has been built, a pod that was specialized for the     *)
(* present version of the function holds the archive of the package: one   *)
(* with older code was specialized for another version.  (With at most one *)
(* failed call: a failed list of functions whose report fails as well      *)
(* leaves the function as it was.)                                         *)
FreshCode ==
    Current.status = "succeeded" /\ Current.deploy = Current.src
        => (loaded.ref = function.ref => loaded.deploy = Current.deploy)

(* A package that is not built yet ends succeeded, failed or, without      *)
(* source, none, unless its build was lost: by an edit or a restart while  *)
(* it was running, or by a result that could not be reported.              *)
BuildEnds ==
    Current.status \in {"unset", "pending", "running"}
        ~> (Current.status \in {"succeeded", "failed", "none"} \/ disturbed)
-----------------------------------------------------------------------------
(* The inductive invariant from which SucceededIsBuilt and OneBuildAtATime *)
(* follow, whatever the number of goroutines, edits, errors and restarts.  *)

(* The goroutine that may still write a result: it has marked the package  *)
(* as running, and has not reported yet or cannot because of an edit.      *)
Owns(b) ==
    \/ Building(b)
    \/ build[b].pc \in {"package", "fail"} /\ Latest(build[b].copy)

OwnerRuns == \A b \in Build : Owns(b) => Current.status = "running"

OneOwner == \A b, x \in Build : Owns(b) /\ Owns(x) => b = x

(* Builds are requested for versions that are not running.                 *)
Requested ==
    /\ store.status = "pending" => store.rv # 0 /\ log[store.rv].status # "running"
    /\ added => store.rv # 0 /\ store.status = log[store.rv].status
    /\ store.rv = 0 \/ added => \A b \in Build : build[b].pc = "idle"
    /\ \A b \in Build : build[b].pc # "idle" => build[b].copy # 0
    /\ \A b \in Build :
         build[b].pc \in {"start", "run"} => log[build[b].copy].status # "running"

(* What a goroutine can still write was built from the latest source.      *)
FromCurrent(b) ==
    /\ build[b].pc \in {"functions", "unlisted", "package"} /\ Latest(build[b].copy)
         => build[b].built = Current.src /\ Current.src # 0
    /\ build[b].pc = "succeed" /\ Latest(build[b].copy + 1)
         => Current.deploy = Current.src /\ Current.src # 0

BuiltFromCurrent == \A b \in Build : FromCurrent(b)

IInv == TypeOK /\ OwnerRuns /\ OneOwner /\ Requested /\ BuiltFromCurrent

(* The further invariant from which FreshCode follows as long as at most   *)
(* one call has failed.                                                    *)

(* Every archive is older than the next edit.                              *)
ArchivesNumbered ==
    /\ Current.src <= edits + 1 /\ Current.deploy <= edits + 1
    /\ \A b \in Build : build[b].built <= edits + 1

(* No pod was specialized since the owner has begun.                       *)
NotLoaded == \A b \in Build : Owns(b) => loaded.ref < build[b].copy

UnlistedIsError == \A b \in Build : build[b].pc = "unlisted" => errors >= 1

(* The goroutine will write, or has written, the archive of the latest     *)
(* version, and not its result.                                            *)
Writes(b) ==
    \/ build[b].pc = "package" /\ Latest(build[b].copy)
    \/ build[b].pc = "succeed" /\ Latest(build[b].copy + 1)

(* Such a goroutine has pointed the function at its version, and no write  *)
(* of the command line is on its way.                                      *)
FunctionUpdated ==
    \A b \in Build : Writes(b) => function.ref = build[b].copy /\ function.cli = 0

BuiltIsUsed ==
    Current.status = "succeeded" /\ Current.deploy = Current.src => function.cli = 0

FreshInv ==
    /\ ArchivesNumbered /\ NotLoaded /\ UnlistedIsError
    /\ errors <= 1 => FunctionUpdated /\ BuiltIsUsed /\ FreshCode
=============================================================================
