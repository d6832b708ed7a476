------------------------------- MODULE Fetcher -------------------------------
(***************************************************************************)
(* The fetcher of one function pod: it puts the archive of a package, the  *)
(* secrets and the config maps into the volumes that it shares with the    *)
(* environment's container, and tells that one to load the function.       *)
(*                                                                         *)
(* The request comes from the executor (pool manager), whose client sends  *)
(* it again after an error although the handler of the first may still be  *)
(* running, or from the fetcher's own command line (new deployment), which *)
(* exits on an error and is started again.  The volumes outlive the        *)
(* fetcher's process.                                                      *)
(***************************************************************************)
EXTENDS Integers, FiniteSets

CONSTANTS
    Attempts,       \* requests that the client sends, at most
    PkgRetries,     \* of getPkgInformation
    LoadRetries,    \* of SpecializePod
    MaxVersion,     \* versions of the package
    MaxLost         \* calls that fail, answers that are lost, restarts

ASSUME FetcherAssumption ==
    /\ Attempts \in Nat \ {0} /\ PkgRetries \in Nat \ {0} /\ LoadRetries \in Nat \ {0}
    /\ MaxVersion \in Nat /\ MaxLost \in Nat

VARIABLES
    setting,        \* how the pod is started, and what the package and the
                    \* environment are like
    pkg,            \* version of the package, and whether that is built
    built,          \* versions that were built
    tmp,            \* the file named <filename>.tmp, or NoFile
    target,         \* the file or directory named <filename>, or NoFile
    contents,       \* what is in every file
    secrets,        \* secrets and config maps are in their volumes
    env,            \* the environment's container
    handlers,       \* of every request
    client,         \* the request that is awaited, and the outcome
    lost,           \* failures so far
    overlapped      \* two handlers used the .tmp file at the same time

volumeVars == <<tmp, target, contents, secrets>>
packageVars == <<pkg, built>>
fetchVars == <<setting, packageVars, volumeVars, env, handlers, client, lost, overlapped>>

Requests == 1 .. Attempts
NoFile == [kind |-> "none", by |-> 0]
Files == [kind : {"file", "dir"}, by : Requests]
Content(v, whole) == [ver |-> v, whole |-> whole]
Empty == Content(0, FALSE)
NotRunning == [pc |-> "none", ver |-> 0, built |-> FALSE, file |-> NoFile, tries |-> 0,
               cancelled |-> FALSE]

(* A version counts from the moment the API server shows the package.      *)
FetchInit ==
    /\ setting \in [onStartup : BOOLEAN, zip : BOOLEAN, checksum : BOOLEAN,
                    reloads : BOOLEAN]
    /\ pkg = [ver |-> 0, built |-> FALSE] /\ built = {}
    /\ tmp = NoFile /\ target = NoFile
    /\ contents = [f \in Files |-> Empty]
    /\ secrets = FALSE
    /\ env = [up |-> FALSE, loaded |-> Empty]
    /\ handlers = [n \in Requests |-> NotRunning]
    /\ client = [n |-> 1, state |-> "send"]
    /\ lost = 0 /\ overlapped = FALSE

At(n, pc) == handlers[n].pc = pc
Step(n, pc) == handlers' = [handlers EXCEPT ![n].pc = pc, ![n].tries = 0]
Retry(n) == handlers' = [handlers EXCEPT ![n].tries = @ + 1]
Lose == lost < MaxLost /\ lost' = lost + 1
Answered == {"ok", "error"}

-----------------------------------------------------------------------------
(* The package and the environment's container, while the pod starts.      *)

PackageChanges ==
    /\ \/ pkg.ver < MaxVersion /\ pkg' = [ver |-> pkg.ver + 1, built |-> FALSE]
          /\ UNCHANGED built
       \/ /\ pkg.ver > 0 /\ ~pkg.built
          /\ pkg' = [pkg EXCEPT !.built = TRUE] /\ built' = built \union {pkg.ver}
    /\ UNCHANGED <<setting, volumeVars, env, handlers, client, lost, overlapped>>

EnvStarts ==
    /\ ~env.up /\ env' = [env EXCEPT !.up = TRUE]
    /\ UNCHANGED <<setting, packageVars, volumeVars, handlers, client, lost, overlapped>>

-----------------------------------------------------------------------------
(* sendRequest, or SpecializePod as the process starts: attempt n begins.  *)
Send(n) ==
    /\ client = [n |-> n, state |-> "send"]
    /\ client' = [client EXCEPT !.state = "wait"]
    /\ Step(n, "package")
    /\ UNCHANGED <<setting, packageVars, volumeVars, env, lost, overlapped>>

(* The next attempt, or the last has failed.                               *)
NextAttempt(n) ==
    client' = IF n < Attempts THEN [n |-> n + 1, state |-> "send"]
              ELSE [n |-> n, state |-> "failed"]

Receive(n) ==
    /\ client = [n |-> n, state |-> "wait"] /\ handlers[n].pc \in Answered
    /\ \/ At(n, "ok") /\ client' = [client EXCEPT !.state = "ok"]
       \/ At(n, "error") /\ NextAttempt(n)
    /\ UNCHANGED <<setting, packageVars, volumeVars, env, handlers, lost, overlapped>>

(* The connection breaks: the handler runs on, without its context.        *)
Disconnect(n) ==
    /\ ~setting.onStartup /\ client = [n |-> n, state |-> "wait"] /\ Lose
    /\ NextAttempt(n)
    /\ handlers' = [handlers EXCEPT ![n].cancelled = TRUE]
    /\ UNCHANGED <<setting, packageVars, volumeVars, env, overlapped>>

(* The fetcher's container is restarted.                                   *)
FetcherRestart ==
    /\ client.state = "wait" /\ Lose
    /\ NextAttempt(client.n)
    /\ handlers' = [n \in Requests |-> NotRunning]
    /\ UNCHANGED <<setting, packageVars, volumeVars, env, overlapped>>

-----------------------------------------------------------------------------
(* getPkgInformation: a package that is not there yet is asked for again.  *)
GetPkgInformation(n) ==
    /\ At(n, "package")
    /\ \/ /\ pkg.ver > 0
          /\ handlers' = [handlers EXCEPT ![n].pc = "stat", ![n].tries = 0,
                                          ![n].ver = pkg.ver, ![n].built = pkg.built]
       \/ /\ pkg.ver = 0
          /\ IF handlers[n].tries + 1 < PkgRetries THEN Retry(n) ELSE Step(n, "error")
    /\ UNCHANGED <<setting, packageVars, volumeVars, env, client, lost, overlapped>>

(* Mutant: the build status is not looked at.                              *)
FetchableAlways(n) == TRUE

(* The deployment archive of a package that is not built is refused.       *)
Fetchable(n) == handlers[n].built

(* Fetch: what is there already is not fetched again.                      *)
FetchStat(n) ==
    /\ At(n, "stat")
    /\ Step(n, IF target # NoFile THEN "secrets"
               ELSE IF Fetchable(n) THEN "open" ELSE "error")
    /\ UNCHANGED <<setting, packageVars, volumeVars, env, client, lost, overlapped>>

(* os.Create truncates the .tmp file if there is one.                      *)
Opened(n) == IF tmp = NoFile THEN [kind |-> "file", by |-> n] ELSE tmp

UsesTmp(n) == handlers[n].pc \in {"write", "verify", "unarchive", "rename"}

(* DownloadUrl asks for the archive, and then opens the .tmp file.         *)
FetchOpen(n) ==
    /\ At(n, "open")
    /\ IF handlers[n].cancelled THEN Step(n, "error") /\ UNCHANGED <<volumeVars, overlapped>>
       ELSE /\ tmp' = Opened(n)
            /\ contents' = [contents EXCEPT ![Opened(n)] = Content(handlers[n].ver, FALSE)]
            /\ handlers' = [handlers EXCEPT ![n].pc = "write", ![n].file = Opened(n)]
            /\ overlapped' = (overlapped \/ \E m \in Requests \ {n} : UsesTmp(m))
            /\ UNCHANGED <<target, secrets>>
    /\ UNCHANGED <<setting, packageVars, env, client, lost>>

(* All is copied.  If another handler writes to the same file, either may  *)
(* spoil it for the other.                                                 *)
FetchWritten(n) ==
    LET f == handlers[n].file
        alone == \A m \in Requests \ {n} : ~(At(m, "write") /\ handlers[m].file = f)
    IN  /\ At(n, "write") /\ ~handlers[n].cancelled
        /\ \E whole \in (IF alone THEN {TRUE} ELSE BOOLEAN) :
              contents' = [contents EXCEPT ![f] = Content(handlers[n].ver, whole)]
        /\ Step(n, "verify")
        /\ UNCHANGED <<setting, packageVars, tmp, target, secrets, env, client, lost, overlapped>>

(* The download fails; what was written so far stays.                      *)
FetchBroken(n) ==
    /\ At(n, "write")
    /\ IF handlers[n].cancelled THEN UNCHANGED lost ELSE Lose
    /\ Step(n, "error")
    /\ UNCHANGED <<setting, packageVars, volumeVars, env, client, overlapped>>

(* verifyChecksum, if the archive has a checksum.                          *)
FetchVerify(n) ==
    /\ At(n, "verify")
    /\ Step(n, IF setting.checksum
                  /\ (tmp = NoFile \/ contents[tmp] # Content(handlers[n].ver, TRUE))
                 THEN "error" ELSE "unarchive")
    /\ UNCHANGED <<setting, packageVars, volumeVars, env, client, lost, overlapped>>

(* A zip archive is unpacked into a directory of its own.  Half a zip      *)
(* archive cannot be, or is not taken for one.                             *)
FetchUnarchive(n) ==
    LET dir == [kind |-> "dir", by |-> n]
        Move(f) == handlers' = [handlers EXCEPT ![n].pc = "rename", ![n].file = f]
    IN  /\ At(n, "unarchive")
        /\ IF ~setting.zip \/ tmp = NoFile THEN Move(tmp) /\ UNCHANGED contents
           ELSE IF contents[tmp].whole
             THEN /\ contents' = [contents EXCEPT ![dir] = contents[tmp]]
                  /\ Move(dir)
           ELSE (Step(n, "error") \/ Move(tmp)) /\ UNCHANGED contents
        /\ UNCHANGED <<setting, packageVars, tmp, target, secrets, env, client, lost, overlapped>>

(* A file replaces a file; a directory replaces nothing.                   *)
FetchRename(n) ==
    LET dir == handlers[n].file.kind = "dir"
        possible == IF dir THEN target = NoFile ELSE tmp # NoFile /\ target.kind # "dir"
    IN  /\ At(n, "rename")
        /\ IF possible
             THEN /\ target' = (IF dir THEN handlers[n].file ELSE tmp)
                  /\ tmp' = (IF dir THEN tmp ELSE NoFile)
                  /\ Step(n, "secrets")
             ELSE Step(n, "error") /\ UNCHANGED <<tmp, target>>
        /\ UNCHANGED <<setting, packageVars, contents, secrets, env, client, lost, overlapped>>

(* FetchSecretsAndCfgMaps                                                  *)
FetchSecretsAndCfgMaps(n) ==
    /\ At(n, "secrets")
    /\ \/ secrets' = TRUE /\ Step(n, "load") /\ UNCHANGED lost
       \/ Lose /\ Step(n, "error") /\ UNCHANGED secrets
    /\ UNCHANGED <<setting, packageVars, tmp, target, contents, env, client, overlapped>>

(* The environment's server (external) reads what the target file holds;   *)
(* some load only once.                                                    *)
EnvLoads == env' = [env EXCEPT !.loaded = contents[target]]
EnvAccepts == env.loaded = Empty \/ setting.reloads

(* The end of SpecializePod: a server that does not listen yet is called   *)
(* again.                                                                  *)
SpecializePod(n) ==
    /\ At(n, "load")
    /\ \/ env.up /\ EnvAccepts /\ EnvLoads /\ Step(n, "ok")
       \/ env.up /\ ~EnvAccepts /\ Step(n, "error") /\ UNCHANGED env
       \/ /\ ~env.up /\ UNCHANGED env
          /\ IF handlers[n].tries + 1 < LoadRetries THEN Retry(n) ELSE Step(n, "error")
    /\ UNCHANGED <<setting, packageVars, volumeVars, client, lost, overlapped>>

Fetch(n) ==
    \/ FetchStat(n) \/ FetchOpen(n) \/ FetchWritten(n) \/ FetchBroken(n)
    \/ FetchVerify(n) \/ FetchUnarchive(n) \/ FetchRename(n)

(* SpecializeHandler                                                       *)
SpecializeHandler(n) ==
    GetPkgInformation(n) \/ Fetch(n) \/ FetchSecretsAndCfgMaps(n) \/ SpecializePod(n)

(* The pod is specialized, or given up: the executor deletes it.           *)
Ended == client.state \in {"ok", "failed"} /\ UNCHANGED fetchVars

FetchNext ==
    \/ PackageChanges \/ EnvStarts \/ FetcherRestart \/ Ended
    \/ \E n \in Requests : Send(n) \/ Receive(n) \/ Disconnect(n) \/ SpecializeHandler(n)

(* The client's goroutine and the handlers run.                            *)
FetchFairness ==
    /\ \A n \in Requests : WF_fetchVars(Send(n) \/ Receive(n))
    /\ \A n \in Requests : WF_fetchVars(SpecializeHandler(n))

FetchSpec == FetchInit /\ [][FetchNext]_fetchVars /\ FetchFairness

Steps == {"none", "package", "stat", "open", "write", "verify", "unarchive", "rename",
          "secrets", "load", "ok", "error"}

(* Types of the variables.                                                 *)
FetchTypeOK ==
    /\ setting \in [onStartup : BOOLEAN, zip : BOOLEAN, checksum : BOOLEAN,
                    reloads : BOOLEAN]
    /\ pkg \in [ver : 0 .. MaxVersion, built : BOOLEAN] /\ built \in SUBSET (1 .. MaxVersion)
    /\ tmp \in Files \union {NoFile} /\ target \in Files \union {NoFile}
    /\ contents \in [Files -> [ver : 0 .. MaxVersion, whole : BOOLEAN]]
    /\ env \in [up : BOOLEAN, loaded : [ver : 0 .. MaxVersion, whole : BOOLEAN]]
    /\ handlers \in [Requests -> [pc : Steps, ver : 0 .. MaxVersion, built : BOOLEAN,
                                  file : Files \union {NoFile}, tries : Nat,
                                  cancelled : BOOLEAN]]
    /\ client \in [n : Requests, state : {"send", "wait", "ok", "failed"}]
    /\ secrets \in BOOLEAN /\ lost \in 0 .. MaxLost /\ overlapped \in BOOLEAN

(* A pod whose specialization was reported as done has loaded its function *)
(* (SpecializePod), and what a pod loads is a whole archive of a version   *)
(* of the package that was built, with its secrets in place: whatever      *)
(* downloads broke off, in whichever step the fetcher was restarted, and   *)
(* whatever earlier attempts left in the volume, as long as no two         *)
(* attempts were in the middle of the .tmp file at the same time.          *)
LoadedIsWhole ==
    /\ client.state = "ok" => env.loaded # Empty
    /\ env.loaded # Empty =>
          /\ secrets
          /\ env.loaded.ver \in built
          /\ ~overlapped => env.loaded.whole

(* The executor has its answer.                                            *)
SpecializeEnded == client.state \in {"ok", "failed"}
=============================================================================
