------------------------------- MODULE Canary -------------------------------
(***************************************************************************)
(* pkg/canaryconfigmgr: the manager that shifts the traffic of an HTTP     *)
(* trigger from an old function to a new one, step by step, and back when  *)
(* the new one fails too often.  The model has one canary config.          *)
(*                                                                         *)
(* An informer keeps a copy of the config (the store) that lags behind the *)
(* API server; its handlers start goroutines.  A goroutine that processes  *)
(* the config (a worker) selects between its context, its ticker and its   *)
(* quit channel, and is registered in a map by the config's name.  A       *)
(* worker is reused after it has returned.                                 *)
(*                                                                         *)
(* Weights are in units of which the whole traffic is Full.                *)
(***************************************************************************)
EXTENDS Naturals

CONSTANTS
    Worker,       \* goroutines that process the config
    Full,         \* the whole traffic (100 per cent)
    Increment,    \* WeightIncrement
    MaxRetries,   \* maxRetries of the updates that meet conflicts
    MaxErrors,    \* bound on conflicts, failed calls and deleted triggers
    MaxGen,       \* bound on the generations of the config
    NoCfg, NoTrigger, NoWorker

ASSUME WeightAssumption ==
    /\ Full \in Nat \ {0} /\ Increment \in Nat \ {0}
    /\ MaxRetries \in Nat \ {0} /\ MaxErrors \in Nat /\ MaxGen \in Nat

ASSUME SentinelAssumption == NoWorker \notin Worker

VARIABLES
    cfg,          \* the config in the API server
    store,        \* the informer's copy
    weights,      \* the trigger's function weights in the API server
    cancelFuncMap,\* the worker registered for the config
    deleting,     \* the goroutine of a delete event has still to run
    pc,           \* pc[w]: where worker w is
    cancelled,    \* workers whose context is done
    ticking,      \* workers whose ticker runs
    tick,         \* workers with a tick in their ticker's channel
    quit,         \* workers whose quit channel is closed
    trigger,      \* trigger[w]: the weights that worker w has read
    tries,        \* tries[w]: conflicts of the update in progress
    rolledBack,   \* the trigger was rolled back, and neither the config was changed
                  \* nor the manager restarted since
    errors        \* number of errors so far

workerVars == <<pc, cancelled, ticking, tick, quit, trigger, tries>>
apiVars == <<cfg, weights>>
vars == <<apiVars, store, cancelFuncMap, deleting, workerVars, rolledBack, errors>>

Status == {"", "pending", "succeeded", "failed"}

Config == [gen : 0 .. MaxGen, status : Status]

Weights == [new : 0 .. Full, old : 0 .. Full]

(* The states in which a worker is in processCanaryConfig.                 *)
Processing == {"select", "lookup", "check", "rollback", "setFailed", "forward",
               "setSucceeded", "close"}

TypeOK ==
    /\ cfg \in Config \cup {NoCfg}
    /\ store \in Config \cup {NoCfg}
    /\ weights \in Weights \cup {NoTrigger}
    /\ cancelFuncMap \in Worker \cup {NoWorker}
    /\ deleting \in BOOLEAN
    /\ pc \in [Worker -> Processing \cup {"free", "cancelOld", "removeOld", "assign"}]
    /\ cancelled \subseteq Worker
    /\ ticking \subseteq Worker
    /\ tick \subseteq Worker
    /\ quit \subseteq Worker
    /\ trigger \in [Worker -> Weights \cup {NoTrigger}]
    /\ tries \in [Worker -> 0 .. MaxRetries]
    /\ rolledBack \in BOOLEAN
    /\ errors \in 0 .. MaxErrors

Init ==
    /\ cfg = [gen |-> 0, status |-> ""]
    /\ store = NoCfg
    /\ weights = [new |-> 0, old |-> Full]
    /\ cancelFuncMap = NoWorker
    /\ deleting = FALSE
    /\ pc = [w \in Worker |-> "free"]
    /\ cancelled = {} /\ ticking = {} /\ tick = {} /\ quit = {}
    /\ trigger = [w \in Worker |-> NoTrigger]
    /\ tries = [w \in Worker |-> 0]
    /\ rolledBack = FALSE
    /\ errors = 0
-----------------------------------------------------------------------------
Goto(w, s) == pc' = [pc EXCEPT ![w] = s]

Error ==
    /\ errors < MaxErrors
    /\ errors' = errors + 1

(* canaryConfigCancelFuncMap: lookup finds an entry under the config's name*)
(* (assign does not replace it, remove of a missing entry does nothing).   *)
Registered == cancelFuncMap # NoWorker

(* UpdateStatus on the config that is in the API server now.               *)
SetStatus(s) == cfg' = IF cfg = NoCfg THEN cfg ELSE [cfg EXCEPT !.status = s]
-----------------------------------------------------------------------------
(* The informer, whose handlers run one after the other.                   *)

(* AddFunc sets the status to pending, whatever it is.                     *)
AddEvent ==
    /\ store = NoCfg /\ cfg # NoCfg
    /\ store' = cfg
    /\ \/ SetStatus("pending") /\ UNCHANGED errors
       \/ Error /\ UNCHANGED cfg
    /\ UNCHANGED <<weights, cancelFuncMap, deleting, workerVars, rolledBack>>

(* UpdateFunc starts updateCanaryConfig when the generation has changed.   *)
UpdateEvent ==
    /\ store # NoCfg /\ cfg \notin {NoCfg, store}
    /\ store' = cfg
    /\ IF cfg.gen # store.gen /\ cfg.status = "pending"
       THEN \E w \in Worker : pc[w] = "free" /\ Goto(w, "cancelOld")
       ELSE UNCHANGED pc
    /\ UNCHANGED <<apiVars, cancelFuncMap, deleting, cancelled, ticking, tick, quit,
                   trigger, tries, rolledBack, errors>>

DeleteEvent ==
    /\ store # NoCfg /\ cfg = NoCfg
    /\ store' = NoCfg
    /\ deleting' = TRUE
    /\ UNCHANGED <<apiVars, cancelFuncMap, workerVars, rolledBack, errors>>

(* reSyncCanaryConfigs, started by every update and resync of the informer,*)
(* starts addCanaryConfig for a pending config that has no entry.          *)
ReSync ==
    /\ store # NoCfg
    /\ ~Registered
    /\ \/ /\ store.status = "pending"
          /\ \E w \in Worker : pc[w] = "free" /\ Goto(w, "assign")
          /\ UNCHANGED cfg
       \/ /\ store.status = ""
          /\ SetStatus("pending")
          /\ UNCHANGED pc
    /\ UNCHANGED <<weights, store, cancelFuncMap, deleting, cancelled, ticking, tick,
                   quit, trigger, tries, rolledBack, errors>>

(* deleteCanaryConfig: the registered worker's ticker is stopped and its   *)
(* context cancelled.                                                      *)
CancelRegistered ==
    LET registered == {cancelFuncMap} \ {NoWorker} IN
    /\ ticking' = ticking \ registered
    /\ cancelled' = cancelled \cup registered

HandleDelete ==
    /\ deleting
    /\ deleting' = FALSE
    /\ CancelRegistered
    /\ UNCHANGED <<apiVars, store, cancelFuncMap, pc, tick, quit, trigger, tries,
                   rolledBack, errors>>
-----------------------------------------------------------------------------
(* updateCanaryConfig: cancel the old worker, remove the entry, then add.  *)
CancelOld(w) ==
    /\ pc[w] = "cancelOld"
    /\ CancelRegistered
    /\ Goto(w, "removeOld")
    /\ UNCHANGED <<apiVars, store, cancelFuncMap, deleting, tick, quit, trigger, tries,
                   rolledBack, errors>>

RemoveOld(w) ==
    /\ pc[w] = "removeOld"
    /\ cancelFuncMap' = NoWorker
    /\ Goto(w, "assign")
    /\ UNCHANGED <<apiVars, store, deleting, cancelled, ticking, tick, quit, trigger,
                   tries, rolledBack, errors>>

(* addCanaryConfig: the worker registers itself, or returns when there is  *)
(* an entry already.                                                       *)
Assign(w) ==
    /\ pc[w] = "assign"
    /\ \/ /\ ~Registered
          /\ cancelFuncMap' = w
          /\ ticking' = ticking \cup {w}
          /\ Goto(w, "select")
       \/ /\ Registered
          /\ Goto(w, "free")
          /\ UNCHANGED <<cancelFuncMap, ticking>>
    /\ UNCHANGED <<apiVars, store, deleting, cancelled, tick, quit, trigger, tries,
                   rolledBack, errors>>

(* Time passes; a ticker's channel holds one tick.                         *)
TickerFires(w) ==
    /\ w \in ticking
    /\ w \notin tick
    /\ tick' = tick \cup {w}
    /\ UNCHANGED <<apiVars, store, cancelFuncMap, deleting, pc, cancelled, ticking, quit,
                   trigger, tries, rolledBack, errors>>

(* Faulty: the worker returns and leaves its entry in the map.             *)
ReturnLeavesEntry(w) ==
    /\ pc[w] = "select"
    /\ w \in cancelled \cup quit
    /\ Goto(w, "free")
    /\ cancelled' = cancelled \ {w}
    /\ quit' = quit \ {w}
    /\ ticking' = ticking \ {w}
    /\ tick' = tick \ {w}
    /\ UNCHANGED <<apiVars, store, cancelFuncMap, deleting, trigger, tries, rolledBack,
                   errors>>

(* processCanaryConfig selects its context or its quit channel: it removes *)
(* the entry under the config's name and returns.                          *)
Return(w) ==
    /\ pc[w] = "select"
    /\ w \in cancelled \cup quit
    /\ cancelFuncMap' = NoWorker
    /\ Goto(w, "free")
    /\ cancelled' = cancelled \ {w}
    /\ quit' = quit \ {w}
    /\ ticking' = ticking \ {w}
    /\ tick' = tick \ {w}
    /\ UNCHANGED <<apiVars, store, deleting, trigger, tries, rolledBack, errors>>

(* processCanaryConfig selects its ticker.                                 *)
SelectTick(w) ==
    /\ pc[w] = "select"
    /\ w \in tick
    /\ tick' = tick \ {w}
    /\ Goto(w, "lookup")
    /\ UNCHANGED <<apiVars, store, cancelFuncMap, deleting, cancelled, ticking, quit,
                   trigger, tries, rolledBack, errors>>

(* RollForwardOrBack returns, or no longer needs the trigger it has read.  *)
Forget(w) == [trigger EXCEPT ![w] = NoTrigger]

(* RollForwardOrBack: nothing to do without an entry; without a trigger    *)
(* the worker quits; a failed call is left to the next tick.  (The status  *)
(* it looks at next is that of its own copy of the config, which was       *)
(* pending when the worker was started and never changes.)                 *)
GetTrigger(w) ==
    /\ pc[w] = "lookup"
    /\ \/ /\ ~Registered
          /\ Goto(w, "select")
          /\ UNCHANGED <<trigger, errors>>
       \/ /\ Registered /\ weights = NoTrigger
          /\ Goto(w, "close")
          /\ UNCHANGED <<trigger, errors>>
       \/ /\ Registered
          /\ Error
          /\ Goto(w, "select")
          /\ UNCHANGED trigger
       \/ /\ Registered /\ weights # NoTrigger
          /\ trigger' = [trigger EXCEPT ![w] = weights]
          /\ Goto(w, IF weights.new > 0 THEN "check" ELSE "forward")
          /\ UNCHANGED errors
    /\ UNCHANGED <<apiVars, store, cancelFuncMap, deleting, cancelled, ticking, tick,
                   quit, tries, rolledBack>>

(* The failure percentage of the new function: an error (which no requests *)
(* in the window is too), above the threshold, or not.                     *)
CheckFailures(w) ==
    /\ pc[w] = "check"
    /\ \/ /\ Error
          /\ Goto(w, "select")
          /\ UNCHANGED ticking
       \/ /\ ticking' = ticking \ {w}
          /\ Goto(w, "rollback")
          /\ UNCHANGED errors
       \/ /\ Goto(w, "forward")
          /\ UNCHANGED <<ticking, errors>>
    /\ trigger' = IF pc'[w] = "forward" THEN trigger ELSE Forget(w)
    /\ UNCHANGED <<apiVars, store, cancelFuncMap, deleting, cancelled, tick, quit,
                   tries, rolledBack>>

(* updateHttpTriggerWithRetries, one try: the weights are written, or the  *)
(* update meets a conflict.  The error of the last try is assigned to a    *)
(* variable of the loop, so that the function returns nil after it.        *)
UpdateTrigger(w, new, next) ==
    \/ /\ weights # NoTrigger
       /\ weights' = new
       /\ tries' = [tries EXCEPT ![w] = 0]
       /\ Goto(w, next)
       /\ UNCHANGED errors
    \/ /\ weights # NoTrigger
       /\ Error
       /\ \/ /\ tries[w] + 1 < MaxRetries
             /\ tries' = [tries EXCEPT ![w] = tries[w] + 1]
             /\ UNCHANGED pc
          \/ /\ tries[w] + 1 = MaxRetries
             /\ tries' = [tries EXCEPT ![w] = 0]
             /\ Goto(w, next)
       /\ UNCHANGED weights

(* The update cannot be made: the trigger is gone or the API server fails. *)
UpdateTriggerFails(w, next) ==
    /\ IF weights = NoTrigger THEN UNCHANGED errors ELSE Error
    /\ tries' = [tries EXCEPT ![w] = 0]
    /\ Goto(w, next)
    /\ UNCHANGED weights

Rollback(w) ==
    /\ pc[w] = "rollback"
    /\ \/ /\ UpdateTrigger(w, [new |-> 0, old |-> Full], "setFailed")
          /\ rolledBack' = (rolledBack \/ weights' # weights)
       \/ /\ UpdateTriggerFails(w, "close")
          /\ UNCHANGED rolledBack
    /\ UNCHANGED <<cfg, store, cancelFuncMap, deleting, cancelled, ticking, tick, quit,
                   trigger>>

(* Faulty: the old function keeps its weight.                              *)
RolledForwardOldKept(t) ==
    IF t.new + Increment >= Full
    THEN [new |-> Full, old |-> 0]
    ELSE [new |-> t.new + Increment, old |-> t.old]

(* The weights after one more step.                                        *)
RolledForward(t) ==
    IF t.new + Increment >= Full
    THEN [new |-> Full, old |-> 0]
    ELSE [new |-> t.new + Increment,
          old |-> IF t.old < Increment THEN 0 ELSE t.old - Increment]

Done(t) == t.new + Increment >= Full

(* Faulty: the status is set to succeeded before the trigger is updated.   *)
SucceedEarly(w) ==
    LET next == IF Done(trigger[w]) THEN "close" ELSE "select" IN
    /\ pc[w] = "forward"
    /\ cfg' = IF cfg # NoCfg /\ Done(trigger[w])
              THEN [cfg EXCEPT !.status = "succeeded"] ELSE cfg
    /\ \/ UpdateTrigger(w, RolledForward(trigger[w]), next)
       \/ UpdateTriggerFails(w, "select")
    /\ ticking' = IF pc'[w] = "close" THEN ticking \ {w} ELSE ticking
    /\ trigger' = IF pc'[w] = "forward" THEN trigger ELSE Forget(w)
    /\ UNCHANGED <<store, cancelFuncMap, deleting, cancelled, tick, quit,
                   rolledBack>>

RollForward(w) ==
    LET next == IF Done(trigger[w]) THEN "setSucceeded" ELSE "select" IN
    /\ pc[w] = "forward"
    /\ \/ UpdateTrigger(w, RolledForward(trigger[w]), next)
       \/ UpdateTriggerFails(w, "select")
    /\ ticking' = IF pc'[w] = "setSucceeded" THEN ticking \ {w} ELSE ticking
    /\ trigger' = IF pc'[w] = "forward" THEN trigger ELSE Forget(w)
    /\ UNCHANGED <<cfg, store, cancelFuncMap, deleting, cancelled, tick, quit,
                   rolledBack>>

(* Faulty: when the status cannot be set the worker does not quit, though  *)
(* its ticker has stopped.                                                 *)
FinishOnlyIfSet(w) ==
    LET s == IF pc[w] = "setFailed" THEN "failed" ELSE "succeeded" IN
    /\ pc[w] \in {"setFailed", "setSucceeded"}
    /\ \/ SetStatus(s) /\ Goto(w, "close") /\ UNCHANGED errors
       \/ Error /\ Goto(w, "select") /\ UNCHANGED cfg
    /\ UNCHANGED <<weights, store, cancelFuncMap, deleting, cancelled, ticking, tick,
                   quit, trigger, tries, rolledBack>>

(* The status is set, or that fails (conflicts and errors alike).          *)
Finish(w) ==
    LET s == IF pc[w] = "setFailed" THEN "failed" ELSE "succeeded" IN
    /\ pc[w] \in {"setFailed", "setSucceeded"}
    /\ \/ SetStatus(s) /\ UNCHANGED errors
       \/ Error /\ UNCHANGED cfg
    /\ Goto(w, "close")
    /\ UNCHANGED <<weights, store, cancelFuncMap, deleting, cancelled, ticking, tick,
                   quit, trigger, tries, rolledBack>>

(* close(quit).                                                            *)
CloseQuit(w) ==
    /\ pc[w] = "close"
    /\ w \notin quit
    /\ quit' = quit \cup {w}
    /\ Goto(w, "select")
    /\ UNCHANGED <<apiVars, store, cancelFuncMap, deleting, cancelled, ticking, tick,
                   trigger, tries, rolledBack, errors>>

(* The process ends and is started again: memory is lost.                  *)
Restart ==
    /\ store' = NoCfg
    /\ cancelFuncMap' = NoWorker
    /\ deleting' = FALSE
    /\ pc' = [w \in Worker |-> "free"]
    /\ cancelled' = {} /\ ticking' = {} /\ tick' = {} /\ quit' = {}
    /\ tries' = [w \in Worker |-> 0]
    /\ rolledBack' = FALSE
    /\ trigger' = [w \in Worker |-> NoTrigger]
    /\ UNCHANGED apiVars

(* close(quit) of a closed channel panics.                                 *)
ClosePanics(w) ==
    /\ pc[w] = "close"
    /\ w \in quit
    /\ Restart
    /\ UNCHANGED errors

Crash == Error /\ Restart
-----------------------------------------------------------------------------
(* Users change or delete the config, or delete the trigger.               *)
UserUpdates ==
    /\ cfg # NoCfg
    /\ cfg.gen < MaxGen
    /\ cfg' = [cfg EXCEPT !.gen = cfg.gen + 1]
    /\ rolledBack' = FALSE
    /\ UNCHANGED <<weights, store, cancelFuncMap, deleting, workerVars, errors>>

UserDeletes ==
    /\ cfg # NoCfg
    /\ Error
    /\ cfg' = NoCfg
    /\ UNCHANGED <<weights, store, cancelFuncMap, deleting, workerVars, rolledBack>>

UserDeletesTrigger ==
    /\ weights # NoTrigger
    /\ Error
    /\ weights' = NoTrigger
    /\ UNCHANGED <<cfg, store, cancelFuncMap, deleting, workerVars, rolledBack>>

Informer == AddEvent \/ UpdateEvent \/ DeleteEvent

Process(w) ==
    \/ CancelOld(w) \/ RemoveOld(w) \/ Assign(w)
    \/ Return(w) \/ SelectTick(w) \/ GetTrigger(w) \/ CheckFailures(w)
    \/ Rollback(w) \/ RollForward(w) \/ Finish(w)
    \/ CloseQuit(w) \/ ClosePanics(w)

Next ==
    \/ Informer \/ ReSync \/ HandleDelete
    \/ \E w \in Worker : Process(w) \/ TickerFires(w)
    \/ UserUpdates \/ UserDeletes \/ UserDeletesTrigger
    \/ Crash

Spec == Init /\ [][Next]_vars

(* The informer delivers and resyncs, goroutines run and time passes.      *)
Fairness ==
    /\ WF_vars(Informer)
    /\ WF_vars(ReSync)
    /\ WF_vars(HandleDelete)
    /\ \A w \in Worker : WF_vars(Process(w))
    /\ \A w \in Worker : WF_vars(TickerFires(w))

FairSpec == Spec /\ Fairness
-----------------------------------------------------------------------------
(* The manager has not seen an edit of the config: there is no goroutine   *)
(* that an edit has cancelled.                                             *)
Unedited == store # NoCfg /\ store.gen = 0

(* The comment in addCanaryConfig: the cancel function in the map is used  *)
(* to cancel the processing of the config.  A worker that is processing    *)
(* and has not been told to stop is the one in the map, and the map holds  *)
(* no worker that has returned, which would keep the resync from starting  *)
(* another.                                                                *)
WorkerCanBeCancelled ==
    Unedited => \A w \in Worker :
        /\ pc[w] \in Processing /\ w \notin cancelled \cup quit => cancelFuncMap = w
        /\ cancelFuncMap = w => pc[w] \in Processing

(* The new function's share never grows by more than one increment at a    *)
(* time, and the two shares always make up the whole traffic, whatever     *)
(* conflicts, errors and restarted processing there are.                   *)
GradualRollout ==
    [][Unedited /\ weights # weights' /\ weights' # NoTrigger =>
         /\ weights'.new <= weights.new + Increment
         /\ weights'.new + weights'.old = Full]_vars

(* The log message of RollForwardOrBack: when a config becomes succeeded   *)
(* the new function is receiving all the traffic.                          *)
SucceededHasAllTraffic ==
    [][Unedited /\ cfg' # cfg /\ cfg' # NoCfg /\ cfg'.status = "succeeded"
         /\ cfg.status # "succeeded" /\ weights # NoTrigger =>
         weights.new = Full]_vars

(* A pending config is processed to its end, although updates of the       *)
(* status and calls may fail: the resync takes care of it.  (A config      *)
(* without its trigger is taken up and given up again forever.)            *)
RolloutEnds ==
    (cfg # NoCfg /\ cfg.status = "pending")
        ~> (cfg = NoCfg \/ cfg.status \in {"succeeded", "failed"}
              \/ weights = NoTrigger)

(* The comment in RollForwardOrBack: the race between ticker.Stop and a    *)
(* notification on ticker.C is handled, so that the new function gets no   *)
(* traffic after a roll-back. The code does not keep it: the status that   *)
(* is compared is that of the goroutine's own copy, which is always        *)
(* pending. No run checks it.                                              *)
RolledBackStaysBack ==
    rolledBack /\ weights # NoTrigger => weights.new = 0
=============================================================================
