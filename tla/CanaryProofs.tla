---------------------------- MODULE CanaryProofs ----------------------------
(***************************************************************************)
(* The canary config manager for any number of goroutines, any weights and *)
(* any number of edits, errors, conflicts and crashes.                     *)
(***************************************************************************)
EXTENDS Canary, TLAPS

(* The informer's copy is never newer than the config.                     *)
UneditedLasts == store # NoCfg /\ cfg # NoCfg => store.gen <= cfg.gen

(* A manager that has yet to see the config does nothing for it.           *)
CleanStart ==
    store = NoCfg /\ cfg # NoCfg =>
        /\ \A w \in Worker : pc[w] = "free"
        /\ cancelFuncMap = NoWorker

(* Until an edit is seen the map holds exactly the one worker there is.    *)
OneWorker ==
    Unedited => \A w \in Worker :
        /\ pc[w] \notin {"cancelOld", "removeOld"}
        /\ pc[w] \in Processing <=> cancelFuncMap = w

Whole(t) == t = NoTrigger \/ t.new + t.old = Full

(* The shares make up the whole traffic, in the API server and in every    *)
(* copy that a worker has read.                                            *)
SharesWhole ==
    /\ Whole(weights)
    /\ \A w \in Worker : Whole(trigger[w])
    /\ \A w \in Worker : pc[w] \in {"check", "forward"} => trigger[w] # NoTrigger

(* What the worker is going to change is what the API server has.          *)
ReadIsCurrent ==
    Unedited => \A w \in Worker :
        pc[w] \in {"check", "forward"} => weights = NoTrigger \/ trigger[w] = weights

CanaryInv ==
    TypeOK /\ UneditedLasts /\ CleanStart /\ OneWorker /\ SharesWhole /\ ReadIsCurrent

(* Every conflict of an update is one of the errors.                       *)
ConflictsCounted == \A w \in Worker : tries[w] <= errors

(* A worker about to report the success has given all the traffic away.    *)
DoneIsFull ==
    Unedited => \A w \in Worker :
        pc[w] = "setSucceeded" => weights = NoTrigger \/ weights.new = Full

USE WeightAssumption, SentinelAssumption

(* Rolling forward gives one more increment to the new function and takes  *)
(* it from the old one.                                                    *)
LEMMA RolledForwardWhole ==
    ASSUME NEW t \in Weights, t.new + t.old = Full
    PROVE  /\ RolledForward(t) \in Weights
           /\ RolledForward(t).new + RolledForward(t).old = Full
           /\ RolledForward(t).new <= t.new + Increment
           /\ Done(t) => RolledForward(t).new = Full
<1>1. CASE Done(t)
  BY <1>1 DEF Done, RolledForward, Weights
<1>2. CASE ~Done(t)
  BY <1>2 DEF Done, RolledForward, Weights
<1> QED  BY <1>1, <1>2

(* The bounded counter of errors and the status keep their types.          *)
LEMMA ErrorType ==
    ASSUME errors \in 0 .. MaxErrors, Error
    PROVE  errors' \in 0 .. MaxErrors
BY DEF Error

LEMMA StatusType ==
    ASSUME NEW s \in Status, cfg \in Config \cup {NoCfg}, SetStatus(s)
    PROVE  cfg' \in Config \cup {NoCfg}
BY DEF SetStatus, Config

(* Every step keeps the types. *)
LEMMA TypeStep ==
    ASSUME TypeOK, SharesWhole, [Next]_vars
    PROVE  TypeOK'
<1>1. CASE AddEvent
  <2>1. "pending" \in Status  BY DEF Status
  <2>2. cfg' \in Config \cup {NoCfg} /\ errors' \in 0 .. MaxErrors
    BY <1>1, <2>1, ErrorType, StatusType DEF AddEvent, TypeOK
  <2> QED  BY <1>1, <2>2 DEF AddEvent, TypeOK, workerVars
<1>2. CASE UpdateEvent
  BY <1>2 DEF TypeOK, Processing, UpdateEvent, Goto, workerVars, apiVars
<1>3. CASE DeleteEvent
  BY <1>3 DEF TypeOK, Processing, DeleteEvent, workerVars, apiVars
<1>4. CASE ReSync
  <2>1. "pending" \in Status  BY DEF Status
  <2>2. cfg' \in Config \cup {NoCfg}
    BY <1>4, <2>1, StatusType DEF ReSync, TypeOK
  <2> QED  BY <1>4, <2>2 DEF ReSync, TypeOK, Goto, Processing
<1>5. CASE HandleDelete
  BY <1>5 DEF TypeOK, Processing, HandleDelete, CancelRegistered, workerVars, apiVars
<1>6. CASE UserUpdates
  <2>1. cfg' \in Config  BY <1>6 DEF UserUpdates, TypeOK, Config
  <2> QED  BY <1>6, <2>1 DEF UserUpdates, TypeOK, workerVars
<1>7. CASE UserDeletes
  BY <1>7, ErrorType DEF UserDeletes, TypeOK, workerVars
<1>8. CASE UserDeletesTrigger
  BY <1>8, ErrorType DEF UserDeletesTrigger, TypeOK, workerVars
<1>9. CASE Crash
  <2>1. 0 \in 0 .. MaxRetries  OBVIOUS
  <2> QED  BY <1>9, <2>1, ErrorType DEF Crash, Restart, TypeOK, apiVars
<1>10. ASSUME NEW w \in Worker, CancelOld(w)  PROVE  TypeOK'
  BY <1>10 DEF TypeOK, Processing, CancelOld, CancelRegistered, Goto, workerVars, apiVars
<1>11. ASSUME NEW w \in Worker, RemoveOld(w)  PROVE  TypeOK'
  BY <1>11 DEF TypeOK, Processing, RemoveOld, Goto, workerVars, apiVars
<1>12. ASSUME NEW w \in Worker, Assign(w)  PROVE  TypeOK'
  BY <1>12 DEF TypeOK, Processing, Assign, Goto, Registered, workerVars, apiVars
<1>13. ASSUME NEW w \in Worker, Return(w)  PROVE  TypeOK'
  BY <1>13 DEF TypeOK, Processing, Return, Goto, workerVars, apiVars
<1>14. ASSUME NEW w \in Worker, SelectTick(w)  PROVE  TypeOK'
  BY <1>14 DEF TypeOK, Processing, SelectTick, Goto, workerVars, apiVars
<1>15. ASSUME NEW w \in Worker, GetTrigger(w)  PROVE  TypeOK'
  <2>1. errors' \in 0 .. MaxErrors  BY <1>15, ErrorType DEF GetTrigger, TypeOK
  <2>2. trigger' \in [Worker -> Weights \cup {NoTrigger}]  BY <1>15 DEF GetTrigger, TypeOK
  <2>3. pc' \in [Worker -> Processing \cup {"free", "cancelOld", "removeOld", "assign"}]
    BY <1>15 DEF GetTrigger, TypeOK, Goto, Processing
  <2> QED  BY <1>15, <2>1, <2>2, <2>3 DEF GetTrigger, TypeOK, apiVars
<1>16. ASSUME NEW w \in Worker, CheckFailures(w)  PROVE  TypeOK'
  <2>1. errors' \in 0 .. MaxErrors  BY <1>16, ErrorType DEF CheckFailures, TypeOK
  <2>2. trigger' \in [Worker -> Weights \cup {NoTrigger}]
    BY <1>16 DEF CheckFailures, TypeOK, Forget
  <2>3. pc' \in [Worker -> Processing \cup {"free", "cancelOld", "removeOld", "assign"}]
    BY <1>16 DEF CheckFailures, TypeOK, Goto, Processing
  <2>4. ticking' \subseteq Worker  BY <1>16 DEF CheckFailures, TypeOK
  <2> QED  BY <1>16, <2>1, <2>2, <2>3, <2>4 DEF CheckFailures, TypeOK, apiVars
<1>17. ASSUME NEW w \in Worker, Rollback(w)  PROVE  TypeOK'
  <2>1. errors' \in 0 .. MaxErrors
    BY <1>17, ErrorType DEF Rollback, TypeOK, UpdateTrigger, UpdateTriggerFails
  <2>2. tries' \in [Worker -> 0 .. MaxRetries]
    <3>1. tries[w] \in 0 .. MaxRetries  BY DEF TypeOK
    <3>2. \A n \in 0 .. MaxRetries : [tries EXCEPT ![w] = n] \in [Worker -> 0 .. MaxRetries]
      BY DEF TypeOK
    <3>3. 0 \in 0 .. MaxRetries
          /\ (tries[w] + 1 < MaxRetries => tries[w] + 1 \in 0 .. MaxRetries)
      BY <3>1
    <3> QED  BY <1>17, <3>2, <3>3 DEF Rollback, UpdateTrigger, UpdateTriggerFails
  <2>3. pc' \in [Worker -> Processing \cup {"free", "cancelOld", "removeOld", "assign"}]
    BY <1>17 DEF Rollback, TypeOK, UpdateTrigger, UpdateTriggerFails, Goto, Processing
  <2>4. weights' \in Weights \cup {NoTrigger}
    <3>1. [new |-> 0, old |-> Full] \in Weights  BY DEF Weights
    <3> QED  BY <1>17, <3>1 DEF Rollback, TypeOK, UpdateTrigger, UpdateTriggerFails
  <2>5. rolledBack' \in BOOLEAN  BY <1>17 DEF Rollback, TypeOK
  <2> QED  BY <1>17, <2>1, <2>2, <2>3, <2>4, <2>5 DEF Rollback, TypeOK
<1>18. ASSUME NEW w \in Worker, RollForward(w)  PROVE  TypeOK'
  <2>1. errors' \in 0 .. MaxErrors
    BY <1>18, ErrorType DEF RollForward, TypeOK, UpdateTrigger, UpdateTriggerFails
  <2>2. tries' \in [Worker -> 0 .. MaxRetries]
    <3>1. tries[w] \in 0 .. MaxRetries  BY DEF TypeOK
    <3>2. \A n \in 0 .. MaxRetries : [tries EXCEPT ![w] = n] \in [Worker -> 0 .. MaxRetries]
      BY DEF TypeOK
    <3>3. 0 \in 0 .. MaxRetries
          /\ (tries[w] + 1 < MaxRetries => tries[w] + 1 \in 0 .. MaxRetries)
      BY <3>1
    <3> QED  BY <1>18, <3>2, <3>3 DEF RollForward, UpdateTrigger, UpdateTriggerFails
  <2>3. pc' \in [Worker -> Processing \cup {"free", "cancelOld", "removeOld", "assign"}]
    BY <1>18 DEF RollForward, TypeOK, UpdateTrigger, UpdateTriggerFails, Goto, Processing
  <2>4. weights' \in Weights \cup {NoTrigger}
    <3>1. RolledForward(trigger[w]) \in Weights
      BY <1>18, RolledForwardWhole DEF RollForward, TypeOK, SharesWhole, Whole
    <3> QED  BY <1>18, <3>1 DEF RollForward, TypeOK, UpdateTrigger, UpdateTriggerFails
  <2>5. trigger' \in [Worker -> Weights \cup {NoTrigger}]
    BY <1>18 DEF RollForward, TypeOK, Forget
  <2>6. ticking' \subseteq Worker  BY <1>18 DEF RollForward, TypeOK
  <2> QED  BY <1>18, <2>1, <2>2, <2>3, <2>4, <2>5, <2>6 DEF RollForward, TypeOK
<1>19. ASSUME NEW w \in Worker, Finish(w)  PROVE  TypeOK'
  <2>1. {"failed", "succeeded"} \subseteq Status  BY DEF Status
  <2>2. cfg' \in Config \cup {NoCfg} /\ errors' \in 0 .. MaxErrors
    BY <1>19, <2>1, ErrorType, StatusType DEF Finish, TypeOK
  <2> QED  BY <1>19, <2>2 DEF Finish, TypeOK, Goto, Processing
<1>20. ASSUME NEW w \in Worker, CloseQuit(w)  PROVE  TypeOK'
  BY <1>20 DEF TypeOK, Processing, CloseQuit, Goto, workerVars, apiVars
<1>21. ASSUME NEW w \in Worker, ClosePanics(w)  PROVE  TypeOK'
  <2>1. 0 \in 0 .. MaxRetries  OBVIOUS
  <2> QED  BY <1>21, <2>1 DEF ClosePanics, Restart, TypeOK, apiVars
<1>22. ASSUME NEW w \in Worker, TickerFires(w)  PROVE  TypeOK'
  BY <1>22 DEF TypeOK, Processing, TickerFires, workerVars, apiVars
<1>23. CASE UNCHANGED vars
  BY <1>23 DEF TypeOK, Processing, vars, workerVars, apiVars
<1> QED
  BY <1>1, <1>2, <1>3, <1>4, <1>5, <1>6, <1>7, <1>8, <1>9, <1>10, <1>11, <1>12, <1>13,
         <1>14, <1>15, <1>16, <1>17, <1>18, <1>19, <1>20, <1>21, <1>22, <1>23 DEF Next,
         Informer, Process
(* The informer's copy does not overtake the config. *)
LEMMA LastsStep ==
    ASSUME TypeOK, UneditedLasts, [Next]_vars
    PROVE  UneditedLasts'
<1>1. CASE AddEvent
  BY <1>1 DEF TypeOK, UneditedLasts, Config, AddEvent, SetStatus, Error, workerVars,
         apiVars
<1>2. CASE UpdateEvent
  BY <1>2 DEF TypeOK, UneditedLasts, Config, UpdateEvent, Goto, workerVars, apiVars
<1>3. CASE DeleteEvent
  BY <1>3 DEF TypeOK, UneditedLasts, Config, DeleteEvent, workerVars, apiVars
<1>4. CASE ReSync
  BY <1>4 DEF TypeOK, UneditedLasts, Config, ReSync, SetStatus, Goto, Registered,
         workerVars, apiVars
<1>5. CASE HandleDelete
  BY <1>5 DEF TypeOK, UneditedLasts, Config, HandleDelete, CancelRegistered, workerVars,
         apiVars
<1>6. CASE UserUpdates
  BY <1>6 DEF TypeOK, UneditedLasts, Config, UserUpdates, workerVars, apiVars
<1>7. CASE UserDeletes
  BY <1>7 DEF TypeOK, UneditedLasts, Config, UserDeletes, Error, workerVars, apiVars
<1>8. CASE UserDeletesTrigger
  BY <1>8 DEF TypeOK, UneditedLasts, Config, UserDeletesTrigger, Error, workerVars,
         apiVars
<1>9. CASE Crash
  BY <1>9 DEF TypeOK, UneditedLasts, Config, Crash, Restart, Error, workerVars, apiVars
<1>10. ASSUME NEW w \in Worker, CancelOld(w)  PROVE  UneditedLasts'
  BY <1>10 DEF TypeOK, UneditedLasts, Config, CancelOld, CancelRegistered, Goto,
         workerVars, apiVars
<1>11. ASSUME NEW w \in Worker, RemoveOld(w)  PROVE  UneditedLasts'
  BY <1>11 DEF TypeOK, UneditedLasts, Config, RemoveOld, Goto, workerVars, apiVars
<1>12. ASSUME NEW w \in Worker, Assign(w)  PROVE  UneditedLasts'
  BY <1>12 DEF TypeOK, UneditedLasts, Config, Assign, Goto, Registered, workerVars,
         apiVars
<1>13. ASSUME NEW w \in Worker, Return(w)  PROVE  UneditedLasts'
  BY <1>13 DEF TypeOK, UneditedLasts, Config, Return, Goto, workerVars, apiVars
<1>14. ASSUME NEW w \in Worker, SelectTick(w)  PROVE  UneditedLasts'
  BY <1>14 DEF TypeOK, UneditedLasts, Config, SelectTick, Goto, workerVars, apiVars
<1>15. ASSUME NEW w \in Worker, GetTrigger(w)  PROVE  UneditedLasts'
  BY <1>15 DEF TypeOK, UneditedLasts, Config, GetTrigger, Goto, Error, Registered,
         workerVars, apiVars
<1>16. ASSUME NEW w \in Worker, CheckFailures(w)  PROVE  UneditedLasts'
  BY <1>16 DEF TypeOK, UneditedLasts, Config, CheckFailures, Goto, Error, Forget,
         workerVars, apiVars
<1>17. ASSUME NEW w \in Worker, Rollback(w)  PROVE  UneditedLasts'
  BY <1>17 DEF TypeOK, UneditedLasts, Config, Rollback, Goto, Error, UpdateTrigger,
         UpdateTriggerFails, workerVars, apiVars
<1>18. ASSUME NEW w \in Worker, RollForward(w)  PROVE  UneditedLasts'
  BY <1>18 DEF TypeOK, UneditedLasts, Config, RollForward, Goto, Error, UpdateTrigger,
         UpdateTriggerFails, RolledForward, Done, Forget, workerVars, apiVars
<1>19. ASSUME NEW w \in Worker, Finish(w)  PROVE  UneditedLasts'
  BY <1>19 DEF TypeOK, UneditedLasts, Config, Finish, Goto, Error, SetStatus, workerVars,
         apiVars
<1>20. ASSUME NEW w \in Worker, CloseQuit(w)  PROVE  UneditedLasts'
  BY <1>20 DEF TypeOK, UneditedLasts, Config, CloseQuit, Goto, workerVars, apiVars
<1>21. ASSUME NEW w \in Worker, ClosePanics(w)  PROVE  UneditedLasts'
  BY <1>21 DEF TypeOK, UneditedLasts, Config, ClosePanics, Restart, workerVars, apiVars
<1>22. ASSUME NEW w \in Worker, TickerFires(w)  PROVE  UneditedLasts'
  BY <1>22 DEF TypeOK, UneditedLasts, Config, TickerFires, workerVars, apiVars
<1>23. CASE UNCHANGED vars
  BY <1>23 DEF TypeOK, UneditedLasts, Config, vars, workerVars, apiVars
<1> QED
  BY <1>1, <1>2, <1>3, <1>4, <1>5, <1>6, <1>7, <1>8, <1>9, <1>10, <1>11, <1>12, <1>13,
         <1>14, <1>15, <1>16, <1>17, <1>18, <1>19, <1>20, <1>21, <1>22, <1>23 DEF Next,
         Informer, Process
(* A manager without the config stays idle. *)
LEMMA CleanStep ==
    ASSUME TypeOK, CleanStart, [Next]_vars
    PROVE  CleanStart'
<1>1. CASE AddEvent
  BY <1>1 DEF TypeOK, CleanStart, AddEvent, SetStatus, Error, workerVars, apiVars
<1>2. CASE UpdateEvent
  BY <1>2 DEF TypeOK, CleanStart, UpdateEvent, Goto, workerVars, apiVars
<1>3. CASE DeleteEvent
  BY <1>3 DEF TypeOK, CleanStart, DeleteEvent, workerVars, apiVars
<1>4. CASE ReSync
  BY <1>4 DEF TypeOK, CleanStart, ReSync, SetStatus, Goto, Registered, workerVars, apiVars
<1>5. CASE HandleDelete
  BY <1>5 DEF TypeOK, CleanStart, HandleDelete, CancelRegistered, workerVars, apiVars
<1>6. CASE UserUpdates
  BY <1>6 DEF TypeOK, CleanStart, UserUpdates, workerVars, apiVars
<1>7. CASE UserDeletes
  BY <1>7 DEF TypeOK, CleanStart, UserDeletes, Error, workerVars, apiVars
<1>8. CASE UserDeletesTrigger
  BY <1>8 DEF TypeOK, CleanStart, UserDeletesTrigger, Error, workerVars, apiVars
<1>9. CASE Crash
  BY <1>9 DEF TypeOK, CleanStart, Crash, Restart, Error, workerVars, apiVars
<1>10. ASSUME NEW w \in Worker, CancelOld(w)  PROVE  CleanStart'
  BY <1>10 DEF TypeOK, CleanStart, CancelOld, CancelRegistered, Goto, workerVars, apiVars
<1>11. ASSUME NEW w \in Worker, RemoveOld(w)  PROVE  CleanStart'
  BY <1>11 DEF TypeOK, CleanStart, RemoveOld, Goto, workerVars, apiVars
<1>12. ASSUME NEW w \in Worker, Assign(w)  PROVE  CleanStart'
  BY <1>12 DEF TypeOK, CleanStart, Assign, Goto, Registered, workerVars, apiVars
<1>13. ASSUME NEW w \in Worker, Return(w)  PROVE  CleanStart'
  BY <1>13 DEF TypeOK, CleanStart, Return, Goto, workerVars, apiVars
<1>14. ASSUME NEW w \in Worker, SelectTick(w)  PROVE  CleanStart'
  BY <1>14 DEF TypeOK, CleanStart, SelectTick, Goto, workerVars, apiVars
<1>15. ASSUME NEW w \in Worker, GetTrigger(w)  PROVE  CleanStart'
  BY <1>15 DEF TypeOK, CleanStart, GetTrigger, Goto, Error, Registered, workerVars,
         apiVars
<1>16. ASSUME NEW w \in Worker, CheckFailures(w)  PROVE  CleanStart'
  BY <1>16 DEF TypeOK, CleanStart, CheckFailures, Goto, Error, Forget, workerVars, apiVars
<1>17. ASSUME NEW w \in Worker, Rollback(w)  PROVE  CleanStart'
  BY <1>17 DEF TypeOK, CleanStart, Rollback, Goto, Error, UpdateTrigger,
         UpdateTriggerFails, workerVars, apiVars
<1>18. ASSUME NEW w \in Worker, RollForward(w)  PROVE  CleanStart'
  BY <1>18 DEF TypeOK, CleanStart, RollForward, Goto, Error, UpdateTrigger,
         UpdateTriggerFails, RolledForward, Done, Forget, workerVars, apiVars
<1>19. ASSUME NEW w \in Worker, Finish(w)  PROVE  CleanStart'
  BY <1>19 DEF TypeOK, CleanStart, Finish, Goto, Error, SetStatus, workerVars, apiVars
<1>20. ASSUME NEW w \in Worker, CloseQuit(w)  PROVE  CleanStart'
  BY <1>20 DEF TypeOK, CleanStart, CloseQuit, Goto, workerVars, apiVars
<1>21. ASSUME NEW w \in Worker, ClosePanics(w)  PROVE  CleanStart'
  BY <1>21 DEF TypeOK, CleanStart, ClosePanics, Restart, workerVars, apiVars
<1>22. ASSUME NEW w \in Worker, TickerFires(w)  PROVE  CleanStart'
  BY <1>22 DEF TypeOK, CleanStart, TickerFires, workerVars, apiVars
<1>23. CASE UNCHANGED vars
  BY <1>23 DEF TypeOK, CleanStart, vars, workerVars, apiVars
<1> QED
  BY <1>1, <1>2, <1>3, <1>4, <1>5, <1>6, <1>7, <1>8, <1>9, <1>10, <1>11, <1>12, <1>13,
         <1>14, <1>15, <1>16, <1>17, <1>18, <1>19, <1>20, <1>21, <1>22, <1>23 DEF Next,
         Informer, Process
(* One worker at most, and it is the one in the map. *)
LEMMA OneWorkerStep ==
    ASSUME TypeOK, UneditedLasts, CleanStart, OneWorker, [Next]_vars
    PROVE  OneWorker'
<1>1. CASE AddEvent
  BY <1>1 DEF TypeOK, UneditedLasts, CleanStart, OneWorker, Unedited, Processing, Config,
         AddEvent, SetStatus, Error, workerVars, apiVars
<1>2. CASE UpdateEvent
  BY <1>2 DEF TypeOK, UneditedLasts, CleanStart, OneWorker, Unedited, Processing, Config,
         UpdateEvent, Goto, workerVars, apiVars
<1>3. CASE DeleteEvent
  BY <1>3 DEF TypeOK, UneditedLasts, CleanStart, OneWorker, Unedited, Processing, Config,
         DeleteEvent, workerVars, apiVars
<1>4. CASE ReSync
  BY <1>4 DEF TypeOK, UneditedLasts, CleanStart, OneWorker, Unedited, Processing, Config,
         ReSync, SetStatus, Goto, Registered, workerVars, apiVars
<1>5. CASE HandleDelete
  BY <1>5 DEF TypeOK, UneditedLasts, CleanStart, OneWorker, Unedited, Processing, Config,
         HandleDelete, CancelRegistered, workerVars, apiVars
<1>6. CASE UserUpdates
  BY <1>6 DEF TypeOK, UneditedLasts, CleanStart, OneWorker, Unedited, Processing, Config,
         UserUpdates, workerVars, apiVars
<1>7. CASE UserDeletes
  BY <1>7 DEF TypeOK, UneditedLasts, CleanStart, OneWorker, Unedited, Processing, Config,
         UserDeletes, Error, workerVars, apiVars
<1>8. CASE UserDeletesTrigger
  BY <1>8 DEF TypeOK, UneditedLasts, CleanStart, OneWorker, Unedited, Processing, Config,
         UserDeletesTrigger, Error, workerVars, apiVars
<1>9. CASE Crash
  BY <1>9 DEF TypeOK, UneditedLasts, CleanStart, OneWorker, Unedited, Processing, Config,
         Crash, Restart, Error, workerVars, apiVars
<1>10. ASSUME NEW w \in Worker, CancelOld(w)  PROVE  OneWorker'
  BY <1>10 DEF TypeOK, UneditedLasts, CleanStart, OneWorker, Unedited, Processing, Config,
         CancelOld, CancelRegistered, Goto, workerVars, apiVars
<1>11. ASSUME NEW w \in Worker, RemoveOld(w)  PROVE  OneWorker'
  BY <1>11 DEF TypeOK, UneditedLasts, CleanStart, OneWorker, Unedited, Processing, Config,
         RemoveOld, Goto, workerVars, apiVars
<1>12. ASSUME NEW w \in Worker, Assign(w)  PROVE  OneWorker'
  BY <1>12 DEF TypeOK, UneditedLasts, CleanStart, OneWorker, Unedited, Processing, Config,
         Assign, Goto, Registered, workerVars, apiVars
<1>13. ASSUME NEW w \in Worker, Return(w)  PROVE  OneWorker'
  BY <1>13 DEF TypeOK, UneditedLasts, CleanStart, OneWorker, Unedited, Processing, Config,
         Return, Goto, workerVars, apiVars
<1>14. ASSUME NEW w \in Worker, SelectTick(w)  PROVE  OneWorker'
  BY <1>14 DEF TypeOK, UneditedLasts, CleanStart, OneWorker, Unedited, Processing, Config,
         SelectTick, Goto, workerVars, apiVars
<1>15. ASSUME NEW w \in Worker, GetTrigger(w)  PROVE  OneWorker'
  BY <1>15 DEF TypeOK, UneditedLasts, CleanStart, OneWorker, Unedited, Processing, Config,
         GetTrigger, Goto, Error, Registered, workerVars, apiVars
<1>16. ASSUME NEW w \in Worker, CheckFailures(w)  PROVE  OneWorker'
  BY <1>16 DEF TypeOK, UneditedLasts, CleanStart, OneWorker, Unedited, Processing, Config,
         CheckFailures, Goto, Error, Forget, workerVars, apiVars
<1>17. ASSUME NEW w \in Worker, Rollback(w)  PROVE  OneWorker'
  BY <1>17 DEF TypeOK, UneditedLasts, CleanStart, OneWorker, Unedited, Processing, Config,
         Rollback, Goto, Error, UpdateTrigger, UpdateTriggerFails, workerVars, apiVars
<1>18. ASSUME NEW w \in Worker, RollForward(w)  PROVE  OneWorker'
  BY <1>18 DEF TypeOK, UneditedLasts, CleanStart, OneWorker, Unedited, Processing, Config,
         RollForward, Goto, Error, UpdateTrigger, UpdateTriggerFails, RolledForward, Done,
         Forget, workerVars, apiVars
<1>19. ASSUME NEW w \in Worker, Finish(w)  PROVE  OneWorker'
  BY <1>19 DEF TypeOK, UneditedLasts, CleanStart, OneWorker, Unedited, Processing, Config,
         Finish, Goto, Error, SetStatus, workerVars, apiVars
<1>20. ASSUME NEW w \in Worker, CloseQuit(w)  PROVE  OneWorker'
  BY <1>20 DEF TypeOK, UneditedLasts, CleanStart, OneWorker, Unedited, Processing, Config,
         CloseQuit, Goto, workerVars, apiVars
<1>21. ASSUME NEW w \in Worker, ClosePanics(w)  PROVE  OneWorker'
  BY <1>21 DEF TypeOK, UneditedLasts, CleanStart, OneWorker, Unedited, Processing, Config,
         ClosePanics, Restart, workerVars, apiVars
<1>22. ASSUME NEW w \in Worker, TickerFires(w)  PROVE  OneWorker'
  BY <1>22 DEF TypeOK, UneditedLasts, CleanStart, OneWorker, Unedited, Processing, Config,
         TickerFires, workerVars, apiVars
<1>23. CASE UNCHANGED vars
  BY <1>23 DEF TypeOK, UneditedLasts, CleanStart, OneWorker, Unedited, Processing, Config,
         vars, workerVars, apiVars
<1> QED
  BY <1>1, <1>2, <1>3, <1>4, <1>5, <1>6, <1>7, <1>8, <1>9, <1>10, <1>11, <1>12, <1>13,
         <1>14, <1>15, <1>16, <1>17, <1>18, <1>19, <1>20, <1>21, <1>22, <1>23 DEF Next,
         Informer, Process
(* The shares make up the whole traffic after every step. *)
LEMMA WholeStep ==
    ASSUME TypeOK, SharesWhole, [Next]_vars
    PROVE  SharesWhole'
<1>1. CASE AddEvent
  BY <1>1 DEF TypeOK, SharesWhole, Whole, AddEvent, SetStatus, Error, workerVars, apiVars
<1>2. CASE UpdateEvent
  BY <1>2 DEF TypeOK, SharesWhole, Whole, UpdateEvent, Goto, workerVars, apiVars
<1>3. CASE DeleteEvent
  BY <1>3 DEF TypeOK, SharesWhole, Whole, DeleteEvent, workerVars, apiVars
<1>4. CASE ReSync
  BY <1>4 DEF TypeOK, SharesWhole, Whole, ReSync, SetStatus, Goto, Registered, workerVars,
         apiVars
<1>5. CASE HandleDelete
  BY <1>5 DEF TypeOK, SharesWhole, Whole, HandleDelete, CancelRegistered, workerVars,
         apiVars
<1>6. CASE UserUpdates
  BY <1>6 DEF TypeOK, SharesWhole, Whole, UserUpdates, workerVars, apiVars
<1>7. CASE UserDeletes
  BY <1>7 DEF TypeOK, SharesWhole, Whole, UserDeletes, Error, workerVars, apiVars
<1>8. CASE UserDeletesTrigger
  BY <1>8 DEF TypeOK, SharesWhole, Whole, UserDeletesTrigger, Error, workerVars, apiVars
<1>9. CASE Crash
  BY <1>9 DEF TypeOK, SharesWhole, Whole, Crash, Restart, Error, workerVars, apiVars
<1>10. ASSUME NEW w \in Worker, CancelOld(w)  PROVE  SharesWhole'
  BY <1>10 DEF TypeOK, SharesWhole, Whole, CancelOld, CancelRegistered, Goto, workerVars,
         apiVars
<1>11. ASSUME NEW w \in Worker, RemoveOld(w)  PROVE  SharesWhole'
  BY <1>11 DEF TypeOK, SharesWhole, Whole, RemoveOld, Goto, workerVars, apiVars
<1>12. ASSUME NEW w \in Worker, Assign(w)  PROVE  SharesWhole'
  BY <1>12 DEF TypeOK, SharesWhole, Whole, Assign, Goto, Registered, workerVars, apiVars
<1>13. ASSUME NEW w \in Worker, Return(w)  PROVE  SharesWhole'
  BY <1>13 DEF TypeOK, SharesWhole, Whole, Return, Goto, workerVars, apiVars
<1>14. ASSUME NEW w \in Worker, SelectTick(w)  PROVE  SharesWhole'
  BY <1>14 DEF TypeOK, SharesWhole, Whole, SelectTick, Goto, workerVars, apiVars
<1>15. ASSUME NEW w \in Worker, GetTrigger(w)  PROVE  SharesWhole'
  BY <1>15 DEF TypeOK, SharesWhole, Whole, GetTrigger, Goto, Error, Registered,
         workerVars, apiVars
<1>16. ASSUME NEW w \in Worker, CheckFailures(w)  PROVE  SharesWhole'
  BY <1>16 DEF TypeOK, SharesWhole, Whole, CheckFailures, Goto, Error, Forget, workerVars,
         apiVars
<1>17. ASSUME NEW w \in Worker, Rollback(w)  PROVE  SharesWhole'
  BY <1>17 DEF TypeOK, SharesWhole, Whole, Rollback, Goto, Error, UpdateTrigger,
         UpdateTriggerFails, workerVars, apiVars
<1>18. ASSUME NEW w \in Worker, RollForward(w)  PROVE  SharesWhole'
  <2>1. trigger[w] \in Weights /\ trigger[w].new + trigger[w].old = Full
    BY <1>18 DEF RollForward, TypeOK, SharesWhole, Whole
  <2>2. Whole(weights')
    BY <1>18, <2>1, RolledForwardWhole
    DEF RollForward, UpdateTrigger, UpdateTriggerFails, SharesWhole, Whole
  <2>3. ASSUME NEW v \in Worker
        PROVE  Whole(trigger'[v]) /\ (pc'[v] \in {"check", "forward"} => trigger'[v] # NoTrigger)
    <3>1. CASE v = w
      BY <1>18, <3>1 DEF RollForward, UpdateTrigger, UpdateTriggerFails, Goto, TypeOK,
         SharesWhole, Whole, Forget
    <3>2. CASE v # w
      <4>1. trigger'[v] = trigger[v] /\ pc'[v] = pc[v]
        BY <1>18, <3>2 DEF RollForward, UpdateTrigger, UpdateTriggerFails, Goto, TypeOK, Forget
      <4> QED  BY <4>1 DEF SharesWhole
    <3> QED  BY <3>1, <3>2
  <2> QED  BY <2>2, <2>3 DEF SharesWhole, Whole
<1>19. ASSUME NEW w \in Worker, Finish(w)  PROVE  SharesWhole'
  BY <1>19 DEF TypeOK, SharesWhole, Whole, Finish, Goto, Error, SetStatus, workerVars,
         apiVars
<1>20. ASSUME NEW w \in Worker, CloseQuit(w)  PROVE  SharesWhole'
  BY <1>20 DEF TypeOK, SharesWhole, Whole, CloseQuit, Goto, workerVars, apiVars
<1>21. ASSUME NEW w \in Worker, ClosePanics(w)  PROVE  SharesWhole'
  BY <1>21 DEF TypeOK, SharesWhole, Whole, ClosePanics, Restart, workerVars, apiVars
<1>22. ASSUME NEW w \in Worker, TickerFires(w)  PROVE  SharesWhole'
  BY <1>22 DEF TypeOK, SharesWhole, Whole, TickerFires, workerVars, apiVars
<1>23. CASE UNCHANGED vars
  BY <1>23 DEF TypeOK, SharesWhole, Whole, vars, workerVars, apiVars
<1> QED
  BY <1>1, <1>2, <1>3, <1>4, <1>5, <1>6, <1>7, <1>8, <1>9, <1>10, <1>11, <1>12, <1>13,
         <1>14, <1>15, <1>16, <1>17, <1>18, <1>19, <1>20, <1>21, <1>22, <1>23 DEF Next,
         Informer, Process
(* Nobody else changes the trigger that a worker has read. *)
LEMMA CurrentStep ==
    ASSUME TypeOK, UneditedLasts, CleanStart, OneWorker, ReadIsCurrent, [Next]_vars
    PROVE  ReadIsCurrent'
<1>1. CASE AddEvent
  BY <1>1 DEF TypeOK, UneditedLasts, CleanStart, OneWorker, ReadIsCurrent, Unedited,
         Processing, Config, AddEvent, SetStatus, Error, workerVars, apiVars
<1>2. CASE UpdateEvent
  BY <1>2 DEF TypeOK, UneditedLasts, CleanStart, OneWorker, ReadIsCurrent, Unedited,
         Processing, Config, UpdateEvent, Goto, workerVars, apiVars
<1>3. CASE DeleteEvent
  BY <1>3 DEF TypeOK, UneditedLasts, CleanStart, OneWorker, ReadIsCurrent, Unedited,
         Processing, Config, DeleteEvent, workerVars, apiVars
<1>4. CASE ReSync
  BY <1>4 DEF TypeOK, UneditedLasts, CleanStart, OneWorker, ReadIsCurrent, Unedited,
         Processing, Config, ReSync, SetStatus, Goto, Registered, workerVars, apiVars
<1>5. CASE HandleDelete
  BY <1>5 DEF TypeOK, UneditedLasts, CleanStart, OneWorker, ReadIsCurrent, Unedited,
         Processing, Config, HandleDelete, CancelRegistered, workerVars, apiVars
<1>6. CASE UserUpdates
  BY <1>6 DEF TypeOK, UneditedLasts, CleanStart, OneWorker, ReadIsCurrent, Unedited,
         Processing, Config, UserUpdates, workerVars, apiVars
<1>7. CASE UserDeletes
  BY <1>7 DEF TypeOK, UneditedLasts, CleanStart, OneWorker, ReadIsCurrent, Unedited,
         Processing, Config, UserDeletes, Error, workerVars, apiVars
<1>8. CASE UserDeletesTrigger
  BY <1>8 DEF TypeOK, UneditedLasts, CleanStart, OneWorker, ReadIsCurrent, Unedited,
         Processing, Config, UserDeletesTrigger, Error, workerVars, apiVars
<1>9. CASE Crash
  BY <1>9 DEF TypeOK, UneditedLasts, CleanStart, OneWorker, ReadIsCurrent, Unedited,
         Processing, Config, Crash, Restart, Error, workerVars, apiVars
<1>10. ASSUME NEW w \in Worker, CancelOld(w)  PROVE  ReadIsCurrent'
  BY <1>10 DEF TypeOK, UneditedLasts, CleanStart, OneWorker, ReadIsCurrent, Unedited,
         Processing, Config, CancelOld, CancelRegistered, Goto, workerVars, apiVars
<1>11. ASSUME NEW w \in Worker, RemoveOld(w)  PROVE  ReadIsCurrent'
  BY <1>11 DEF TypeOK, UneditedLasts, CleanStart, OneWorker, ReadIsCurrent, Unedited,
         Processing, Config, RemoveOld, Goto, workerVars, apiVars
<1>12. ASSUME NEW w \in Worker, Assign(w)  PROVE  ReadIsCurrent'
  BY <1>12 DEF TypeOK, UneditedLasts, CleanStart, OneWorker, ReadIsCurrent, Unedited,
         Processing, Config, Assign, Goto, Registered, workerVars, apiVars
<1>13. ASSUME NEW w \in Worker, Return(w)  PROVE  ReadIsCurrent'
  BY <1>13 DEF TypeOK, UneditedLasts, CleanStart, OneWorker, ReadIsCurrent, Unedited,
         Processing, Config, Return, Goto, workerVars, apiVars
<1>14. ASSUME NEW w \in Worker, SelectTick(w)  PROVE  ReadIsCurrent'
  BY <1>14 DEF TypeOK, UneditedLasts, CleanStart, OneWorker, ReadIsCurrent, Unedited,
         Processing, Config, SelectTick, Goto, workerVars, apiVars
<1>15. ASSUME NEW w \in Worker, GetTrigger(w)  PROVE  ReadIsCurrent'
  BY <1>15 DEF TypeOK, UneditedLasts, CleanStart, OneWorker, ReadIsCurrent, Unedited,
         Processing, Config, GetTrigger, Goto, Error, Registered, workerVars, apiVars
<1>16. ASSUME NEW w \in Worker, CheckFailures(w)  PROVE  ReadIsCurrent'
  BY <1>16 DEF TypeOK, UneditedLasts, CleanStart, OneWorker, ReadIsCurrent, Unedited,
         Processing, Config, CheckFailures, Goto, Error, Forget, workerVars, apiVars
<1>17. ASSUME NEW w \in Worker, Rollback(w)  PROVE  ReadIsCurrent'
  BY <1>17 DEF TypeOK, UneditedLasts, CleanStart, OneWorker, ReadIsCurrent, Unedited,
         Processing, Config, Rollback, Goto, Error, UpdateTrigger, UpdateTriggerFails,
         workerVars, apiVars
<1>18. ASSUME NEW w \in Worker, RollForward(w)  PROVE  ReadIsCurrent'
  BY <1>18 DEF TypeOK, UneditedLasts, CleanStart, OneWorker, ReadIsCurrent, Unedited,
         Processing, Config, RollForward, Goto, Error, UpdateTrigger, UpdateTriggerFails,
         RolledForward, Done, Forget, workerVars, apiVars
<1>19. ASSUME NEW w \in Worker, Finish(w)  PROVE  ReadIsCurrent'
  BY <1>19 DEF TypeOK, UneditedLasts, CleanStart, OneWorker, ReadIsCurrent, Unedited,
         Processing, Config, Finish, Goto, Error, SetStatus, workerVars, apiVars
<1>20. ASSUME NEW w \in Worker, CloseQuit(w)  PROVE  ReadIsCurrent'
  BY <1>20 DEF TypeOK, UneditedLasts, CleanStart, OneWorker, ReadIsCurrent, Unedited,
         Processing, Config, CloseQuit, Goto, workerVars, apiVars
<1>21. ASSUME NEW w \in Worker, ClosePanics(w)  PROVE  ReadIsCurrent'
  BY <1>21 DEF TypeOK, UneditedLasts, CleanStart, OneWorker, ReadIsCurrent, Unedited,
         Processing, Config, ClosePanics, Restart, workerVars, apiVars
<1>22. ASSUME NEW w \in Worker, TickerFires(w)  PROVE  ReadIsCurrent'
  BY <1>22 DEF TypeOK, UneditedLasts, CleanStart, OneWorker, ReadIsCurrent, Unedited,
         Processing, Config, TickerFires, workerVars, apiVars
<1>23. CASE UNCHANGED vars
  BY <1>23 DEF TypeOK, UneditedLasts, CleanStart, OneWorker, ReadIsCurrent, Unedited,
         Processing, Config, vars, workerVars, apiVars
<1> QED
  BY <1>1, <1>2, <1>3, <1>4, <1>5, <1>6, <1>7, <1>8, <1>9, <1>10, <1>11, <1>12, <1>13,
         <1>14, <1>15, <1>16, <1>17, <1>18, <1>19, <1>20, <1>21, <1>22, <1>23 DEF Next,
         Informer, Process
(* A conflict is counted. *)
LEMMA ConflictStep ==
    ASSUME TypeOK, ConflictsCounted, [Next]_vars
    PROVE  ConflictsCounted'
<1>1. CASE AddEvent
  BY <1>1 DEF TypeOK, ConflictsCounted, AddEvent, SetStatus, Error, workerVars, apiVars
<1>2. CASE UpdateEvent
  BY <1>2 DEF TypeOK, ConflictsCounted, UpdateEvent, Goto, workerVars, apiVars
<1>3. CASE DeleteEvent
  BY <1>3 DEF TypeOK, ConflictsCounted, DeleteEvent, workerVars, apiVars
<1>4. CASE ReSync
  BY <1>4 DEF TypeOK, ConflictsCounted, ReSync, SetStatus, Goto, Registered, workerVars,
         apiVars
<1>5. CASE HandleDelete
  BY <1>5 DEF TypeOK, ConflictsCounted, HandleDelete, CancelRegistered, workerVars,
         apiVars
<1>6. CASE UserUpdates
  BY <1>6 DEF TypeOK, ConflictsCounted, UserUpdates, workerVars, apiVars
<1>7. CASE UserDeletes
  BY <1>7 DEF TypeOK, ConflictsCounted, UserDeletes, Error, workerVars, apiVars
<1>8. CASE UserDeletesTrigger
  BY <1>8 DEF TypeOK, ConflictsCounted, UserDeletesTrigger, Error, workerVars, apiVars
<1>9. CASE Crash
  BY <1>9 DEF TypeOK, ConflictsCounted, Crash, Restart, Error, workerVars, apiVars
<1>10. ASSUME NEW w \in Worker, CancelOld(w)  PROVE  ConflictsCounted'
  BY <1>10 DEF TypeOK, ConflictsCounted, CancelOld, CancelRegistered, Goto, workerVars,
         apiVars
<1>11. ASSUME NEW w \in Worker, RemoveOld(w)  PROVE  ConflictsCounted'
  BY <1>11 DEF TypeOK, ConflictsCounted, RemoveOld, Goto, workerVars, apiVars
<1>12. ASSUME NEW w \in Worker, Assign(w)  PROVE  ConflictsCounted'
  BY <1>12 DEF TypeOK, ConflictsCounted, Assign, Goto, Registered, workerVars, apiVars
<1>13. ASSUME NEW w \in Worker, Return(w)  PROVE  ConflictsCounted'
  BY <1>13 DEF TypeOK, ConflictsCounted, Return, Goto, workerVars, apiVars
<1>14. ASSUME NEW w \in Worker, SelectTick(w)  PROVE  ConflictsCounted'
  BY <1>14 DEF TypeOK, ConflictsCounted, SelectTick, Goto, workerVars, apiVars
<1>15. ASSUME NEW w \in Worker, GetTrigger(w)  PROVE  ConflictsCounted'
  BY <1>15 DEF TypeOK, ConflictsCounted, GetTrigger, Goto, Error, Registered, workerVars,
         apiVars
<1>16. ASSUME NEW w \in Worker, CheckFailures(w)  PROVE  ConflictsCounted'
  BY <1>16 DEF TypeOK, ConflictsCounted, CheckFailures, Goto, Error, Forget, workerVars,
         apiVars
<1>17. ASSUME NEW w \in Worker, Rollback(w)  PROVE  ConflictsCounted'
  BY <1>17 DEF TypeOK, ConflictsCounted, Rollback, Goto, Error, UpdateTrigger,
         UpdateTriggerFails, workerVars, apiVars
<1>18. ASSUME NEW w \in Worker, RollForward(w)  PROVE  ConflictsCounted'
  BY <1>18 DEF TypeOK, ConflictsCounted, RollForward, Goto, Error, UpdateTrigger,
         UpdateTriggerFails, RolledForward, Done, Forget, workerVars, apiVars
<1>19. ASSUME NEW w \in Worker, Finish(w)  PROVE  ConflictsCounted'
  BY <1>19 DEF TypeOK, ConflictsCounted, Finish, Goto, Error, SetStatus, workerVars,
         apiVars
<1>20. ASSUME NEW w \in Worker, CloseQuit(w)  PROVE  ConflictsCounted'
  BY <1>20 DEF TypeOK, ConflictsCounted, CloseQuit, Goto, workerVars, apiVars
<1>21. ASSUME NEW w \in Worker, ClosePanics(w)  PROVE  ConflictsCounted'
  BY <1>21 DEF TypeOK, ConflictsCounted, ClosePanics, Restart, workerVars, apiVars
<1>22. ASSUME NEW w \in Worker, TickerFires(w)  PROVE  ConflictsCounted'
  BY <1>22 DEF TypeOK, ConflictsCounted, TickerFires, workerVars, apiVars
<1>23. CASE UNCHANGED vars
  BY <1>23 DEF TypeOK, ConflictsCounted, vars, workerVars, apiVars
<1> QED
  BY <1>1, <1>2, <1>3, <1>4, <1>5, <1>6, <1>7, <1>8, <1>9, <1>10, <1>11, <1>12, <1>13,
         <1>14, <1>15, <1>16, <1>17, <1>18, <1>19, <1>20, <1>21, <1>22, <1>23 DEF Next,
         Informer, Process
(* With fewer conflicts than tries the trigger was written. *)
LEMMA DoneStep ==
    ASSUME MaxErrors < MaxRetries, CanaryInv, ConflictsCounted, DoneIsFull, [Next]_vars
    PROVE  DoneIsFull'
<1>1. CASE AddEvent
  BY <1>1 DEF CanaryInv, TypeOK, UneditedLasts, CleanStart, OneWorker, ConflictsCounted,
         DoneIsFull, Unedited, Processing, Config, AddEvent, SetStatus, Error, workerVars,
         apiVars
<1>2. CASE UpdateEvent
  BY <1>2 DEF CanaryInv, TypeOK, UneditedLasts, CleanStart, OneWorker, ConflictsCounted,
         DoneIsFull, Unedited, Processing, Config, UpdateEvent, Goto, workerVars, apiVars
<1>3. CASE DeleteEvent
  BY <1>3 DEF CanaryInv, TypeOK, UneditedLasts, CleanStart, OneWorker, ConflictsCounted,
         DoneIsFull, Unedited, Processing, Config, DeleteEvent, workerVars, apiVars
<1>4. CASE ReSync
  BY <1>4 DEF CanaryInv, TypeOK, UneditedLasts, CleanStart, OneWorker, ConflictsCounted,
         DoneIsFull, Unedited, Processing, Config, ReSync, SetStatus, Goto, Registered,
         workerVars, apiVars
<1>5. CASE HandleDelete
  BY <1>5 DEF CanaryInv, TypeOK, UneditedLasts, CleanStart, OneWorker, ConflictsCounted,
         DoneIsFull, Unedited, Processing, Config, HandleDelete, CancelRegistered,
         workerVars, apiVars
<1>6. CASE UserUpdates
  BY <1>6 DEF CanaryInv, TypeOK, UneditedLasts, CleanStart, OneWorker, ConflictsCounted,
         DoneIsFull, Unedited, Processing, Config, UserUpdates, workerVars, apiVars
<1>7. CASE UserDeletes
  BY <1>7 DEF CanaryInv, TypeOK, UneditedLasts, CleanStart, OneWorker, ConflictsCounted,
         DoneIsFull, Unedited, Processing, Config, UserDeletes, Error, workerVars, apiVars
<1>8. CASE UserDeletesTrigger
  BY <1>8 DEF CanaryInv, TypeOK, UneditedLasts, CleanStart, OneWorker, ConflictsCounted,
         DoneIsFull, Unedited, Processing, Config, UserDeletesTrigger, Error, workerVars,
         apiVars
<1>9. CASE Crash
  BY <1>9 DEF CanaryInv, TypeOK, UneditedLasts, CleanStart, OneWorker, ConflictsCounted,
         DoneIsFull, Unedited, Processing, Config, Crash, Restart, Error, workerVars,
         apiVars
<1>10. ASSUME NEW w \in Worker, CancelOld(w)  PROVE  DoneIsFull'
  BY <1>10 DEF CanaryInv, TypeOK, UneditedLasts, CleanStart, OneWorker, ConflictsCounted,
         DoneIsFull, Unedited, Processing, Config, CancelOld, CancelRegistered, Goto,
         workerVars, apiVars
<1>11. ASSUME NEW w \in Worker, RemoveOld(w)  PROVE  DoneIsFull'
  BY <1>11 DEF CanaryInv, TypeOK, UneditedLasts, CleanStart, OneWorker, ConflictsCounted,
         DoneIsFull, Unedited, Processing, Config, RemoveOld, Goto, workerVars, apiVars
<1>12. ASSUME NEW w \in Worker, Assign(w)  PROVE  DoneIsFull'
  BY <1>12 DEF CanaryInv, TypeOK, UneditedLasts, CleanStart, OneWorker, ConflictsCounted,
         DoneIsFull, Unedited, Processing, Config, Assign, Goto, Registered, workerVars,
         apiVars
<1>13. ASSUME NEW w \in Worker, Return(w)  PROVE  DoneIsFull'
  BY <1>13 DEF CanaryInv, TypeOK, UneditedLasts, CleanStart, OneWorker, ConflictsCounted,
         DoneIsFull, Unedited, Processing, Config, Return, Goto, workerVars, apiVars
<1>14. ASSUME NEW w \in Worker, SelectTick(w)  PROVE  DoneIsFull'
  BY <1>14 DEF CanaryInv, TypeOK, UneditedLasts, CleanStart, OneWorker, ConflictsCounted,
         DoneIsFull, Unedited, Processing, Config, SelectTick, Goto, workerVars, apiVars
<1>15. ASSUME NEW w \in Worker, GetTrigger(w)  PROVE  DoneIsFull'
  BY <1>15 DEF CanaryInv, TypeOK, UneditedLasts, CleanStart, OneWorker, ConflictsCounted,
         DoneIsFull, Unedited, Processing, Config, GetTrigger, Goto, Error, Registered,
         workerVars, apiVars
<1>16. ASSUME NEW w \in Worker, CheckFailures(w)  PROVE  DoneIsFull'
  BY <1>16 DEF CanaryInv, TypeOK, UneditedLasts, CleanStart, OneWorker, ConflictsCounted,
         DoneIsFull, Unedited, Processing, Config, CheckFailures, Goto, Error, Forget,
         workerVars, apiVars
<1>17. ASSUME NEW w \in Worker, Rollback(w)  PROVE  DoneIsFull'
  BY <1>17 DEF CanaryInv, TypeOK, UneditedLasts, CleanStart, OneWorker, ConflictsCounted,
         DoneIsFull, Unedited, Processing, Config, Rollback, Goto, Error, UpdateTrigger,
         UpdateTriggerFails, workerVars, apiVars
<1>18. ASSUME NEW w \in Worker, RollForward(w)  PROVE  DoneIsFull'
  BY <1>18 DEF CanaryInv, TypeOK, UneditedLasts, CleanStart, OneWorker, ConflictsCounted,
         DoneIsFull, Unedited, Processing, Config, RollForward, Goto, Error,
         UpdateTrigger, UpdateTriggerFails, RolledForward, Done, Forget, workerVars,
         apiVars
<1>19. ASSUME NEW w \in Worker, Finish(w)  PROVE  DoneIsFull'
  BY <1>19 DEF CanaryInv, TypeOK, UneditedLasts, CleanStart, OneWorker, ConflictsCounted,
         DoneIsFull, Unedited, Processing, Config, Finish, Goto, Error, SetStatus,
         workerVars, apiVars
<1>20. ASSUME NEW w \in Worker, CloseQuit(w)  PROVE  DoneIsFull'
  BY <1>20 DEF CanaryInv, TypeOK, UneditedLasts, CleanStart, OneWorker, ConflictsCounted,
         DoneIsFull, Unedited, Processing, Config, CloseQuit, Goto, workerVars, apiVars
<1>21. ASSUME NEW w \in Worker, ClosePanics(w)  PROVE  DoneIsFull'
  BY <1>21 DEF CanaryInv, TypeOK, UneditedLasts, CleanStart, OneWorker, ConflictsCounted,
         DoneIsFull, Unedited, Processing, Config, ClosePanics, Restart, workerVars,
         apiVars
<1>22. ASSUME NEW w \in Worker, TickerFires(w)  PROVE  DoneIsFull'
  BY <1>22 DEF CanaryInv, TypeOK, UneditedLasts, CleanStart, OneWorker, ConflictsCounted,
         DoneIsFull, Unedited, Processing, Config, TickerFires, workerVars, apiVars
<1>23. CASE UNCHANGED vars
  BY <1>23 DEF CanaryInv, TypeOK, UneditedLasts, CleanStart, OneWorker, ConflictsCounted,
         DoneIsFull, Unedited, Processing, Config, vars, workerVars, apiVars
<1> QED
  BY <1>1, <1>2, <1>3, <1>4, <1>5, <1>6, <1>7, <1>8, <1>9, <1>10, <1>11, <1>12, <1>13,
         <1>14, <1>15, <1>16, <1>17, <1>18, <1>19, <1>20, <1>21, <1>22, <1>23 DEF Next,
         Informer, Process

(* Init and every step of the manager establish and keep the invariant.    *)
THEOREM CanaryInvariance == Spec => []CanaryInv
<1>1. Init => CanaryInv
  <2> SUFFICES ASSUME Init  PROVE CanaryInv  OBVIOUS
  <2>1. [gen |-> 0, status |-> ""] \in Config  BY DEF Config, Status
  <2>2. [new |-> 0, old |-> Full] \in Weights  BY DEF Weights
  <2>3. 0 \in 0 .. MaxRetries /\ 0 \in 0 .. MaxErrors  OBVIOUS
  <2>4. TypeOK  BY <2>1, <2>2, <2>3 DEF Init, TypeOK
  <2>5. UneditedLasts /\ CleanStart /\ OneWorker /\ ReadIsCurrent
    BY DEF Init, UneditedLasts, CleanStart, OneWorker, ReadIsCurrent, Unedited
  <2>6. SharesWhole
    <3>1. 0 + Full = Full  OBVIOUS
    <3>2. Whole(weights)  BY <3>1 DEF Init, Whole
    <3>3. \A w \in Worker : trigger[w] = NoTrigger /\ pc[w] = "free"  BY DEF Init
    <3> QED  BY <3>2, <3>3 DEF SharesWhole, Whole
  <2> QED  BY <2>4, <2>5, <2>6 DEF CanaryInv
<1>2. CanaryInv /\ [Next]_vars => CanaryInv'
  BY TypeStep, LastsStep, CleanStep, OneWorkerStep, WholeStep, CurrentStep DEF CanaryInv
<1> QED  BY <1>1, <1>2, PTL DEF Spec

(* The state of the manager, its informer and its goroutines is well typed *)
(* whatever fails: the weights in the trigger stay between 0 and all the   *)
(* traffic, and no update is tried more than maxRetries times.             *)
THEOREM CanaryTypeCorrect == Spec => []TypeOK
<1>1. CanaryInv => TypeOK  BY DEF CanaryInv
<1> QED  BY <1>1, CanaryInvariance, PTL

(* The cancel function in the map cancels the worker that processes the    *)
(* config: see WorkerCanBeCancelled.                                       *)
THEOREM CancelSafety == Spec => []WorkerCanBeCancelled
<1>1. CanaryInv => WorkerCanBeCancelled
  BY DEF CanaryInv, OneWorker, WorkerCanBeCancelled
<1> QED  BY <1>1, CanaryInvariance, PTL

(* No step gives the new function more than one increment, or makes        *)
(* traffic disappear: see GradualRollout.                                  *)
THEOREM RolloutSafety == Spec => GradualRollout
<1> DEFINE A == Unedited /\ weights # weights' /\ weights' # NoTrigger =>
                    /\ weights'.new <= weights.new + Increment
                    /\ weights'.new + weights'.old = Full
<1>1. CanaryInv /\ [Next]_vars => [A]_vars
  <2> SUFFICES ASSUME CanaryInv, Next, Unedited, weights # weights', weights' # NoTrigger
               PROVE  /\ weights'.new <= weights.new + Increment
                      /\ weights'.new + weights'.old = Full
    OBVIOUS
  <2>1. PICK w \in Worker : Rollback(w) \/ RollForward(w)
    BY DEF Next, Informer, Process, AddEvent, UpdateEvent, DeleteEvent, ReSync, HandleDelete,
       CancelOld, RemoveOld, Assign, Return, SelectTick, GetTrigger, CheckFailures, Finish,
       CloseQuit, ClosePanics, Restart, TickerFires, UserUpdates, UserDeletes,
       UserDeletesTrigger, Crash, apiVars
  <2>2. weights \in Weights
    BY <2>1 DEF Rollback, RollForward, UpdateTrigger, UpdateTriggerFails, CanaryInv, TypeOK
  <2>3. CASE Rollback(w)
    <3>1. weights' = [new |-> 0, old |-> Full]
      BY <2>3 DEF Rollback, UpdateTrigger, UpdateTriggerFails
    <3> QED  BY <2>2, <3>1 DEF Weights
  <2>4. CASE RollForward(w)
    <3>1. weights' = RolledForward(trigger[w]) /\ weights # NoTrigger
      BY <2>4 DEF RollForward, UpdateTrigger, UpdateTriggerFails
    <3>2. trigger[w] = weights
      BY <2>4, <3>1 DEF RollForward, CanaryInv, ReadIsCurrent
    <3>3. weights.new + weights.old = Full
      BY <3>1 DEF CanaryInv, SharesWhole, Whole
    <3> QED  BY <2>2, <3>1, <3>2, <3>3, RolledForwardWhole
  <2> QED  BY <2>1, <2>3, <2>4
<1>2. [][A]_vars => GradualRollout  BY PTL DEF GradualRollout
<1> QED  BY <1>1, <1>2, CanaryInvariance, PTL DEF Spec

(* When an update cannot meet as many conflicts as it is tried, a config   *)
(* becomes succeeded only with all the traffic on the new function: see    *)
(* SucceededHasAllTraffic.                                                 *)
THEOREM SuccessSafety ==
    ASSUME MaxErrors < MaxRetries
    PROVE  Spec => SucceededHasAllTraffic
<1> DEFINE Inv == CanaryInv /\ ConflictsCounted /\ DoneIsFull
           A == Unedited /\ cfg' # cfg /\ cfg' # NoCfg /\ cfg'.status = "succeeded"
                  /\ cfg.status # "succeeded" /\ weights # NoTrigger => weights.new = Full
<1>1. Spec => []Inv
  <2>1. Init => ConflictsCounted /\ DoneIsFull
    <3>1. Init => \A w \in Worker : tries[w] = 0 /\ errors = 0  BY DEF Init
    <3>2. Init => ~Unedited  BY DEF Init, Unedited
    <3> QED  BY <3>1, <3>2 DEF ConflictsCounted, DoneIsFull
  <2>2. Inv /\ [Next]_vars => (ConflictsCounted /\ DoneIsFull)'
    BY ConflictStep, DoneStep DEF CanaryInv
  <2> QED  BY <2>1, <2>2, CanaryInvariance, PTL DEF Spec
<1>2. Inv /\ [Next]_vars => [A]_vars
  <2> SUFFICES ASSUME Inv, Next, Unedited, cfg' # cfg, cfg' # NoCfg,
                      cfg'.status = "succeeded", cfg.status # "succeeded", weights # NoTrigger
               PROVE  weights.new = Full
    OBVIOUS
  <2>1. ~(AddEvent \/ ReSync)
    BY DEF AddEvent, ReSync, SetStatus, CanaryInv, TypeOK, Config
  <2>2. ~UserUpdates
    BY DEF UserUpdates, CanaryInv, TypeOK, Config
  <2>3. PICK w \in Worker : Finish(w)
    BY <2>1, <2>2 DEF Next, Informer, Process, UpdateEvent, DeleteEvent, HandleDelete,
       CancelOld, RemoveOld, Assign, Return, SelectTick, GetTrigger, CheckFailures, Rollback,
       RollForward, CloseQuit, ClosePanics, Restart, TickerFires, UserDeletes,
       UserDeletesTrigger, Crash, apiVars
  <2>4. pc[w] = "setSucceeded"
    BY <2>3 DEF Finish, SetStatus, CanaryInv, TypeOK, Config
  <2> QED  BY <2>4 DEF DoneIsFull
<1>3. [][A]_vars => SucceededHasAllTraffic  BY PTL DEF SucceededHasAllTraffic
<1> QED  BY <1>1, <1>2, <1>3, PTL DEF Spec

=============================================================================
