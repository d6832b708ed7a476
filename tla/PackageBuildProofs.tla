------------------------- MODULE PackageBuildProofs -------------------------
(* Safety of the package watcher for any number of goroutines, edits,      *)
(* failed calls and restarts.                                              *)
EXTENDS PackageBuild, TLAPS

(* What a step does to the goroutines, in place of EXCEPT.                 *)
Moved(b, pc, copy, built) ==
    /\ build' \in [Build -> BuildState]
    /\ \A x \in Build \ {b} : build'[x] = build[x]
    /\ build'[b].pc = pc /\ build'[b].key = build[b].key
    /\ build'[b].copy = copy /\ build'[b].built = built

Returned(b) ==
    /\ build' \in [Build -> BuildState]
    /\ \A x \in Build \ {b} : build'[x] = build[x]
    /\ build'[b].pc = "idle" /\ build'[b].key = 0 /\ build'[b].copy = 0
    /\ build'[b].built = 0

Requests(b, rv) ==
    /\ build' \in [Build -> BuildState]
    /\ build[b].pc = "idle"
    /\ \A x \in Build \ {b} : build'[x] = build[x]
    /\ build'[b].pc = "start" /\ build'[b].key = rv /\ build'[b].copy = rv
    /\ build'[b].built = 0

(* The steps of a goroutine, and the start of one.                         *)
LEMMA GotoFacts ==
    ASSUME BuildOK, NEW b \in Build, NEW pc \in BuildPc, Goto(b, pc)
    PROVE  Moved(b, pc, build[b].copy, build[b].built)
BY DEF BuildOK, BuildState, Goto, Moved

LEMMA ReturnFacts ==
    ASSUME BuildOK, NEW b \in Build, Return(b)
    PROVE  Returned(b)
BY BoundAssumption DEF BuildOK, BuildState, BuildPc, Return, Returned, Resting, Archive

LEMMA GoBuildFacts ==
    ASSUME BuildOK, NEW rv \in Nat, GoBuild(rv)
    PROVE  \E b \in Build : Requests(b, rv)
<1> DEFINE r == [pc |-> "start", key |-> rv, copy |-> rv, built |-> 0]
<1>1. PICK b \in Build : build[b].pc = "idle" /\ build' = [build EXCEPT ![b] = r]
  BY DEF GoBuild
<1>2. 0 \in Archive
  BY BoundAssumption DEF Archive
<1>3. r \in BuildState /\ r.pc = "start" /\ r.key = rv /\ r.copy = rv /\ r.built = 0
  BY <1>2 DEF BuildState, BuildPc
<1>4. /\ build' \in [Build -> BuildState] /\ build'[b] = r
      /\ \A x \in Build \ {b} : build'[x] = build[x]
  <2> HIDE DEF r
  <2> QED BY <1>1, <1>3 DEF BuildOK
<1>5. Requests(b, rv)
  BY <1>1, <1>3, <1>4 DEF Requests
<1> QED BY <1>5

(* The versions of the package, and what an append leaves and adds.        *)
LEMMA LogFacts ==
    ASSUME LogOK
    PROVE  /\ Len(log) \in Nat \ {0}
           /\ \A i \in 1 .. Len(log) : log[i] \in Package
           /\ Current \in Package /\ Current = log[Len(log)]
BY DEF LogOK, Current

LEMMA AppendFacts ==
    ASSUME LogOK, NEW v \in Package, log' = Append(log, v)
    PROVE  /\ LogOK'
           /\ Len(log') = Len(log) + 1
           /\ \A i \in 1 .. Len(log) : log'[i] = log[i]
           /\ Current' = v
           /\ log'[Len(log) + 1] = v
BY DEF LogOK, Current

(* The versions that a step may add: none or one.                          *)
Grows ==
    /\ LogOK'
    /\ Len(log') \in {Len(log), Len(log) + 1}
    /\ \A i \in 1 .. Len(log) : log'[i] = log[i]

LEMMA QuietGrows ==
    ASSUME LogOK, UNCHANGED log
    PROVE  Grows /\ Current' = Current
BY DEF Grows, LogOK, Current

LEMMA AppendGrows ==
    ASSUME LogOK, NEW v \in Package, log' = Append(log, v)
    PROVE  Grows
BY AppendFacts, LogFacts DEF Grows

(* The parts of the invariant that a step leaves alone.                    *)
LEMMA WatchFrame ==
    ASSUME LogOK, WatchOK, Grows, UNCHANGED watchVars
    PROVE  WatchOK'
BY LogFacts DEF WatchOK, Grows, watchVars

LEMMA UserFrame ==
    ASSUME LogOK, UserOK, Grows, UNCHANGED <<function, loaded>>
    PROVE  UserOK'
BY LogFacts DEF UserOK, Grows

LEMMA BuildFrame ==
    ASSUME LogOK, BuildOK, Grows, build' \in [Build -> BuildState],
           \A x \in Build : build'[x] = build[x]
             \/ /\ build'[x].key <= build'[x].copy
                /\ build'[x].copy <= Len(log')
                /\ build'[x].pc = "succeed" => build'[x].copy < Len(log')
    PROVE  BuildOK'
<1> SUFFICES ASSUME NEW x \in Build
             PROVE  /\ build'[x].key <= build'[x].copy
                    /\ build'[x].copy <= Len(log')
                    /\ build'[x].pc = "succeed" => build'[x].copy < Len(log')
  BY DEF BuildOK
<1>1. build[x].copy \in Nat /\ build'[x].copy \in Nat
  BY DEF BuildOK, BuildState
<1> QED BY <1>1, LogFacts DEF BuildOK, Grows

(* A goroutine that a step does not move had no right to write a version   *)
(* that the step adds.                                                     *)
LEMMA BuiltFrame ==
    ASSUME LogOK, BuildOK, BuiltFromCurrent, Grows,
           \A x \in Build : build'[x] = build[x] \/ FromCurrent(x)'
    PROVE  BuiltFromCurrent'
<1> SUFFICES ASSUME NEW x \in Build, build'[x] = build[x]
             PROVE  FromCurrent(x)'
  BY DEF BuiltFromCurrent
<1>1. build[x].copy \in Nat /\ build[x].copy <= Len(log) /\ Len(log) \in Nat
      /\ (build[x].pc = "succeed" => build[x].copy < Len(log))
  BY LogFacts DEF BuildOK, BuildState
<1>2. CASE Len(log') = Len(log)
  <2>1. Current' = Current
    BY <1>2, LogFacts DEF Grows, Current
  <2> QED BY <1>2, <2>1 DEF BuiltFromCurrent, FromCurrent, Latest
<1>3. CASE Len(log') = Len(log) + 1
  BY <1>1, <1>3 DEF FromCurrent, Latest
<1> QED BY <1>2, <1>3 DEF Grows

LEMMA OwnersKept ==
    ASSUME OwnerRuns, OneOwner, Current'.status = Current.status,
           \A x \in Build : Owns(x)' => Owns(x)
    PROVE  OwnerRuns' /\ OneOwner'
BY DEF OwnerRuns, OneOwner

LEMMA OwnersGone ==
    ASSUME \A x \in Build : ~Owns(x)'
    PROVE  OwnerRuns' /\ OneOwner'
BY DEF OwnerRuns, OneOwner

(* A goroutine that a step does not move owns the package only if it did   *)
(* before.                                                                 *)
LEMMA OwnsFrame ==
    ASSUME LogOK, BuildOK, Grows, NEW x \in Build, build'[x] = build[x], Owns(x)'
    PROVE  Owns(x)
<1>1. build[x].copy \in Nat /\ build[x].copy <= Len(log) /\ Len(log) \in Nat
  BY LogFacts DEF BuildOK, BuildState
<1> QED BY <1>1 DEF Owns, Building, Latest, Grows

LEMMA RequestedFrame ==
    ASSUME TypeOK, Requested, Grows, BuildOK', NEW b \in Build,
           UNCHANGED added, store'.rv = store.rv,
           store' = store \/ store'.status # "pending",
           build[b].pc # "idle",
           \A x \in Build \ {b} : build'[x] = build[x],
           build'[b].pc # "idle" => build'[b].copy # 0,
           build'[b].pc \in {"start", "run"}
             => build[b].pc = "start" /\ build'[b].copy = build[b].copy
    PROVE  Requested'
<1> USE LogFacts DEF TypeOK
<1>1. ~added /\ store.rv # 0
  BY DEF Requested
<1>2. store.rv \in 1 .. Len(log)
  BY <1>1 DEF WatchOK
<1>3. store'.status = "pending" => store'.rv # 0 /\ log'[store'.rv].status # "running"
  BY <1>1, <1>2 DEF Requested, Grows
<1>4. \A x \in Build : build'[x].pc # "idle" => build'[x].copy # 0
  BY DEF Requested
<1>5. ASSUME NEW x \in Build, build'[x].pc \in {"start", "run"}
      PROVE  log'[build'[x].copy].status # "running"
  <2>1. build'[x].copy = build[x].copy /\ build[x].pc \in {"start", "run"}
    BY <1>5
  <2>2. build[x].copy \in 1 .. Len(log)
    BY <2>1 DEF Requested, BuildOK, BuildState
  <2> QED BY <2>1, <2>2 DEF Requested, Grows
<1> QED BY <1>1, <1>3, <1>4, <1>5 DEF Requested

(* The steps of a goroutine.                                               *)
LEMMA StartPreserves ==
    ASSUME IInv, NEW b \in Build, Start(b)
    PROVE  IInv'
<1> USE DEF IInv, TypeOK
<1>1. UNCHANGED <<log, watchVars, userVars, errors, restarts, disturbed>> /\ build[b].pc = "start"
  BY DEF Start
<1>2. Grows /\ Current' = Current
  BY <1>1, QuietGrows
<1>3. Returned(b) \/ Moved(b, "run", build[b].copy, build[b].built)
  BY ReturnFacts, GotoFacts DEF Start, BuildPc
<1>4. BuildOK'
  BY <1>1, <1>2, <1>3, BuildFrame, LogFacts DEF Returned, Moved, BuildOK, BuildState
<1>5. WatchOK' /\ UserOK' /\ BoundOK'
  BY <1>1, <1>2, WatchFrame, UserFrame DEF userVars, BoundOK
<1>6. OwnerRuns' /\ OneOwner'
  <2>1. \A x \in Build : Owns(x)' => Owns(x)
    BY <1>2, <1>3, OwnsFrame DEF Owns, Building, Returned, Moved
  <2> QED BY <1>2, <2>1, OwnersKept
<1>7. Requested'
  BY <1>1, <1>2, <1>3, <1>4, RequestedFrame DEF Returned, Moved, watchVars, Requested
<1>8. BuiltFromCurrent'
  BY <1>2, <1>3, BuiltFrame DEF FromCurrent, Returned, Moved
<1> QED BY <1>2, <1>4, <1>5, <1>6, <1>7, <1>8 DEF Grows

LEMMA GetEnvPreserves ==
    ASSUME IInv, NEW b \in Build, GetEnv(b)
    PROVE  IInv'
<1> USE DEF IInv, TypeOK
<1>1. UNCHANGED <<log, watchVars, userVars, restarts>> /\ build[b].pc = "env"
  BY DEF GetEnv
<1>2. Grows /\ Current' = Current
  BY <1>1, QuietGrows
<1>3. \/ Returned(b)
      \/ Moved(b, "builder", build[b].copy, build[b].built)
      \/ Moved(b, "fail", build[b].copy, build[b].built)
  BY ReturnFacts, GotoFacts DEF GetEnv, BuildPc
<1>4. BuildOK'
  BY <1>1, <1>2, <1>3, BuildFrame, LogFacts DEF Returned, Moved, BuildOK, BuildState
<1>5. BoundOK'
  <2>1. disturbed' \in BOOLEAN
    BY DEF GetEnv, Disturb, BoundOK
  <2>2. errors' \in 0 .. MaxErrors
    BY BoundAssumption DEF GetEnv, Error, BoundOK
  <2> QED BY <1>1, <2>1, <2>2 DEF userVars, BoundOK
<1>6. WatchOK' /\ UserOK'
  BY <1>1, <1>2, WatchFrame, UserFrame DEF userVars
<1>7. OwnerRuns' /\ OneOwner'
  <2>1. \A x \in Build : Owns(x)' => Owns(x)
    BY <1>1, <1>2, <1>3, OwnsFrame DEF Owns, Building, Returned, Moved
  <2> QED BY <1>2, <2>1, OwnersKept
<1>8. Requested'
  BY <1>1, <1>2, <1>3, <1>4, RequestedFrame DEF Returned, Moved, watchVars, Requested
<1>9. BuiltFromCurrent'
  BY <1>2, <1>3, BuiltFrame DEF FromCurrent, Returned, Moved
<1> QED BY <1>2, <1>4, <1>5, <1>6, <1>7, <1>8, <1>9 DEF Grows

LEMMA BuildPackagePreserves ==
    ASSUME IInv, NEW b \in Build, BuildPackage(b)
    PROVE  IInv'
<1> USE DEF IInv, TypeOK
<1>1. /\ UNCHANGED <<log, watchVars, userVars, errors, restarts, disturbed>>
      /\ build[b].pc = "builder"
  BY DEF BuildPackage
<1>2. Grows /\ Current' = Current
  BY <1>1, QuietGrows
<1>3. \/ Current.src # 0 /\ Moved(b, "functions", build[b].copy, Current.src)
      \/ Moved(b, "fail", build[b].copy, build[b].built)
  <2>1. CASE Goto(b, "fail")
    BY <2>1, GotoFacts DEF BuildPc
  <2>2. CASE /\ Current.src # 0
             /\ build' = [build EXCEPT ![b].pc = "functions", ![b].built = Current.src]
    BY <2>2, LogFacts DEF Moved, BuildOK, BuildState, BuildPc, Package
  <2> QED BY <2>1, <2>2 DEF BuildPackage
<1>4. BuildOK'
  BY <1>1, <1>2, <1>3, BuildFrame, LogFacts DEF Moved, BuildOK, BuildState
<1>5. WatchOK' /\ UserOK' /\ BoundOK'
  BY <1>1, <1>2, WatchFrame, UserFrame DEF userVars, BoundOK
<1>6. OwnerRuns' /\ OneOwner'
  <2>1. \A x \in Build : Owns(x)' => Owns(x)
    BY <1>1, <1>2, <1>3, OwnsFrame DEF Owns, Building, Moved
  <2> QED BY <1>2, <2>1, OwnersKept
<1>7. Requested'
  BY <1>1, <1>2, <1>3, <1>4, RequestedFrame DEF Moved, watchVars, Requested
<1>8. BuiltFromCurrent'
  BY <1>2, <1>3, BuiltFrame DEF FromCurrent, Moved
<1> QED BY <1>2, <1>4, <1>5, <1>6, <1>7, <1>8 DEF Grows

LEMMA UpdateFunctionsPreserves ==
    ASSUME IInv, NEW b \in Build, UpdateFunctions(b)
    PROVE  IInv'
<1> USE DEF IInv, TypeOK
<1>1. /\ UNCHANGED <<log, watchVars, loaded, edits, restarts, disturbed>>
      /\ build[b].pc = "functions"
  BY DEF UpdateFunctions
<1>2. Grows /\ Current' = Current
  BY <1>1, QuietGrows
<1>3. \E pc \in {"package", "fail", "unlisted"} :
        Moved(b, pc, build[b].copy, build[b].built)
  BY GotoFacts DEF UpdateFunctions, BuildPc
<1>4. BuildOK'
  BY <1>1, <1>2, <1>3, BuildFrame, LogFacts DEF Moved, BuildOK, BuildState
<1>5. UserOK'
  <2>1. build[b].copy \in 1 .. Len(log)
    BY <1>1 DEF Requested, BuildOK, BuildState
  <2> QED BY <1>1, <2>1, LogFacts DEF UserOK, UpdateFunctions
<1>6. WatchOK' /\ BoundOK'
  BY <1>1, <1>2, WatchFrame, BoundAssumption DEF UpdateFunctions, BoundOK, Error
<1>7. OwnerRuns' /\ OneOwner'
  <2>1. \A x \in Build : Owns(x)' => Owns(x)
    BY <1>1, <1>2, <1>3, OwnsFrame DEF Owns, Building, Moved
  <2> QED BY <1>2, <2>1, OwnersKept
<1>8. Requested'
  BY <1>1, <1>2, <1>3, <1>4, RequestedFrame DEF Moved, watchVars, Requested
<1>9. FromCurrent(b)'
  BY <1>1, <1>2, <1>3 DEF FromCurrent, BuiltFromCurrent, Moved, Latest
<1>10. BuiltFromCurrent'
  BY <1>2, <1>3, <1>9, BuiltFrame DEF Moved
<1> QED BY <1>2, <1>4, <1>5, <1>6, <1>7, <1>8, <1>10 DEF Grows

LEMMA RunPreserves ==
    ASSUME IInv, NEW b \in Build, Run(b)
    PROVE  IInv'
<1> USE DEF IInv, TypeOK
<1> DEFINE rv == build[b].copy
           status == IF log[rv].src # 0 THEN "running"
                     ELSE IF log[rv].deploy = 0 THEN "failed" ELSE "none"
           v == [Current EXCEPT !.status = status]
<1>1. UNCHANGED <<added, userVars, restarts>> /\ build[b].pc = "run"
  BY DEF Run
<1>2. /\ rv \in 1 .. Len(log) /\ log[rv].status # "running"
      /\ Current \in Package /\ Len(log) \in Nat
  BY <1>1, LogFacts DEF Requested, BuildOK, BuildState
<1>3. status \in {"running", "failed", "none"}
  OBVIOUS
<1>4. v \in Package /\ v.status = status
  BY <1>2, <1>3 DEF Package, BuildStatus
<1>5. store'.rv = store.rv /\ (store' = store \/ store'.status = status)
      /\ store' \in [rv : 0 .. Len(log), status : BuildStatus]
  BY <1>3 DEF Run, WatchOK, BuildStatus
<1>6. UserOK /\ LogOK /\ \A x \in Build : Owns(x) /\ Latest(rv) => FALSE
  BY <1>2 DEF OwnerRuns, Latest, Current
<1> HIDE DEF status, v
<1>7. CASE /\ Latest(rv) /\ log' = Append(log, v) /\ UNCHANGED <<errors, disturbed>>
           /\ IF status = "running" THEN Moved(b, "env", Len(log) + 1, build[b].built)
              ELSE Returned(b)
  <2>1. Grows /\ Len(log') = Len(log) + 1 /\ Current' = v
    BY <1>4, <1>7, AppendGrows, AppendFacts
  <2>2. BuildOK'
    BY <1>2, <1>7, <2>1, BuildFrame DEF Returned, Moved, BuildOK, BuildState
  <2>3. WatchOK' /\ UserOK' /\ BoundOK'
    BY <1>1, <1>2, <1>5, <1>7, <2>1, UserFrame DEF userVars, BoundOK, WatchOK
  <2>4. \A x \in Build : Owns(x)' => x = b /\ status = "running"
    BY <1>6, <1>7, <2>1, OwnsFrame DEF Owns, Building, Moved, Returned
  <2>5. OwnerRuns' /\ OneOwner'
    BY <1>4, <2>1, <2>4 DEF OwnerRuns, OneOwner
  <2>6. Requested'
    BY <1>1, <1>2, <1>3, <1>5, <1>7, <2>1, <2>2, RequestedFrame DEF Returned, Moved
  <2>7. BuiltFromCurrent'
    BY <1>7, <2>1, BuiltFrame DEF FromCurrent, Returned, Moved
  <2> QED BY <2>1, <2>2, <2>3, <2>5, <2>6, <2>7 DEF Grows
<1>8. CASE /\ WriteFails(rv) /\ Returned(b) /\ UNCHANGED log
           /\ disturbed' = (disturbed \/ Latest(rv))
  <2>1. Grows /\ Current' = Current
    BY <1>8, QuietGrows
  <2>2. BuildOK'
    BY <1>2, <1>8, <2>1, BuildFrame DEF Returned, BuildOK, BuildState
  <2>3. BoundOK'
    <3>1. disturbed' \in BOOLEAN
      BY <1>8
    <3>2. errors' \in 0 .. MaxErrors
      BY <1>8, BoundAssumption DEF WriteFails, Error, BoundOK
    <3> QED BY <1>1, <3>1, <3>2 DEF userVars, BoundOK
  <2>4. WatchOK' /\ UserOK'
    BY <1>1, <1>5, <1>8, <2>1, UserFrame DEF userVars, WatchOK
  <2>5. \A x \in Build : Owns(x)' => Owns(x)
    BY <1>8, <2>1, OwnsFrame DEF Owns, Building, Returned
  <2>6. OwnerRuns' /\ OneOwner'
    BY <2>1, <2>5, OwnersKept
  <2>7. Requested'
    BY <1>1, <1>3, <1>5, <1>8, <2>1, <2>2, RequestedFrame DEF Returned
  <2>8. BuiltFromCurrent'
    BY <1>8, <2>1, BuiltFrame DEF FromCurrent, Returned
  <2> QED BY <2>1, <2>2, <2>3, <2>4, <2>6, <2>7, <2>8 DEF Grows
<1>9. ASSUME build' = [build EXCEPT ![b].pc = "env", ![b].copy = Len(log) + 1]
      PROVE  Moved(b, "env", Len(log) + 1, build[b].built)
  BY <1>2, <1>9 DEF Moved, BuildOK, BuildState, BuildPc
<1> QED BY <1>7, <1>8, <1>9, ReturnFacts DEF Run, UpdateStatus, status, v

(* The steps that report a result are taken by the goroutine that owns the *)
(* package, so that no goroutine owns it afterwards.                       *)
LEMMA ReportGivesUp ==
    ASSUME IInv, NEW b \in Build, Owns(b), Grows, ~Owns(b)',
           \A x \in Build \ {b} : build'[x] = build[x]
    PROVE  OwnerRuns' /\ OneOwner'
<1>1. \A x \in Build : ~Owns(x)'
  BY OwnsFrame DEF OneOwner, IInv, TypeOK
<1> QED BY <1>1, OwnersGone

(* A status, written from the latest version, is a version.                *)
LEMMA StatusFacts ==
    ASSUME LogOK, NEW rv \in Nat, NEW status \in BuildStatus, UpdateStatus(rv, status)
    PROVE  /\ Grows /\ Len(log') = Len(log) + 1 /\ rv = Len(log)
           /\ Current'.status = status /\ Current'.src = Current.src
           /\ Current'.deploy = Current.deploy
<1> DEFINE v == [Current EXCEPT !.status = status]
<1>1. v \in Package /\ v.status = status /\ v.src = Current.src /\ v.deploy = Current.deploy
  BY LogFacts DEF Package
<1>2. log' = Append(log, v) /\ rv = Len(log)
  BY DEF UpdateStatus, Latest
<1> HIDE DEF v
<1> QED BY <1>1, <1>2, AppendGrows, AppendFacts

LEMMA ReportUnlistedPreserves ==
    ASSUME IInv, NEW b \in Build, ReportUnlisted(b)
    PROVE  IInv'
<1> USE DEF IInv, TypeOK
<1>1. UNCHANGED <<watchVars, userVars, restarts, disturbed>> /\ build[b].pc = "unlisted"
  BY DEF ReportUnlisted
<1>2. Moved(b, "package", build[b].copy, build[b].built) /\ build[b].copy \in Nat
  BY GotoFacts DEF ReportUnlisted, BuildPc, BuildOK, BuildState
<1>3. \/ UpdateStatus(build[b].copy, "failed") /\ UNCHANGED errors
      \/ WriteFails(build[b].copy) /\ UNCHANGED log
  BY DEF ReportUnlisted
<1>4. Grows
  BY <1>2, <1>3, QuietGrows, StatusFacts DEF BuildStatus
<1>5. BuildOK'
  BY <1>2, <1>4, BuildFrame, LogFacts DEF Moved, BuildOK, BuildState, Grows
<1>6. WatchOK' /\ UserOK' /\ BoundOK'
  <2>1. errors' \in 0 .. MaxErrors
    BY <1>3, BoundAssumption DEF WriteFails, Error, BoundOK
  <2> QED BY <1>1, <1>4, <2>1, WatchFrame, UserFrame DEF userVars, BoundOK
<1>7. OwnerRuns' /\ OneOwner' /\ FromCurrent(b)'
  <2>1. CASE UNCHANGED log
    <3>1. Current' = Current
      BY <2>1, QuietGrows
    <3>2. \A x \in Build : Owns(x)' => Owns(x)
      BY <1>1, <1>2, <1>4, OwnsFrame DEF Owns, Building, Moved
    <3>3. FromCurrent(b)'
      BY <1>1, <1>2, <2>1, <3>1 DEF FromCurrent, BuiltFromCurrent, Moved, Latest
    <3> QED BY <3>1, <3>2, <3>3, OwnersKept
  <2>2. CASE UpdateStatus(build[b].copy, "failed")
    <3>1. Len(log') = Len(log) + 1 /\ build[b].copy = Len(log)
      BY <1>2, <2>2, StatusFacts DEF BuildStatus
    <3>2. ~Owns(b)' /\ FromCurrent(b)'
      BY <1>2, <3>1, LogFacts DEF Owns, Building, Moved, Latest, FromCurrent
    <3> QED BY <1>1, <1>2, <1>4, <3>2, ReportGivesUp DEF Owns, Building, Moved
  <2> QED BY <1>3, <2>1, <2>2
<1>8. Requested'
  BY <1>1, <1>2, <1>4, <1>5, RequestedFrame DEF Moved, watchVars, Requested
<1>9. BuiltFromCurrent'
  BY <1>2, <1>4, <1>7, BuiltFrame DEF Moved
<1> QED BY <1>4, <1>5, <1>6, <1>7, <1>8, <1>9 DEF Grows

(* The archive is written to the version that it was built from.           *)
LEMMA UpdatePackagePreserves ==
    ASSUME IInv, NEW b \in Build, UpdatePackage(b)
    PROVE  IInv'
<1> USE DEF IInv, TypeOK
<1> DEFINE v == WithArchive(build[b].built)
<1>1. UNCHANGED <<watchVars, userVars, restarts, disturbed>> /\ build[b].pc = "package"
  BY DEF UpdatePackage
<1>2. build[b].copy \in Nat /\ build[b].copy # 0 /\ build[b].built \in Archive
  BY <1>1 DEF Requested, BuildOK, BuildState
<1>3. /\ v \in Package /\ v.status = Current.status /\ v.src = Current.src
      /\ v.deploy = build[b].built
  BY <1>2, LogFacts DEF Package, WithArchive
<1> HIDE DEF v
<1>4. CASE /\ Latest(build[b].copy) /\ log' = Append(log, v)
           /\ Goto(b, "succeed") /\ UNCHANGED errors
  <2>1. Grows /\ Len(log') = Len(log) + 1 /\ Current' = v
    BY <1>3, <1>4, AppendGrows, AppendFacts
  <2>2. Moved(b, "succeed", build[b].copy, build[b].built)
    BY <1>4, GotoFacts DEF BuildPc
  <2>3. BuildOK'
    BY <1>2, <2>1, <2>2, BuildFrame, LogFacts DEF Moved, BuildOK, BuildState
  <2>4. WatchOK' /\ UserOK' /\ BoundOK'
    BY <1>1, <1>4, <2>1, WatchFrame, UserFrame DEF userVars, BoundOK
  <2>5. \A x \in Build : Owns(x)' => Owns(x)
    BY <1>1, <1>4, <2>1, <2>2, OwnsFrame DEF Owns, Moved
  <2>6. OwnerRuns' /\ OneOwner'
    BY <1>3, <2>1, <2>5, OwnersKept
  <2>7. Requested'
    BY <1>1, <1>2, <2>1, <2>2, <2>3, RequestedFrame DEF Moved, watchVars
  <2>8. FromCurrent(b)'
    BY <1>1, <1>3, <1>4, <2>1, <2>2 DEF FromCurrent, BuiltFromCurrent, Moved
  <2>9. BuiltFromCurrent'
    BY <2>1, <2>2, <2>8, BuiltFrame DEF Moved
  <2> QED BY <2>1, <2>3, <2>4, <2>6, <2>7, <2>9 DEF Grows
<1>5. CASE WriteFails(build[b].copy) /\ Goto(b, "fail") /\ UNCHANGED log
  <2>1. Grows /\ Current' = Current
    BY <1>5, QuietGrows
  <2>2. Moved(b, "fail", build[b].copy, build[b].built)
    BY <1>5, GotoFacts DEF BuildPc
  <2>3. BuildOK'
    BY <1>2, <2>1, <2>2, BuildFrame, LogFacts DEF Moved, BuildOK, BuildState, Grows
  <2>4. WatchOK' /\ UserOK' /\ BoundOK'
    <3>1. errors' \in 0 .. MaxErrors
      BY <1>5, BoundAssumption DEF WriteFails, Error, BoundOK
    <3> QED BY <1>1, <2>1, <3>1, WatchFrame, UserFrame DEF userVars, BoundOK
  <2>5. \A x \in Build : Owns(x)' => Owns(x)
    BY <1>1, <1>5, <2>1, <2>2, OwnsFrame DEF Owns, Building, Moved, Latest
  <2>6. OwnerRuns' /\ OneOwner'
    BY <2>1, <2>5, OwnersKept
  <2>7. Requested'
    BY <1>1, <1>2, <2>1, <2>2, <2>3, RequestedFrame DEF Moved, watchVars
  <2>8. BuiltFromCurrent'
    BY <2>1, <2>2, BuiltFrame DEF Moved, FromCurrent
  <2> QED BY <2>1, <2>3, <2>4, <2>6, <2>7, <2>8 DEF Grows
<1> QED BY <1>4, <1>5 DEF UpdatePackage, v

LEMMA ReturnsPreserve ==
    ASSUME IInv, NEW b \in Build, Succeed(b) \/ Fail(b)
    PROVE  IInv'
<1> USE DEF IInv, TypeOK
<1> DEFINE rv == IF build[b].pc = "succeed" THEN build[b].copy + 1 ELSE build[b].copy
<1>1. UNCHANGED <<watchVars, userVars, restarts>> /\ build[b].pc \in {"succeed", "fail"}
  BY DEF Succeed, Fail
<1>2. Returned(b) /\ rv \in Nat
  <2>1. build[b].copy \in Nat
    BY DEF BuildOK, BuildState
  <2>2. Return(b)
    BY DEF Succeed, Fail
  <2> QED BY <2>1, <2>2, ReturnFacts
<1>3. \/ /\ \E status \in {"succeeded", "failed"} : UpdateStatus(rv, status)
         /\ UNCHANGED <<errors, disturbed>>
      \/ WriteFails(rv) /\ UNCHANGED log
  <2>1. CASE Succeed(b)
    BY <2>1 DEF Succeed
  <2>2. CASE Fail(b)
    BY <2>2 DEF Fail
  <2> QED BY <2>1, <2>2
<1>4. Latest(rv) => Owns(b)
  BY <1>1 DEF Owns, Building
<1> HIDE DEF rv
<1>5. Grows
  BY <1>2, <1>3, QuietGrows, StatusFacts DEF BuildStatus
<1>6. BuildOK'
  BY <1>5, <1>2, BuildFrame, LogFacts DEF Returned, BuildOK, BuildState, Grows
<1>7. BoundOK'
  <2>1. disturbed' \in BOOLEAN
    BY DEF Succeed, Fail, Disturb, BoundOK
  <2>2. errors' \in 0 .. MaxErrors
    BY <1>3, BoundAssumption DEF WriteFails, Error, BoundOK
  <2> QED BY <1>1, <2>1, <2>2 DEF userVars, BoundOK
<1>8. WatchOK' /\ UserOK'
  BY <1>1, <1>5, WatchFrame, UserFrame DEF userVars
<1>9. OwnerRuns' /\ OneOwner'
  <2>1. ~Owns(b)'
    BY <1>2 DEF Owns, Building, Returned
  <2>2. CASE UNCHANGED log
    <3>1. \A x \in Build : Owns(x)' => Owns(x)
      BY <1>2, <1>5, <2>1, OwnsFrame DEF Returned
    <3> QED BY <2>2, <3>1, QuietGrows, OwnersKept
  <2>3. CASE Latest(rv)
    BY <1>2, <1>4, <1>5, <2>1, <2>3, ReportGivesUp DEF Returned
  <2> QED BY <1>3, <2>2, <2>3 DEF UpdateStatus
<1>10. Requested'
  BY <1>1, <1>2, <1>5, <1>6, RequestedFrame DEF Returned, watchVars
<1>11. BuiltFromCurrent'
  BY <1>2, <1>5, BuiltFrame DEF Returned, FromCurrent
<1> QED BY <1>5, <1>6, <1>7, <1>8, <1>9, <1>10, <1>11 DEF Grows

(* The steps of the informer and its handlers.                             *)
LEMMA WatchRequested ==
    ASSUME TypeOK, Requested, Grows, BuildOK', ~added',
           store'.rv \in 1 .. Len(log),
           store'.status = "pending" => log[store'.rv].status # "running",
           \A x \in Build :
             \/ build'[x] = build[x]
             \/ /\ build'[x].pc = "start" /\ build'[x].copy = store'.rv
                /\ log[store'.rv].status # "running"
    PROVE  Requested'
<1> USE LogFacts DEF TypeOK
<1>1. store'.rv # 0 /\ log'[store'.rv] = log[store'.rv]
  BY DEF Grows
<1>2. \A x \in Build : build'[x].pc # "idle" => build'[x].copy # 0
  BY DEF Requested
<1>3. ASSUME NEW x \in Build, build'[x].pc \in {"start", "run"}
      PROVE  log'[build'[x].copy].status # "running"
  <2>1. CASE build'[x] = build[x]
    <3>1. build[x].copy \in 1 .. Len(log)
      BY <1>3, <2>1 DEF Requested, BuildOK, BuildState
    <3> QED BY <1>3, <2>1, <3>1 DEF Requested, Grows
  <2>2. CASE build'[x].copy = store'.rv /\ log[store'.rv].status # "running"
    BY <1>1, <2>2
  <2> QED BY <2>1, <2>2
<1> QED BY <1>1, <1>2, <1>3 DEF Requested

(* A handler starts at most one goroutine and writes nothing while a       *)
(* goroutine owns the package.                                             *)
LEMMA HandlerPreserves ==
    ASSUME IInv, NEW rv \in 1 .. Len(log), NEW status \in BuildStatus,
           store' = [rv |-> rv, status |-> status], ~added', added' \in BOOLEAN,
           status = "pending" => log[rv].status # "running",
           UNCHANGED userVars, UNCHANGED disturbed, restarts' \in 0 .. MaxRestarts,
           \/ /\ SetPending(rv) \/ UNCHANGED log
              /\ status = "pending" \/ UNCHANGED log
              /\ UNCHANGED build
           \/ /\ UNCHANGED log
              /\ log[rv].status # "running"
              /\ GoBuild(rv),
           errors' \in 0 .. MaxErrors
    PROVE  IInv'
<1> USE DEF IInv, TypeOK
<1>1. rv \in Nat /\ Len(log) \in Nat
  BY LogFacts
<1>2. /\ build' \in [Build -> BuildState]
      /\ \A x \in Build :
           \/ build'[x] = build[x]
           \/ /\ build'[x].pc = "start" /\ build'[x].copy = rv /\ build'[x].key = rv
              /\ log[rv].status # "running"
  <2>1. CASE UNCHANGED build
    BY <2>1 DEF BuildOK
  <2>2. CASE log[rv].status # "running" /\ GoBuild(rv)
    BY <1>1, <2>2, GoBuildFacts DEF Requests
  <2> QED BY <2>1, <2>2
<1>3. \/ UNCHANGED log
      \/ /\ UpdateStatus(rv, "pending")
         /\ log[rv].status # "running"
  BY DEF SetPending, UpdateStatus
<1>4. Grows
  BY <1>1, <1>3, QuietGrows, StatusFacts DEF BuildStatus
<1>5. BuildOK'
  <2>1. Len(log) <= Len(log')
    BY <1>1, <1>4 DEF Grows
  <2>2. rv <= rv /\ rv <= Len(log')
    BY <1>1, <1>4, <2>1 DEF Grows
  <2>3. \A x \in Build : build'[x] = build[x]
          \/ /\ build'[x].key <= build'[x].copy
             /\ build'[x].copy <= Len(log')
             /\ build'[x].pc = "succeed" => build'[x].copy < Len(log')
    BY <1>2, <2>2
  <2> QED BY <1>2, <1>4, <2>3, BuildFrame
<1>6. WatchOK' /\ UserOK' /\ BoundOK'
  <2>1. WatchOK'
    BY <1>1, <1>4 DEF WatchOK, Grows
  <2> QED BY <1>4, <2>1, UserFrame DEF userVars, BoundOK
<1>7. \A x \in Build : Owns(x)' => Owns(x)
  BY <1>2, <1>4, OwnsFrame DEF Owns, Building
<1>8. OwnerRuns' /\ OneOwner'
  <2>1. CASE UNCHANGED log
    BY <1>7, <2>1, QuietGrows, OwnersKept
  <2>2. CASE UpdateStatus(rv, "pending") /\ log[rv].status # "running"
    <3>1. Current.status # "running"
      BY <2>2 DEF UpdateStatus, Latest, Current
    <3> QED BY <1>7, <3>1, OwnersGone DEF OwnerRuns
  <2> QED BY <1>3, <2>1, <2>2
<1>9. Requested'
  BY <1>2, <1>4, <1>5, WatchRequested
<1>10. BuiltFromCurrent'
  BY <1>2, <1>4, BuiltFrame DEF FromCurrent
<1> QED BY <1>4, <1>5, <1>6, <1>8, <1>9, <1>10 DEF Grows

LEMMA AddPreserves ==
    ASSUME IInv, Add
    PROVE  IInv'
<1> USE DEF IInv, TypeOK
<1>1. /\ store.rv \in 1 .. Len(log) /\ store.status \in BuildStatus
      /\ store.status = log[store.rv].status
  <2>1. added
    BY DEF Add
  <2>2. store.rv # 0 /\ store.status = log[store.rv].status
    BY <2>1 DEF Requested
  <2> QED BY <2>2, LogFacts DEF WatchOK
<1>2. store' = [rv |-> store.rv, status |-> store'.status]
      /\ store'.rv = store.rv /\ store'.status \in BuildStatus
  <2>1. store' = store \/ store' = [store EXCEPT !.status = "pending"]
    BY DEF Add
  <2> QED BY <2>1 DEF WatchOK, BuildStatus
<1>3. errors' \in 0 .. MaxErrors
  <2>1. UNCHANGED errors \/ WriteFails(store.rv)
    BY DEF Add
  <2> QED BY <2>1, BoundAssumption DEF WriteFails, Error, BoundOK
<1>4. ~added' /\ added' \in BOOLEAN /\ UNCHANGED userVars /\ UNCHANGED disturbed
      /\ restarts' \in 0 .. MaxRestarts
  BY DEF Add, BoundOK
<1>5. store'.status = "pending" => log[store.rv].status # "running"
  BY <1>1 DEF Add
<1>6. \/ /\ SetPending(store.rv) \/ UNCHANGED log
         /\ store'.status = "pending" \/ UNCHANGED log
         /\ UNCHANGED build
      \/ /\ UNCHANGED log
         /\ log[store.rv].status # "running"
         /\ GoBuild(store.rv)
  BY <1>1, <1>2 DEF Add, WatchOK
<1> QED BY <1>1, <1>2, <1>3, <1>4, <1>5, <1>6, HandlerPreserves

LEMMA UpdatesPreserve ==
    ASSUME IInv, NEW rv \in 1 .. Len(log), Updates(rv), ~added, UNCHANGED added,
           UNCHANGED userVars, UNCHANGED disturbed, restarts' \in 0 .. MaxRestarts
    PROVE  IInv'
<1> USE DEF IInv, TypeOK
<1>1. log[rv].status \in BuildStatus
  BY LogFacts DEF Package
<1>2. PICK status \in BuildStatus :
        /\ store' = [rv |-> rv, status |-> status]
        /\ status = "pending" => log[rv].status # "running"
        /\ \/ /\ SetPending(rv) \/ UNCHANGED log
              /\ status = "pending" \/ UNCHANGED log
              /\ UNCHANGED build
           \/ /\ UNCHANGED log
              /\ log[rv].status # "running"
              /\ GoBuild(rv)
  BY <1>1 DEF Updates, BuildStatus
<1>3. errors' \in 0 .. MaxErrors
  BY BoundAssumption DEF Updates, WriteFails, Error, BoundOK
<1>4. added' \in BOOLEAN
  BY DEF WatchOK
<1> QED BY <1>2, <1>3, <1>4, HandlerPreserves

LEMMA WatchPreserves ==
    ASSUME IInv, Update \/ Relist
    PROVE  IInv'
<1> USE DEF IInv, TypeOK
<1>1. ASSUME Update PROVE IInv'
  <2>1. store.rv + 1 \in 1 .. Len(log)
    BY <1>1, LogFacts DEF Update
  <2>2. /\ Updates(store.rv + 1) /\ ~added /\ UNCHANGED added
        /\ UNCHANGED userVars /\ UNCHANGED disturbed /\ restarts' \in 0 .. MaxRestarts
    BY <1>1 DEF Update, BoundOK
  <2> QED BY <2>1, <2>2, UpdatesPreserve
<1>2. ASSUME Relist PROVE IInv'
  <2>1. PICK rv \in store.rv + 2 .. Len(log) : Updates(rv)
    BY <1>2 DEF Relist
  <2>2. rv \in 1 .. Len(log)
    BY <2>1, LogFacts DEF WatchOK
  <2>3. /\ ~added /\ UNCHANGED added
        /\ UNCHANGED userVars /\ UNCHANGED disturbed /\ restarts' \in 0 .. MaxRestarts
    BY <1>2, BoundAssumption DEF Relist, BoundOK
  <2> QED BY <2>1, <2>2, <2>3, UpdatesPreserve
<1> QED BY <1>1, <1>2

LEMMA ResyncPreserves ==
    ASSUME IInv, Resync
    PROVE  IInv'
<1> USE DEF IInv, TypeOK
<1>1. /\ store.rv \in 1 .. Len(log) /\ store.status = "pending"
      /\ store.status \in BuildStatus /\ log[store.rv].status # "running"
  <2>1. store.status = "pending"
    BY DEF Resync
  <2>2. store.rv # 0 /\ log[store.rv].status # "running"
    BY <2>1 DEF Requested
  <2> QED BY <2>1, <2>2, LogFacts DEF WatchOK
<1>2. store' = [rv |-> store.rv, status |-> store.status]
  BY DEF Resync, watchVars, WatchOK
<1>3. /\ ~added' /\ added' \in BOOLEAN /\ UNCHANGED <<userVars, disturbed, log>>
      /\ restarts' \in 0 .. MaxRestarts /\ errors' \in 0 .. MaxErrors
      /\ GoBuild(store.rv)
  BY DEF Resync, watchVars, BoundOK, WatchOK
<1> QED BY <1>1, <1>2, <1>3, HandlerPreserves

LEMMA ListPreserves ==
    ASSUME IInv, List
    PROVE  IInv'
<1> USE DEF IInv, TypeOK
<1>1. /\ UNCHANGED <<log, build, userVars, errors, restarts, disturbed>>
      /\ store' = [rv |-> Len(log), status |-> Current.status] /\ added' = TRUE
      /\ store.rv = 0
  BY DEF List
<1>2. Grows /\ Current' = Current
  BY <1>1, QuietGrows
<1>3. WatchOK'
  BY <1>1, LogFacts DEF WatchOK, Package
<1>4. BuildOK' /\ UserOK' /\ BoundOK'
  BY <1>1, <1>2, UserFrame DEF BuildOK, BoundOK, userVars
<1>5. OwnerRuns' /\ OneOwner' /\ BuiltFromCurrent'
  BY <1>1 DEF OwnerRuns, OneOwner, BuiltFromCurrent, FromCurrent, Owns, Building, Latest, Current
<1>6. \A x \in Build : build'[x].pc = "idle"
  BY <1>1 DEF Requested
<1>7. Requested'
  <2>1. store'.rv # 0 /\ store'.status = log'[store'.rv].status
    BY <1>1, LogFacts
  <2>2. store'.status = "pending" => log'[store'.rv].status # "running"
    BY <2>1
  <2> QED BY <1>6, <2>1, <2>2 DEF Requested
<1> QED BY <1>2, <1>3, <1>4, <1>5, <1>7 DEF Grows

(* The steps of the users, of the executor, and a restart.                 *)
LEMMA EditPreserves ==
    ASSUME IInv, EditPackage \/ Rebuild
    PROVE  IInv'
<1> USE DEF IInv, TypeOK
<1>1. UNCHANGED <<watchVars, build, loaded, errors, restarts>>
  BY DEF EditPackage, Rebuild
<1>2. PICK v \in Package :
        /\ log' = Append(log, v)
        /\ v.status = Current.status \/ Current.status = "failed"
  <2>1. CASE EditPackage
    <3>1. PICK s \in {[src |-> edits + 2, deploy |-> Current.deploy],
                      [src |-> 0, deploy |-> edits + 2]} :
            log' = Append(log, [gen |-> Current.gen + 1, src |-> s.src,
                                deploy |-> s.deploy, status |-> Current.status])
      BY <2>1 DEF EditPackage
    <3>2. edits + 2 \in Archive /\ 0 \in Archive
      BY <2>1, BoundAssumption DEF EditPackage, Archive, BoundOK
    <3>3. s.src \in Archive /\ s.deploy \in Archive
      BY <3>1, <3>2, LogFacts DEF Package
    <3>4. [gen |-> Current.gen + 1, src |-> s.src, deploy |-> s.deploy,
           status |-> Current.status] \in Package
      BY <3>3, LogFacts DEF Package
    <3> QED BY <3>1, <3>4
  <2>2. CASE Rebuild
    <3>1. [Current EXCEPT !.status = "pending"] \in Package
      BY LogFacts DEF Package, BuildStatus
    <3> QED BY <2>2, <3>1 DEF Rebuild, UpdateStatus
  <2> QED BY <2>1, <2>2
<1>3. Grows /\ Len(log') = Len(log) + 1 /\ Current' = v
  BY <1>2, AppendGrows, AppendFacts
<1>4. BuildOK'
  BY <1>1, <1>3, BuildFrame DEF BuildOK
<1>5. BoundOK'
  <2>1. disturbed' \in BOOLEAN
    BY DEF EditPackage, Rebuild, BoundOK
  <2>2. edits' \in 0 .. MaxEdits
    BY BoundAssumption DEF EditPackage, Rebuild, BoundOK
  <2> QED BY <1>1, <2>1, <2>2 DEF BoundOK
<1>6. UserOK'
  <2>1. CASE UNCHANGED function
    BY <1>1, <1>3, <2>1, UserFrame
  <2>2. CASE function' = [function EXCEPT !.cli = Len(log) + 1]
    BY <1>1, <1>3, <2>2, LogFacts DEF UserOK
  <2> QED BY <2>1, <2>2 DEF EditPackage, Rebuild
<1>7. OwnerRuns' /\ OneOwner'
  <2>1. \A x \in Build : Owns(x)' => Owns(x)
    BY <1>1, <1>3, OwnsFrame
  <2>2. CASE v.status = Current.status
    BY <1>3, <2>1, <2>2, OwnersKept
  <2>3. CASE Current.status = "failed"
    BY <2>1, <2>3, OwnersGone DEF OwnerRuns
  <2> QED BY <1>2, <2>2, <2>3
<1>8. Requested'
  <2>1. UNCHANGED <<store, added>>
    BY <1>1 DEF watchVars
  <2>2. \A i \in 1 .. Len(log) : log'[i] = log[i]
    BY <1>3 DEF Grows
  <2>3. store.rv # 0 => store.rv \in 1 .. Len(log)
    BY LogFacts DEF WatchOK
  <2>4. \A x \in Build : build[x].pc # "idle" => build[x].copy \in 1 .. Len(log)
    BY LogFacts DEF Requested, BuildOK, BuildState
  <2>5. store.status = "pending" => store.rv # 0 /\ log'[store.rv].status # "running"
    BY <2>2, <2>3 DEF Requested
  <2>6. added => store.rv # 0 /\ store.status = log'[store.rv].status
    BY <2>2, <2>3 DEF Requested
  <2> QED BY <1>1, <2>1, <2>2, <2>4, <2>5, <2>6 DEF Requested
<1>9. BuiltFromCurrent'
  BY <1>1, <1>3, BuiltFrame
<1> QED BY <1>1, <1>3, <1>4, <1>5, <1>6, <1>7, <1>8, <1>9, WatchFrame DEF Grows

LEMMA FunctionPreserves ==
    ASSUME IInv, UpdateFunctionPackageResourceVersion \/ Fetch
    PROVE  IInv'
<1> USE DEF IInv, TypeOK
<1>1. UNCHANGED <<log, watchVars, build, edits, errors, restarts, disturbed>>
  BY DEF UpdateFunctionPackageResourceVersion, Fetch
<1>2. Grows
  BY <1>1, QuietGrows
<1>3. UserOK'
  BY <1>1, LogFacts DEF UpdateFunctionPackageResourceVersion, Fetch, UserOK, Package
<1>4. WatchOK' /\ BuildOK' /\ BoundOK'
  BY <1>1, <1>2, WatchFrame DEF BuildOK, BoundOK
<1>5. OwnerRuns' /\ OneOwner' /\ BuiltFromCurrent'
  BY <1>1 DEF OwnerRuns, OneOwner, BuiltFromCurrent, FromCurrent, Owns, Building, Latest, Current
<1>6. Requested'
  BY <1>1 DEF Requested, watchVars
<1> QED BY <1>2, <1>3, <1>4, <1>5, <1>6 DEF Grows

LEMMA CrashPreserves ==
    ASSUME IInv, Crash
    PROVE  IInv'
<1> USE DEF IInv, TypeOK
<1>1. /\ UNCHANGED <<log, userVars, errors>> /\ added' = FALSE
      /\ store' = [rv |-> 0, status |-> "unset"] /\ build' = [b \in Build |-> Resting]
  BY DEF Crash
<1>2. Grows
  BY <1>1, QuietGrows
<1>3. Resting \in BuildState /\ Resting.pc = "idle" /\ Resting.copy = 0 /\ Resting.key = 0
  BY BoundAssumption DEF Resting, BuildState, BuildPc, Archive
<1>4. \A x \in Build : build'[x] = Resting
  BY <1>1
<1>5. WatchOK' /\ UserOK' /\ BuildOK'
  <2>1. build' \in [Build -> BuildState]
    BY <1>1, <1>3
  <2>2. store' \in [rv : 0 .. Len(log'), status : BuildStatus]
    BY <1>1, LogFacts DEF BuildStatus
  <2>3. added' \in BOOLEAN
    BY <1>1
  <2>4. UserOK'
    BY <1>1, <1>2, UserFrame DEF userVars
  <2>5. 0 <= 0 /\ 0 <= Len(log')
    BY <1>1, LogFacts
  <2>6. BuildOK'
    BY <1>3, <1>4, <2>1, <2>5 DEF BuildOK
  <2> QED BY <2>2, <2>3, <2>4, <2>6 DEF WatchOK
<1>6. BoundOK'
  <2>1. disturbed' \in BOOLEAN
    BY DEF Crash
  <2>2. restarts < MaxRestarts /\ restarts' = restarts + 1
    BY DEF Crash
  <2>3. restarts' \in 0 .. MaxRestarts
    BY <2>2, BoundAssumption DEF BoundOK
  <2> QED BY <1>1, <2>1, <2>3 DEF BoundOK, userVars
<1>7. OwnerRuns' /\ OneOwner' /\ BuiltFromCurrent'
  BY <1>3, <1>4 DEF OwnerRuns, OneOwner, BuiltFromCurrent, FromCurrent, Owns, Building
<1>8. Requested'
  BY <1>1, <1>3, <1>4 DEF Requested
<1> QED BY <1>2, <1>5, <1>6, <1>7, <1>8 DEF Grows

LEMMA InitIInv == Init => IInv
<1> SUFFICES ASSUME Init PROVE IInv
  OBVIOUS
<1>1. PICK s \in {0, 1}, d \in {0, 1} :
        log = << [gen |-> 1, src |-> s, deploy |-> d, status |-> "unset"] >>
  BY DEF Init
<1>2. [gen |-> 1, src |-> s, deploy |-> d, status |-> "unset"] \in Package
  <2>1. s \in Archive /\ d \in Archive
    BY BoundAssumption DEF Archive
  <2> QED BY <2>1 DEF Package, BuildStatus
<1>3. LogOK /\ Len(log) = 1
  BY <1>1, <1>2 DEF LogOK
<1>4. Resting \in BuildState /\ Resting.pc = "idle" /\ Resting.copy = 0 /\ Resting.key = 0
  BY BoundAssumption DEF Resting, BuildState, BuildPc, Archive
<1>5. build \in [Build -> BuildState] /\ \A x \in Build : build[x] = Resting
  BY <1>4 DEF Init
<1>6. BuildOK
  BY <1>3, <1>4, <1>5 DEF BuildOK
<1>7. WatchOK /\ UserOK /\ BoundOK
  <2>1. 0 \in Archive
    BY BoundAssumption DEF Archive
  <2>2. added \in BOOLEAN /\ disturbed \in BOOLEAN
    BY DEF Init
  <2>3. store \in [rv : 0 .. Len(log), status : BuildStatus]
    BY <1>3 DEF Init, BuildStatus
  <2>4. UserOK
    BY <1>3, <2>1 DEF Init, UserOK
  <2>5. /\ edits \in 0 .. MaxEdits /\ errors \in 0 .. MaxErrors
        /\ restarts \in 0 .. MaxRestarts
    BY BoundAssumption DEF Init
  <2> QED BY <2>2, <2>3, <2>4, <2>5 DEF WatchOK, BoundOK
<1>8. OwnerRuns /\ OneOwner /\ BuiltFromCurrent
  BY <1>4, <1>5 DEF OwnerRuns, OneOwner, BuiltFromCurrent, FromCurrent, Owns, Building
<1>9. Requested
  BY <1>4, <1>5 DEF Requested, Init
<1> QED BY <1>3, <1>6, <1>7, <1>8, <1>9 DEF IInv, TypeOK

LEMMA NextIInv == IInv /\ [Next]_vars => IInv'
<1> SUFFICES ASSUME IInv, [Next]_vars PROVE IInv'
  OBVIOUS
<1>1. CASE Watch
  BY <1>1, ListPreserves, AddPreserves, WatchPreserves DEF Watch
<1>2. CASE Relist \/ Resync
  BY <1>2, WatchPreserves, ResyncPreserves
<1>3. ASSUME NEW b \in Build, Goroutine(b)
      PROVE  IInv'
  BY <1>3, StartPreserves, RunPreserves, GetEnvPreserves, BuildPackagePreserves,
     UpdateFunctionsPreserves, ReportUnlistedPreserves, UpdatePackagePreserves,
     ReturnsPreserve DEF Goroutine
<1>4. CASE EditPackage \/ Rebuild
  BY <1>4, EditPreserves
<1>5. CASE UpdateFunctionPackageResourceVersion \/ Fetch
  BY <1>5, FunctionPreserves
<1>6. CASE Crash
  BY <1>6, CrashPreserves
<1>7. CASE UNCHANGED vars
  <2>1. UNCHANGED <<log, store, added, build, function, loaded, edits, errors,
                    restarts, disturbed>>
    BY <1>7 DEF vars, watchVars, userVars
  <2>2. TypeOK'
    BY <2>1 DEF IInv, TypeOK, LogOK, WatchOK, BuildOK, UserOK, BoundOK
  <2>3. OwnerRuns' /\ OneOwner' /\ BuiltFromCurrent' /\ Requested'
    BY <2>1 DEF IInv, OwnerRuns, OneOwner, BuiltFromCurrent, FromCurrent, Owns,
                Building, Latest, Current, Requested
  <2> QED BY <2>2, <2>3 DEF IInv
<1> QED BY <1>1, <1>2, <1>3, <1>4, <1>5, <1>6, <1>7 DEF Next

LEMMA IInvHolds == Spec => []IInv
BY InitIInv, NextIInv, PTL DEF Spec

(* The variables of the package watcher keep their types: in particular    *)
(* the version a goroutine writes from always exists.                      *)
THEOREM TypeCorrect == Spec => []TypeOK
<1>1. IInv => TypeOK
  BY DEF IInv
<1> QED BY <1>1, IInvHolds, PTL

(* build in pkgwatcher.go: at most one goroutine has marked the package as *)
(* running and has not reported a result, although handlers, resyncs and   *)
(* rebuilds may start any number of them.                                  *)
THEOREM BuildSafety == Spec => []OneBuildAtATime
<1>1. IInv => OneBuildAtATime
  BY DEF IInv, OneOwner, OneBuildAtATime, Owns
<1> QED BY <1>1, IInvHolds, PTL

(* What a step writes as the latest version.                               *)
LEMMA SucceededStep ==
    ASSUME IInv, Next, Current'.status = "succeeded", Current.status # "succeeded"
    PROVE  Current'.deploy = Current'.src /\ Current'.src # 0
<1> USE DEF IInv, TypeOK
<1>1. log' # log
  BY QuietGrows
<1>2. ASSUME NEW rv \in Nat, NEW status \in BuildStatus, UpdateStatus(rv, status)
      PROVE  status = "succeeded"
  BY <1>2, StatusFacts
<1>3. ASSUME NEW rv \in Nat PROVE ~SetPending(rv)
  <2>1. SetPending(rv) => UpdateStatus(rv, "pending")
    BY <1>1 DEF SetPending, UpdateStatus
  <2> QED BY <1>2, <2>1 DEF BuildStatus
<1>4. ~Watch /\ ~Relist /\ ~Resync
  <2>1. store.rv \in Nat
    BY LogFacts DEF WatchOK
  <2>2. ASSUME NEW rv \in Nat PROVE ~Updates(rv)
    BY <1>1, <1>3 DEF Updates
  <2>3. ~List /\ ~Resync
    BY <1>1 DEF List, Resync
  <2>4. ~Add
    BY <1>1, <1>3, <2>1 DEF Add
  <2>5. ~Update /\ ~Relist
    BY <2>1, <2>2, LogFacts DEF Update, Relist
  <2> QED BY <2>3, <2>4, <2>5 DEF Watch
<1>5. ~EditPackage /\ ~Rebuild
  <2>1. ~Rebuild
    BY <1>2, LogFacts DEF Rebuild, BuildStatus
  <2>2. ~EditPackage
    <3> SUFFICES ASSUME EditPackage PROVE FALSE
      OBVIOUS
    <3>1. PICK s \in {[src |-> edits + 2, deploy |-> Current.deploy],
                      [src |-> 0, deploy |-> edits + 2]} :
            log' = Append(log, [gen |-> Current.gen + 1, src |-> s.src,
                                deploy |-> s.deploy, status |-> Current.status])
      BY DEF EditPackage
    <3>2. Current'.status = Current.status
      BY <3>1, LogFacts DEF Current, LogOK
    <3> QED BY <3>2
  <2> QED BY <2>1, <2>2
<1>6. ~UpdateFunctionPackageResourceVersion /\ ~Fetch /\ ~Crash
  BY <1>1 DEF UpdateFunctionPackageResourceVersion, Fetch, Crash
<1>7. PICK b \in Build : Goroutine(b)
  BY <1>4, <1>5, <1>6 DEF Next
<1>8. build[b].copy \in Nat /\ build[b].copy + 1 \in Nat
  BY DEF BuildOK, BuildState
<1>9. ~Start(b) /\ ~GetEnv(b) /\ ~BuildPackage(b) /\ ~UpdateFunctions(b)
  BY <1>1 DEF Start, GetEnv, BuildPackage, UpdateFunctions
<1>10. ~Run(b) /\ ~ReportUnlisted(b) /\ ~Fail(b)
  <2>1. ~ReportUnlisted(b) /\ ~Fail(b)
    BY <1>1, <1>2, <1>8 DEF ReportUnlisted, Fail, BuildStatus
  <2>2. ~Run(b)
    <3>1. Run(b) => \E status \in {"running", "failed", "none"} :
                      UpdateStatus(build[b].copy, status)
      BY <1>1 DEF Run
    <3> QED BY <1>2, <1>8, <3>1 DEF BuildStatus
  <2> QED BY <2>1, <2>2
<1>11. ~UpdatePackage(b)
  <2> SUFFICES ASSUME UpdatePackage(b) PROVE FALSE
    OBVIOUS
  <2>1. log' = Append(log, WithArchive(build[b].built))
    BY <1>1 DEF UpdatePackage
  <2>2. Current'.status = Current.status
    BY <2>1, LogFacts DEF Current, LogOK, WithArchive
  <2> QED BY <2>2
<1>12. Succeed(b)
  BY <1>7, <1>9, <1>10, <1>11 DEF Goroutine
<1>13. UpdateStatus(build[b].copy + 1, "succeeded") /\ build[b].pc = "succeed"
  BY <1>1, <1>12 DEF Succeed
<1>14. Current.deploy = Current.src /\ Current.src # 0
  BY <1>13 DEF BuiltFromCurrent, FromCurrent, UpdateStatus
<1> QED BY <1>8, <1>13, <1>14, StatusFacts DEF BuildStatus

(* build and updatePackage: a package that becomes succeeded has the       *)
(* deployment archive built from the source it has now, whatever users     *)
(* edited while the build was running.                                     *)
THEOREM SuccessSafety == Spec => SucceededIsBuilt
<1>1. IInv /\ [Next]_vars
        => [Current'.status = "succeeded" /\ Current.status # "succeeded"
              => Current'.deploy = Current'.src /\ Current'.src # 0]_vars
  BY SucceededStep
<1> QED BY <1>1, IInvHolds, PTL DEF Spec, SucceededIsBuilt

-----------------------------------------------------------------------------
(* The code that pods were given: FreshInv is preserved beside IInv.       *)

LEMMA Numbers ==
    ASSUME IInv
    PROVE  /\ Current.src \in Nat /\ Current.deploy \in Nat
           /\ \A b \in Build : build[b].copy \in Nat /\ build[b].built \in Nat
           /\ edits \in Nat /\ errors \in Nat /\ Len(log) \in Nat
           /\ loaded.ref \in Nat /\ loaded.ref <= Len(log)
<1> USE DEF IInv, TypeOK
<1>1. Archive \subseteq Nat
  BY BoundAssumption DEF Archive
<1>2. Current.src \in Nat /\ Current.deploy \in Nat /\ Len(log) \in Nat
  BY <1>1, LogFacts DEF Package
<1>3. \A b \in Build : build[b].copy \in Nat /\ build[b].built \in Nat
  BY <1>1 DEF BuildOK, BuildState
<1>4. loaded.ref \in Nat /\ loaded.ref <= Len(log)
  BY <1>2 DEF UserOK
<1>5. edits \in Nat /\ errors \in Nat
  BY BoundAssumption DEF BoundOK
<1> QED BY <1>2, <1>3, <1>4, <1>5

LEMMA WriterOwns ==
    ASSUME NEW b \in Build, Writes(b)
    PROVE  Owns(b)
BY DEF Writes, Owns, Building

(* What a step may do to goroutine x if the step leaves the function and   *)
(* the pod alone: a new owner has a version of its own, and only one that  *)
(* wrote goes on writing.                                                  *)
Carried(x) ==
    /\ build'[x].built <= edits + 1
    /\ Owns(x)' => \/ build'[x].copy > Len(log)
                   \/ Owns(x) /\ build'[x].copy = build[x].copy
    /\ build'[x].pc = "unlisted" => build[x].pc = "unlisted" \/ errors' >= 1
    /\ Writes(x)' /\ errors' <= 1 => Writes(x) /\ build'[x].copy = build[x].copy

LEMMA UnmovedCarried ==
    ASSUME IInv, FreshInv, Grows, NEW x \in Build, build'[x] = build[x]
    PROVE  Carried(x)
<1>1. Owns(x)' => Owns(x)
  BY OwnsFrame DEF IInv, TypeOK
<1>2. build[x].copy \in Nat /\ build[x].copy <= Len(log) /\ Len(log) \in Nat
      /\ (build[x].pc = "succeed" => build[x].copy < Len(log))
  BY Numbers DEF IInv, TypeOK, BuildOK
<1>3. Writes(x)' => Writes(x)
  BY <1>2 DEF Writes, Latest, Grows
<1> QED BY <1>1, <1>3 DEF Carried, FreshInv, ArchivesNumbered

LEMMA IdleCarried ==
    ASSUME IInv, NEW x \in Build, build'[x].pc \in {"idle", "start", "run"},
           build'[x].built <= edits + 1
    PROVE  Carried(x)
BY DEF Carried, Owns, Building, Writes

(* Nothing is written, or a status.                                        *)
LEMMA FreshFrame ==
    ASSUME IInv, IInv', FreshInv, UNCHANGED userVars, errors <= errors',
           Current'.src <= edits + 1, Current'.deploy <= edits + 1,
           Current'.status = "succeeded"
             => /\ Current.status = "succeeded"
                /\ Current'.src = Current.src /\ Current'.deploy = Current.deploy,
           \A x \in Build : Carried(x)
    PROVE  FreshInv'
<1>1. UNCHANGED <<function, loaded, edits>>
  BY DEF userVars
<1>2. ArchivesNumbered'
  BY <1>1 DEF ArchivesNumbered, Carried
<1>3. NotLoaded'
  <2> SUFFICES ASSUME NEW x \in Build, Owns(x)'
               PROVE  loaded'.ref < build'[x].copy
    BY DEF NotLoaded
  <2>1. CASE build'[x].copy > Len(log)
    <3>1. build'[x].copy \in Nat
      BY DEF IInv, TypeOK, BuildOK, BuildState
    <3> QED BY <1>1, <2>1, <3>1, Numbers
  <2>2. CASE Owns(x) /\ build'[x].copy = build[x].copy
    BY <1>1, <2>2 DEF FreshInv, NotLoaded
  <2> QED BY <2>1, <2>2 DEF Carried
<1>4. UnlistedIsError'
  <2>1. errors \in Nat /\ errors' \in Nat
    BY Numbers DEF IInv, TypeOK, BoundOK
  <2> QED BY <2>1 DEF UnlistedIsError, Carried, FreshInv
<1>5. ASSUME errors' <= 1 PROVE FunctionUpdated' /\ BuiltIsUsed' /\ FreshCode'
  <2>1. FunctionUpdated /\ BuiltIsUsed /\ FreshCode
    <3>1. errors \in Nat /\ errors' \in Nat
      BY Numbers DEF IInv, TypeOK, BoundOK
    <3> QED BY <1>5, <3>1 DEF FreshInv
  <2>2. FunctionUpdated'
    BY <1>1, <1>5, <2>1 DEF FunctionUpdated, Carried
  <2>3. BuiltIsUsed' /\ FreshCode'
    BY <1>1, <2>1 DEF BuiltIsUsed, FreshCode
  <2> QED BY <2>2, <2>3
<1> QED BY <1>2, <1>3, <1>4, <1>5 DEF FreshInv

(* The step has written nothing, or a status other than succeeded.         *)
LEMMA StatusWritten ==
    ASSUME IInv, FreshInv,
           \/ UNCHANGED log
           \/ \E rv \in Nat, status \in BuildStatus \ {"succeeded"} : UpdateStatus(rv, status)
    PROVE  /\ Grows
           /\ Current'.src <= edits + 1 /\ Current'.deploy <= edits + 1
           /\ Current'.status = "succeeded"
                => /\ Current.status = "succeeded"
                   /\ Current'.src = Current.src /\ Current'.deploy = Current.deploy
<1> USE DEF IInv, TypeOK
<1>1. Current.src <= edits + 1 /\ Current.deploy <= edits + 1
  BY DEF FreshInv, ArchivesNumbered
<1>2. CASE UNCHANGED log
  BY <1>1, <1>2, QuietGrows
<1>3. ASSUME NEW rv \in Nat, NEW status \in BuildStatus \ {"succeeded"},
             UpdateStatus(rv, status)
      PROVE  /\ Grows /\ Current'.status # "succeeded"
             /\ Current'.src = Current.src /\ Current'.deploy = Current.deploy
  BY <1>3, StatusFacts
<1> QED BY <1>1, <1>2, <1>3

LEMMA ErrorsGrow ==
    ASSUME IInv, UNCHANGED errors \/ Error \/ \E rv \in Nat : WriteFails(rv)
    PROVE  errors <= errors'
BY Numbers DEF Error, WriteFails

(* The informer, its handlers and a goroutine that begins.                 *)
LEMMA HandlersFresh ==
    ASSUME IInv, IInv', FreshInv, Watch \/ Relist \/ Resync
    PROVE  FreshInv'
<1> USE DEF IInv, TypeOK
<1>1. store.rv \in Nat
  BY LogFacts DEF WatchOK
<1>2. PICK rv \in Nat :
        /\ UNCHANGED userVars
        /\ UNCHANGED log \/ SetPending(rv)
        /\ UNCHANGED errors \/ WriteFails(rv)
        /\ UNCHANGED build \/ GoBuild(rv)
  <2>1. ASSUME NEW rv \in Nat, Updates(rv)
        PROVE  /\ UNCHANGED log \/ SetPending(rv)
               /\ UNCHANGED errors \/ WriteFails(rv)
               /\ UNCHANGED build \/ GoBuild(rv)
    BY <2>1 DEF Updates
  <2>2. CASE List \/ Resync
    BY <1>1, <2>2 DEF List, Resync
  <2>3. CASE Add
    BY <1>1, <2>3 DEF Add
  <2>4. CASE Update
    BY <1>1, <2>1, <2>4 DEF Update
  <2>5. CASE Relist
    BY <1>1, <2>1, <2>5, LogFacts DEF Relist
  <2> QED BY <2>2, <2>3, <2>4, <2>5 DEF Watch
<1>3. UNCHANGED log \/ UpdateStatus(rv, "pending")
  BY <1>2 DEF SetPending, UpdateStatus
<1>4. "pending" \in BuildStatus \ {"succeeded"}
  BY DEF BuildStatus
<1>5. /\ Grows
      /\ Current'.src <= edits + 1 /\ Current'.deploy <= edits + 1
      /\ Current'.status = "succeeded"
           => /\ Current.status = "succeeded"
              /\ Current'.src = Current.src /\ Current'.deploy = Current.deploy
  BY <1>3, <1>4, StatusWritten
<1>6. errors <= errors'
  BY <1>2, ErrorsGrow
<1>7. \A x \in Build : Carried(x)
  <2>1. CASE UNCHANGED build
    BY <1>5, <2>1, UnmovedCarried
  <2>2. CASE GoBuild(rv)
    <3>1. PICK b \in Build : Requests(b, rv)
      BY <2>2, GoBuildFacts
    <3>2. Carried(b)
      BY <3>1, IdleCarried, Numbers DEF Requests
    <3> QED BY <1>5, <3>1, <3>2, UnmovedCarried DEF Requests
  <2> QED BY <1>2, <2>1, <2>2
<1> QED BY <1>2, <1>5, <1>6, <1>7, FreshFrame

(* The steps of a goroutine that leave the function alone and do not write *)
(* the archive or the success.                                             *)
LEMMA StepsFresh ==
    ASSUME IInv, IInv', FreshInv, NEW b \in Build, UNCHANGED userVars,
           \/ UNCHANGED log
           \/ \E rv \in Nat, status \in BuildStatus \ {"succeeded"} : UpdateStatus(rv, status),
           UNCHANGED errors \/ Error \/ \E rv \in Nat : WriteFails(rv),
           \A x \in Build \ {b} : build'[x] = build[x],
           Carried(b)
    PROVE  FreshInv'
<1>1. /\ Grows
      /\ Current'.src <= edits + 1 /\ Current'.deploy <= edits + 1
      /\ Current'.status = "succeeded"
           => /\ Current.status = "succeeded"
              /\ Current'.src = Current.src /\ Current'.deploy = Current.deploy
  BY StatusWritten
<1>2. errors <= errors'
  BY ErrorsGrow
<1>3. \A x \in Build : Carried(x)
  BY <1>1, UnmovedCarried
<1> QED BY <1>1, <1>2, <1>3, FreshFrame

LEMMA StartFresh ==
    ASSUME IInv, IInv', FreshInv, NEW b \in Build, Start(b)
    PROVE  FreshInv'
<1> USE DEF IInv, TypeOK
<1>1. Returned(b) \/ Moved(b, "run", build[b].copy, build[b].built)
  BY ReturnFacts, GotoFacts DEF Start, BuildPc
<1>2. build[b].built <= edits + 1 /\ 0 <= edits + 1
  BY Numbers DEF FreshInv, ArchivesNumbered
<1>3. Carried(b)
  BY <1>1, <1>2, IdleCarried DEF Returned, Moved
<1> QED BY <1>1, <1>3, StepsFresh DEF Start, Returned, Moved

LEMMA GetEnvFresh ==
    ASSUME IInv, IInv', FreshInv, NEW b \in Build, GetEnv(b)
    PROVE  FreshInv'
<1> USE DEF IInv, TypeOK
<1>1. \/ Returned(b)
      \/ Moved(b, "builder", build[b].copy, build[b].built)
      \/ Moved(b, "fail", build[b].copy, build[b].built)
  BY ReturnFacts, GotoFacts DEF GetEnv, BuildPc
<1>2. build[b].built <= edits + 1 /\ 0 <= edits + 1
  BY Numbers DEF FreshInv, ArchivesNumbered
<1>3. Owns(b) /\ UNCHANGED <<log, userVars>>
  BY DEF GetEnv, Owns, Building
<1>4. Carried(b)
  BY <1>1, <1>2, <1>3 DEF Returned, Moved, Carried, Owns, Building, Writes
<1> QED BY <1>1, <1>3, <1>4, StepsFresh DEF GetEnv, Returned, Moved

LEMMA BuildPackageFresh ==
    ASSUME IInv, IInv', FreshInv, NEW b \in Build, BuildPackage(b)
    PROVE  FreshInv'
<1> USE DEF IInv, TypeOK
<1>1. /\ UNCHANGED <<log, userVars, errors>> /\ build[b].pc = "builder"
      /\ Current.src <= edits + 1 /\ build[b].built <= edits + 1
  BY DEF BuildPackage, FreshInv, ArchivesNumbered
<1>2. \/ Moved(b, "functions", build[b].copy, Current.src)
      \/ Moved(b, "fail", build[b].copy, build[b].built)
  <2>1. CASE Goto(b, "fail")
    BY <2>1, GotoFacts DEF BuildPc
  <2>2. CASE build' = [build EXCEPT ![b].pc = "functions", ![b].built = Current.src]
    BY <2>2, LogFacts DEF Moved, BuildOK, BuildState, BuildPc, Package
  <2> QED BY <2>1, <2>2 DEF BuildPackage
<1>3. Carried(b)
  BY <1>1, <1>2 DEF Moved, Carried, Owns, Building, Writes
<1> QED BY <1>1, <1>2, <1>3, StepsFresh DEF Moved

(* A new owner has a version that no pod was specialized for.              *)
LEMMA RunFresh ==
    ASSUME IInv, IInv', FreshInv, NEW b \in Build, Run(b)
    PROVE  FreshInv'
<1> USE DEF IInv, TypeOK
<1> DEFINE rv == build[b].copy
           status == IF log[rv].src # 0 THEN "running"
                     ELSE IF log[rv].deploy = 0 THEN "failed" ELSE "none"
<1>1. /\ rv \in Nat /\ status \in BuildStatus \ {"succeeded"}
      /\ UNCHANGED userVars /\ Len(log) \in Nat
  BY Numbers DEF Run, BuildStatus
<1>2. /\ UNCHANGED log \/ UpdateStatus(rv, status)
      /\ UNCHANGED errors \/ WriteFails(rv)
  BY DEF Run
<1>3. \/ Moved(b, "env", Len(log) + 1, build[b].built)
      \/ Returned(b)
  <2>1. ASSUME build' = [build EXCEPT ![b].pc = "env", ![b].copy = Len(log) + 1]
        PROVE  Moved(b, "env", Len(log) + 1, build[b].built)
    BY <1>1, <2>1 DEF Moved, BuildOK, BuildState, BuildPc
  <2> QED BY <2>1, ReturnFacts DEF Run
<1>4. build[b].built <= edits + 1 /\ 0 <= edits + 1
  BY Numbers DEF FreshInv, ArchivesNumbered
<1>5. Carried(b)
  BY <1>1, <1>3, <1>4 DEF Returned, Moved, Carried, Owns, Building, Writes
<1> HIDE DEF status, rv
<1> QED BY <1>1, <1>2, <1>3, <1>5, StepsFresh DEF Returned, Moved

(* The function is updated while nobody else can write a result.           *)
LEMMA UpdateFunctionsFresh ==
    ASSUME IInv, IInv', FreshInv, NEW b \in Build, UpdateFunctions(b)
    PROVE  FreshInv'
<1> USE DEF IInv, TypeOK
<1>1. UNCHANGED <<log, loaded, edits>> /\ build[b].pc = "functions"
  BY DEF UpdateFunctions
<1>2. Grows /\ Current' = Current
  BY <1>1, QuietGrows
<1>3. \E pc \in {"package", "fail", "unlisted"} :
        /\ Moved(b, pc, build[b].copy, build[b].built)
        /\ pc = "package" => function' = [ref |-> build[b].copy, cli |-> 0]
        /\ pc = "unlisted" => Error
  BY GotoFacts DEF UpdateFunctions, BuildPc
<1>4. errors <= errors' /\ errors \in Nat
  BY ErrorsGrow, Numbers DEF UpdateFunctions
<1>5. Owns(b) /\ Current.status = "running"
  BY <1>1 DEF Owns, Building, OwnerRuns
<1>6. ArchivesNumbered'
  BY <1>1, <1>2, <1>3 DEF FreshInv, ArchivesNumbered, Moved
<1>7. \A x \in Build : Owns(x)' => x = b
  BY <1>2, <1>3, <1>5, OwnsFrame DEF OneOwner, Moved
<1>8. NotLoaded'
  BY <1>1, <1>3, <1>5, <1>7 DEF FreshInv, NotLoaded, Moved
<1>9. UnlistedIsError'
  <2>1. errors >= 1 => errors' >= 1
    BY <1>4, Numbers DEF UpdateFunctions, Error
  <2>2. build'[b].pc = "unlisted" => errors' >= 1
    BY <1>3, <1>4 DEF Moved, Error
  <2>3. \A x \in Build \ {b} : build'[x] = build[x]
    BY <1>3 DEF Moved
  <2> QED BY <2>1, <2>2, <2>3 DEF FreshInv, UnlistedIsError
<1>10. FunctionUpdated'
  <2> SUFFICES ASSUME NEW x \in Build, Writes(x)'
               PROVE  function'.ref = build'[x].copy /\ function'.cli = 0
    BY DEF FunctionUpdated
  <2>1. Owns(x)'
    BY DEF Writes, Owns, Building
  <2>2. x = b
    BY <1>7, <2>1
  <2> QED BY <1>3, <2>2 DEF Writes, Moved
<1>11. BuiltIsUsed' /\ FreshCode'
  BY <1>2, <1>5 DEF BuiltIsUsed, FreshCode
<1> QED BY <1>6, <1>8, <1>9, <1>10, <1>11 DEF FreshInv

(* After the first failed call the report of an unlisted function cannot   *)
(* fail as well, so that the version it was built from is not the latest.  *)
LEMMA ReportUnlistedFresh ==
    ASSUME IInv, IInv', FreshInv, NEW b \in Build, ReportUnlisted(b)
    PROVE  FreshInv'
<1> USE DEF IInv, TypeOK
<1>1. /\ UNCHANGED userVars /\ build[b].pc = "unlisted"
      /\ build[b].copy \in Nat /\ errors \in Nat /\ errors >= 1
      /\ build[b].built <= edits + 1 /\ Len(log) \in Nat
  BY Numbers DEF ReportUnlisted, FreshInv, UnlistedIsError, ArchivesNumbered
<1>2. Moved(b, "package", build[b].copy, build[b].built)
  BY GotoFacts DEF ReportUnlisted, BuildPc
<1>3. \/ UpdateStatus(build[b].copy, "failed") /\ UNCHANGED errors
      \/ WriteFails(build[b].copy) /\ UNCHANGED log
  BY DEF ReportUnlisted
<1>4. ~(Writes(b)' /\ errors' <= 1)
  <2>1. CASE UpdateStatus(build[b].copy, "failed")
    <3>1. Len(log') = Len(log) + 1 /\ build[b].copy = Len(log)
      BY <1>1, <2>1, StatusFacts DEF BuildStatus
    <3> QED BY <1>1, <1>2, <3>1 DEF Writes, Latest, Moved
  <2>2. CASE WriteFails(build[b].copy) /\ UNCHANGED log
    BY <1>1, <1>2, <2>2 DEF Writes, Latest, Moved, WriteFails, Error
  <2> QED BY <1>3, <2>1, <2>2
<1>5. Carried(b)
  BY <1>1, <1>2, <1>4 DEF Carried, Owns, Building, Moved
<1>6. "failed" \in BuildStatus \ {"succeeded"}
  BY DEF BuildStatus
<1> QED BY <1>1, <1>2, <1>3, <1>5, <1>6, StepsFresh DEF Moved

LEMMA UpdatePackageFresh ==
    ASSUME IInv, IInv', FreshInv, NEW b \in Build, UpdatePackage(b)
    PROVE  FreshInv'
<1> USE DEF IInv, TypeOK
<1> DEFINE v == WithArchive(build[b].built)
<1>1. /\ UNCHANGED userVars /\ build[b].pc = "package"
      /\ build[b].copy \in Nat /\ build[b].built \in Archive
      /\ build[b].built <= edits + 1 /\ Current.src <= edits + 1
  BY Numbers DEF UpdatePackage, FreshInv, ArchivesNumbered, BuildOK, BuildState
<1>2. /\ v \in Package /\ v.status = Current.status /\ v.src = Current.src
      /\ v.deploy = build[b].built
  BY <1>1, LogFacts DEF Package, WithArchive
<1> HIDE DEF v
<1>3. CASE /\ Latest(build[b].copy) /\ log' = Append(log, v)
           /\ Goto(b, "succeed") /\ UNCHANGED errors
  <2>1. Grows /\ Current' = v
    BY <1>2, <1>3, AppendGrows, AppendFacts
  <2>2. Moved(b, "succeed", build[b].copy, build[b].built)
    BY <1>3, GotoFacts DEF BuildPc
  <2>3. Owns(b) /\ Writes(b) /\ Current.status = "running"
    BY <1>1, <1>3 DEF Owns, Writes, OwnerRuns
  <2>4. Carried(b)
    BY <1>1, <2>2, <2>3 DEF Carried, Moved
  <2>5. \A x \in Build : Carried(x)
    BY <2>1, <2>2, <2>4, UnmovedCarried DEF Moved
  <2>6. errors <= errors'
    BY <1>3, ErrorsGrow
  <2> QED BY <1>1, <1>2, <2>1, <2>3, <2>5, <2>6, FreshFrame
<1>4. CASE WriteFails(build[b].copy) /\ Goto(b, "fail") /\ UNCHANGED log
  <2>1. Moved(b, "fail", build[b].copy, build[b].built)
    BY <1>4, GotoFacts DEF BuildPc
  <2>2. Carried(b)
    BY <1>1, <1>4, <2>1 DEF Carried, Moved, Owns, Building, Writes, Latest
  <2> QED BY <1>1, <1>4, <2>1, <2>2, StepsFresh DEF Moved
<1> QED BY <1>3, <1>4 DEF UpdatePackage, v

LEMMA FailFresh ==
    ASSUME IInv, IInv', FreshInv, NEW b \in Build, Fail(b)
    PROVE  FreshInv'
<1> USE DEF IInv, TypeOK
<1>1. Returned(b) /\ build[b].copy \in Nat /\ 0 <= edits + 1
  BY ReturnFacts, Numbers DEF Fail
<1>2. Carried(b)
  BY <1>1, IdleCarried DEF Returned
<1>3. "failed" \in BuildStatus \ {"succeeded"}
  BY DEF BuildStatus
<1> QED BY <1>1, <1>2, <1>3, StepsFresh DEF Fail, Returned

(* The success is written by the owner: the function names its version,    *)
(* and no pod was specialized for it.                                      *)
LEMMA SucceedFresh ==
    ASSUME IInv, IInv', FreshInv, NEW b \in Build, Succeed(b)
    PROVE  FreshInv'
<1> USE DEF IInv, TypeOK
<1>1. /\ Returned(b) /\ build[b].copy \in Nat /\ 0 <= edits + 1
      /\ UNCHANGED userVars /\ build[b].pc = "succeed"
  BY ReturnFacts, Numbers DEF Succeed
<1>2. CASE WriteFails(build[b].copy + 1) /\ UNCHANGED log
  <2>1. Carried(b)
    BY <1>1, IdleCarried DEF Returned
  <2> QED BY <1>1, <1>2, <2>1, StepsFresh DEF Returned
<1>3. CASE UpdateStatus(build[b].copy + 1, "succeeded") /\ UNCHANGED errors
  <2>1. UNCHANGED <<function, loaded, edits>>
    BY <1>1 DEF userVars
  <2>2. /\ Grows /\ Current'.src = Current.src /\ Current'.deploy = Current.deploy
        /\ Latest(build[b].copy + 1)
    BY <1>1, <1>3, StatusFacts DEF BuildStatus, UpdateStatus
  <2>3. Owns(b) /\ Writes(b)
    BY <1>1, <2>2 DEF Owns, Building, Writes
  <2>4. \A x \in Build : ~Owns(x)'
    BY <1>1, <2>2, <2>3, OwnsFrame DEF OneOwner, Returned, Owns, Building
  <2>5. \A x \in Build : ~Writes(x)'
    BY <2>4 DEF Owns, Building, Writes
  <2>6. ArchivesNumbered' /\ UnlistedIsError'
    BY <1>1, <1>3, <2>1, <2>2 DEF FreshInv, ArchivesNumbered, UnlistedIsError, Returned
  <2>7. NotLoaded' /\ FunctionUpdated'
    BY <2>4, <2>5 DEF NotLoaded, FunctionUpdated
  <2>8. ASSUME errors' <= 1 PROVE BuiltIsUsed' /\ FreshCode'
    <3>1. function.ref = build[b].copy /\ function.cli = 0
      BY <1>3, <2>3, <2>8 DEF FreshInv, FunctionUpdated
    <3>2. loaded.ref < build[b].copy
      BY <2>3 DEF FreshInv, NotLoaded
    <3>3. loaded.ref # function.ref
      BY <1>1, <3>1, <3>2, Numbers
    <3> QED BY <2>1, <3>1, <3>3 DEF BuiltIsUsed, FreshCode
  <2> QED BY <2>6, <2>7, <2>8 DEF FreshInv
<1> QED BY <1>2, <1>3 DEF Succeed

(* An edit makes the archive older than the source, and takes the right to *)
(* write a result from every goroutine.                                    *)
LEMMA EditFresh ==
    ASSUME IInv, IInv', FreshInv, EditPackage \/ Rebuild
    PROVE  FreshInv'
<1> USE DEF IInv, TypeOK
<1>1. UNCHANGED <<build, loaded, errors>> /\ edits' = edits + 1
  BY DEF EditPackage, Rebuild
<1>2. PICK v \in Package :
        /\ log' = Append(log, v)
        /\ v.src <= edits' + 1 /\ v.deploy <= edits' + 1
        /\ v.status = "succeeded" => v.deploy # v.src
  <2>1. /\ Current.src <= edits + 1 /\ Current.deploy <= edits + 1 /\ edits \in Nat
        /\ Current.src \in Nat /\ Current.deploy \in Nat /\ Current \in Package
    BY Numbers, LogFacts DEF FreshInv, ArchivesNumbered
  <2>2. CASE EditPackage
    <3>1. PICK s \in {[src |-> edits + 2, deploy |-> Current.deploy],
                      [src |-> 0, deploy |-> edits + 2]} :
            log' = Append(log, [gen |-> Current.gen + 1, src |-> s.src,
                                deploy |-> s.deploy, status |-> Current.status])
      BY <2>2 DEF EditPackage
    <3>2. edits + 2 \in Archive /\ 0 \in Archive
      BY <2>2, BoundAssumption DEF EditPackage, Archive, BoundOK
    <3>3. /\ s.src \in Archive /\ s.deploy \in Archive
          /\ s.src <= edits' + 1 /\ s.deploy <= edits' + 1 /\ s.src # s.deploy
      BY <1>1, <2>1, <3>1, <3>2 DEF Package
    <3>4. [gen |-> Current.gen + 1, src |-> s.src, deploy |-> s.deploy,
           status |-> Current.status] \in Package
      BY <2>1, <3>3 DEF Package
    <3> QED BY <3>1, <3>3, <3>4
  <2>3. CASE Rebuild
    <3> DEFINE v == [Current EXCEPT !.status = "pending"]
    <3>1. v \in Package /\ v.src = Current.src /\ v.deploy = Current.deploy
          /\ v.status = "pending"
      BY <2>1 DEF Package, BuildStatus
    <3>2. log' = Append(log, v)
      BY <2>3 DEF Rebuild, UpdateStatus
    <3> HIDE DEF v
    <3> QED BY <1>1, <2>1, <3>1, <3>2
  <2> QED BY <2>2, <2>3
<1>3. Grows /\ Len(log') = Len(log) + 1 /\ Current' = v
  BY <1>2, AppendGrows, AppendFacts
<1>4. \A x \in Build : ~Writes(x)'
  <2> SUFFICES ASSUME NEW x \in Build PROVE ~Writes(x)'
    OBVIOUS
  <2>1. build[x].copy \in Nat /\ build[x].copy <= Len(log) /\ Len(log) \in Nat
        /\ (build[x].pc = "succeed" => build[x].copy < Len(log))
    BY Numbers DEF BuildOK
  <2> QED BY <1>1, <1>3, <2>1 DEF Writes, Latest
<1>5. ArchivesNumbered'
  <2>1. \A x \in Build : build[x].built <= edits + 2
    BY Numbers DEF FreshInv, ArchivesNumbered
  <2> QED BY <1>1, <1>2, <1>3, <2>1, Numbers DEF ArchivesNumbered
<1>6. NotLoaded' /\ UnlistedIsError'
  BY <1>1, <1>3, OwnsFrame DEF FreshInv, NotLoaded, UnlistedIsError
<1>7. FunctionUpdated' /\ BuiltIsUsed' /\ FreshCode'
  BY <1>2, <1>3, <1>4 DEF FunctionUpdated, BuiltIsUsed, FreshCode
<1> QED BY <1>5, <1>6, <1>7 DEF FreshInv

(* The command line writes the function only if the package is not built   *)
(* from its source; a pod is specialized only if nobody owns the package.  *)
LEMMA FunctionFresh ==
    ASSUME IInv, IInv', FreshInv, UpdateFunctionPackageResourceVersion \/ Fetch
    PROVE  FreshInv'
<1> USE DEF IInv, TypeOK
<1>1. UNCHANGED <<log, build, edits, errors>> /\ Current' = Current
  BY DEF UpdateFunctionPackageResourceVersion, Fetch, Current
<1>2. \A x \in Build : Owns(x)' = Owns(x) /\ Writes(x)' = Writes(x)
  BY <1>1 DEF Owns, Building, Writes, Latest
<1>3. ArchivesNumbered' /\ UnlistedIsError'
  BY <1>1 DEF FreshInv, ArchivesNumbered, UnlistedIsError
<1>4. CASE UpdateFunctionPackageResourceVersion
  <2>1. UNCHANGED loaded /\ function.cli # 0
    BY <1>4 DEF UpdateFunctionPackageResourceVersion
  <2>2. NotLoaded'
    BY <1>1, <1>2, <2>1 DEF FreshInv, NotLoaded
  <2>3. ASSUME errors' <= 1 PROVE FunctionUpdated' /\ BuiltIsUsed' /\ FreshCode'
    BY <1>1, <1>2, <2>1, <2>3 DEF FreshInv, FunctionUpdated, BuiltIsUsed, FreshCode
  <2> QED BY <1>3, <2>2, <2>3 DEF FreshInv
<1>5. CASE Fetch
  <2>1. /\ UNCHANGED function /\ Current.status \in {"succeeded", "none"}
        /\ loaded' = [ref |-> function.ref, deploy |-> Current.deploy]
    BY <1>5 DEF Fetch
  <2>2. NotLoaded'
    BY <1>2, <2>1 DEF NotLoaded, OwnerRuns
  <2>3. FreshCode'
    BY <1>1, <2>1 DEF FreshCode
  <2>4. ASSUME errors' <= 1 PROVE FunctionUpdated' /\ BuiltIsUsed'
    BY <1>1, <1>2, <2>1, <2>4 DEF FreshInv, FunctionUpdated, BuiltIsUsed
  <2> QED BY <1>3, <2>2, <2>3, <2>4 DEF FreshInv
<1> QED BY <1>4, <1>5

LEMMA CrashFresh ==
    ASSUME IInv, IInv', FreshInv, Crash
    PROVE  FreshInv'
<1>1. /\ UNCHANGED <<log, userVars, errors>> /\ 0 <= edits + 1
      /\ \A x \in Build : build'[x] = Resting
  BY Numbers DEF Crash
<1>2. \A x \in Build : Carried(x)
  BY <1>1, IdleCarried DEF Resting
<1>3. /\ Current'.src <= edits + 1 /\ Current'.deploy <= edits + 1
      /\ Current'.status = "succeeded"
           => /\ Current.status = "succeeded"
              /\ Current'.src = Current.src /\ Current'.deploy = Current.deploy
  BY <1>1, StatusWritten
<1> QED BY <1>1, <1>2, <1>3, ErrorsGrow, FreshFrame

LEMMA InitFresh == Init => FreshInv
<1> SUFFICES ASSUME Init PROVE FreshInv
  OBVIOUS
<1>1. PICK s \in {0, 1}, d \in {0, 1} :
        log = << [gen |-> 1, src |-> s, deploy |-> d, status |-> "unset"] >>
  BY DEF Init
<1>2. Current.src \in {0, 1} /\ Current.deploy \in {0, 1} /\ Current.status = "unset"
  BY <1>1 DEF Current
<1>3. \A x \in Build : build[x] = Resting
  BY DEF Init
<1>4. Resting.pc = "idle" /\ Resting.built = 0
  BY DEF Resting
<1>5. \A x \in Build : ~Owns(x) /\ ~Writes(x) /\ build[x].pc = "idle" /\ build[x].built = 0
  BY <1>3, <1>4 DEF Owns, Building, Writes
<1> QED BY <1>2, <1>5 DEF Init, FreshInv, ArchivesNumbered, NotLoaded, UnlistedIsError,
           FunctionUpdated, BuiltIsUsed, FreshCode

LEMMA NextFresh == IInv /\ IInv' /\ FreshInv /\ [Next]_vars => FreshInv'
<1> SUFFICES ASSUME IInv, IInv', FreshInv, [Next]_vars PROVE FreshInv'
  OBVIOUS
<1>1. CASE Watch \/ Relist \/ Resync
  BY <1>1, HandlersFresh
<1>2. ASSUME NEW b \in Build, Goroutine(b)
      PROVE  FreshInv'
  BY <1>2, StartFresh, RunFresh, GetEnvFresh, BuildPackageFresh, UpdateFunctionsFresh,
     ReportUnlistedFresh, UpdatePackageFresh, SucceedFresh, FailFresh DEF Goroutine
<1>3. CASE EditPackage \/ Rebuild
  BY <1>3, EditFresh
<1>4. CASE UpdateFunctionPackageResourceVersion \/ Fetch
  BY <1>4, FunctionFresh
<1>5. CASE Crash
  BY <1>5, CrashFresh
<1>6. CASE UNCHANGED vars
  <2>1. UNCHANGED <<log, build, function, loaded, edits, errors>>
    BY <1>6 DEF vars, userVars
  <2> QED BY <2>1 DEF FreshInv, ArchivesNumbered, NotLoaded, UnlistedIsError,
          FunctionUpdated, BuiltIsUsed, FreshCode, Owns, Building, Writes, Latest, Current
<1> QED BY <1>1, <1>2, <1>3, <1>4, <1>5, <1>6 DEF Next

(* build, UpdateFunctions and the fetcher: as long as at most one call has *)
(* failed, a pod that was specialized for the present version of the       *)
(* function has the archive of a package that was built, whatever users    *)
(* edit and rebuild, and however builds and the command line interleave.   *)
THEOREM FreshSafety == Spec => [](errors <= 1 => FreshCode)
<1>1. FreshInv => (errors <= 1 => FreshCode)
  BY DEF FreshInv
<1> QED BY <1>1, InitIInv, NextIInv, InitFresh, NextFresh, PTL DEF Spec
=============================================================================
