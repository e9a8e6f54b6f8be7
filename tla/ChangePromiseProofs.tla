-------------------------- MODULE ChangePromiseProofs --------------------------
(***************************************************************************)
(* Proofs about ChangeExecution: it implements ChangePromise.              *)
(*                                                                         *)
(* A step of a working run is a step of the promise by what it does to the *)
(* status: it stays active (Change, or nothing), becomes 'succeeded' (Keep)*)
(* or fails (Undo).  One fact is needed beside the invariants of the other *)
(* proofs: an active dry run is where no file is changed (Dry).            *)
(***************************************************************************)
EXTENDS ChangeUndoProofs

\* An active dry run never comes to the units, nor to a rollback.
Dry(r) ==
    Active(r) /\ runs[r].dryRun =>
        pc[r] \in {"validate", "plan", "begin", "applied"} /\ runs[r].allUnitsApplied

DryRunsDry == \A r \in Runs : Dry(r)

-----------------------------------------------------------------------------
(***************************************************************************)
(* Dry runs.                                                               *)
(***************************************************************************)
\* What a step does to the parts of the record that Dry looks at.
SameKind(r) ==
    /\ runs'[r].dryRun = runs[r].dryRun
    /\ runs'[r].allUnitsApplied = runs[r].allUnitsApplied \/ UnitRefused(r) \/ UnitThrows(r)

LEMMA ActKind ==
  ASSUME TypeOK, Places, NEW r \in Runs, Acts(r)
  PROVE  SameKind(r)
  <1>1. runs[r] # None /\ runs[r] \in RunRecords
    BY ActStep DEF Advances, TypeOK
  <1>2. CASE Validate(r)
    <2>1. runs'[r] = [runs[r] EXCEPT !.status = "validating", !.snapshot = content]
      BY <1>2, ValidateStep, Zenon DEF Recorded
    <2>. QED  BY <1>1, <2>1 DEF RunRecords, SameKind
  <1>3. ASSUME NEW st, NEW a, runs'[r] = [runs[r] EXCEPT !.status = st, !.abortReason = a]
        PROVE  SameKind(r)
    BY <1>1, <1>3 DEF RunRecords, SameKind
  <1>4. ASSUME NEW st, runs'[r] = [runs[r] EXCEPT !.status = st]
        PROVE  SameKind(r)
    BY <1>1, <1>4 DEF RunRecords, SameKind
  <1>5. CASE BuildPlan(r)
    <2>1. \/ runs'[r] = [runs[r] EXCEPT !.status = "ready_to_apply"]
          \/ runs'[r] = [runs[r] EXCEPT !.status = "aborted", !.abortReason = "pipeline"]
      BY <1>5, BuildPlanStep, Zenon DEF Recorded
    <2>. QED  BY <2>1, <1>3, <1>4
  <1>6. CASE BeginApply(r) \/ BeginRollback(r) \/ FinishRollback(r) \/ ApplyDone(r)
    <2>1. \E st \in Statuses : runs'[r] = [runs[r] EXCEPT !.status = st]
      <3>1. CASE BeginApply(r)
        BY <3>1, BeginApplyStep DEF Recorded, Statuses, ActiveStatuses
      <3>2. CASE BeginRollback(r)
        BY <3>2, BeginRollbackStep DEF Recorded, Statuses, ActiveStatuses
      <3>3. CASE FinishRollback(r)
        BY <3>3, FinishRollbackStep DEF Recorded, Statuses, TerminalStatuses
      <3>4. CASE ApplyDone(r)
        BY <3>4, ApplyDoneStep DEF Recorded, Statuses, ActiveStatuses, TerminalStatuses
      <3>. QED  BY <1>6, <3>1, <3>2, <3>3, <3>4
    <2>. QED  BY <2>1, <1>4
  <1>7. CASE UserAbort(r)
    <2>1. runs'[r] = [runs[r] EXCEPT !.status = "aborted", !.abortReason = "user"]
      BY <1>7, UserAbortStep, Zenon DEF Recorded
    <2>. QED  BY <2>1, <1>3
  <1>8. CASE Judge(r)
    <2>1. /\ \/ runs'[r] = Judged(r)
             \/ \E st : runs'[r] = [Judged(r) EXCEPT !.status = st]
      BY <1>8, JudgeStep, Zenon DEF Recorded
    <2>2. /\ Judged(r) \in RunRecords /\ Judged(r).dryRun = runs[r].dryRun
          /\ Judged(r).allUnitsApplied = runs[r].allUnitsApplied
      BY <1>1, JudgedData DEF Judged, RunRecords
    <2>. QED  BY <2>1, <2>2 DEF RunRecords, SameKind
  <1>9. ASSUME NEW passed \in BOOLEAN, ManualCheck(r, passed) PROVE SameKind(r)
    <2>1. /\ \/ runs'[r] = Checked(r, passed)
             \/ \E st : runs'[r] = [Checked(r, passed) EXCEPT !.status = st]
      BY <1>9, ManualCheckStep, Zenon DEF Recorded
    <2>2. /\ Checked(r, passed) \in RunRecords /\ Checked(r, passed).dryRun = runs[r].dryRun
          /\ Checked(r, passed).allUnitsApplied = runs[r].allUnitsApplied
      BY <1>1, CheckedData
    <2>. QED  BY <2>1, <2>2 DEF RunRecords, SameKind
  <1>10. CASE UnitRefused(r) \/ UnitThrows(r)
    <2>1. runs' = [runs EXCEPT ![r].allUnitsApplied = FALSE]
      BY <1>10 DEF UnitRefused, UnitThrows
    <2>. QED  BY <1>1, <1>10, <2>1, FailedUnit DEF SameKind
  <1>11. BackupUnit(r) \/ RunCommand(r) \/ RestoreFile(r) \/ SkipRestore(r)
        => UNCHANGED runs
    BY DEF BackupUnit, RunCommand, RestoreFile, SkipRestore
  <1>12. WriteUnit(r) \/ EndChecks(r) \/ (\E passed \in BOOLEAN : CommandReturns(r, passed))
        => UNCHANGED runs
    BY DEF WriteUnit, EndChecks, CommandReturns, memory
  <1>13. UNCHANGED runs => SameKind(r)
    BY DEF SameKind
  <1>. QED
    BY <1>2, <1>5, <1>6, <1>7, <1>8, <1>9, <1>10, <1>11, <1>12, <1>13, Zenon
    DEF Acts, Works, PipelineStep

\* The steps of the first places of a pipeline.
LEMMA EarlyActs ==
  ASSUME Base, Undecided, "abort" \notin Faults, NEW r \in Runs, Acts(r),
         pc[r] \in {"validate", "plan", "begin", "applied"}
  PROVE  \/ Validate(r) /\ pc[r] = "validate"
         \/ BuildPlan(r) /\ pc[r] = "plan"
         \/ BeginApply(r) /\ pc[r] = "begin"
         \/ ApplyDone(r) /\ pc[r] = "applied"
  <1>1. ~UserAbort(r) /\ \A passed \in BOOLEAN : ~ManualCheck(r, passed)
    BY ManualCheckWaits DEF UserAbort
  <1>2. \A passed \in BOOLEAN : ~CommandReturns(r, passed)
    BY DEF CommandReturns
  <1>3. /\ ~BackupUnit(r) /\ ~WriteUnit(r) /\ ~UnitRefused(r) /\ ~UnitThrows(r)
        /\ ~EndChecks(r) /\ ~RunCommand(r) /\ ~Judge(r)
        /\ ~BeginRollback(r) /\ ~RestoreFile(r) /\ ~SkipRestore(r) /\ ~FinishRollback(r)
    BY DEF At, BackupUnit, WriteUnit, UnitRefused, UnitThrows, EndChecks, RunCommand, Judge,
           BeginRollback, RestoreFile, SkipRestore, FinishRollback
  <1>4. Validate(r) \/ BuildPlan(r) \/ BeginApply(r) \/ ApplyDone(r)
    BY <1>1, <1>2, <1>3, Zenon DEF Acts, Works, PipelineStep
  <1>. QED  BY <1>4 DEF At, Validate, BuildPlan, BeginApply, ApplyDone

LEMMA ActDry ==
  ASSUME Base, Undecided, Busy, DryRunsDry, "abort" \notin Faults, NEW r \in Runs, Acts(r)
  PROVE  Dry(r)'
  <1>. TypeOK /\ Places
    BY DEF Base
  <1>1. /\ runs[r] # None /\ runs[r] \in RunRecords /\ runs'[r] # None /\ SameKind(r)
    BY ActStep, ActKind DEF Advances, TypeOK
  <1>. SUFFICES ASSUME Active(r)', runs'[r].dryRun
                PROVE  /\ pc'[r] \in {"validate", "plan", "begin", "applied"}
                       /\ runs'[r].allUnitsApplied
    BY DEF Dry
  <1>2. Active(r)
    <2>1. runs'[r].status = runs[r].status => Active(r)
      BY <1>1 DEF Active
    <2>. QED  BY <2>1, BusyAct
  <1>3. /\ runs[r].dryRun /\ runs[r].allUnitsApplied
        /\ pc[r] \in {"validate", "plan", "begin", "applied"}
    BY <1>1, <1>2 DEF SameKind, DryRunsDry, Dry
  <1>4. ~UnitRefused(r) /\ ~UnitThrows(r)
    BY <1>3 DEF UnitRefused, UnitThrows, At
  <1>5. runs'[r].allUnitsApplied
    BY <1>1, <1>3, <1>4 DEF SameKind
  <1>6. CASE Validate(r)
    BY <1>5, <1>6, ValidateStep
  <1>7. CASE BuildPlan(r)
    <2>1. ASSUME runs'[r] = [runs[r] EXCEPT !.status = "aborted", !.abortReason = "pipeline"]
          PROVE  FALSE
      <3>1. runs'[r].status = "aborted"
        BY <1>1, <2>1 DEF RunRecords
      <3>. QED  BY <3>1 DEF Active, ActiveStatuses
    <2>2. pc'[r] = "begin"
      BY <1>7, <2>1, BuildPlanStep, Zenon DEF Recorded
    <2>. QED  BY <1>5, <2>2
  <1>8. CASE BeginApply(r)
    BY <1>3, <1>5, <1>8, BeginApplyStep
  <1>9. ~ApplyDone(r)
    <2>1. SUFFICES ASSUME ApplyDone(r) PROVE FALSE
      OBVIOUS
    <2>2. runs' = [runs EXCEPT ![r] = [runs[r] EXCEPT !.status = "succeeded"]]
      BY <1>3, <2>1, Zenon DEF ApplyDone, Transition
    <2>3. runs'[r].status = "succeeded"
      BY <1>1, <2>2 DEF RunRecords, TypeOK
    <2>. QED  BY <2>3 DEF Active, ActiveStatuses
  <1>. QED  BY <1>3, <1>6, <1>7, <1>8, <1>9, EarlyActs

LEMMA DryStep ==
  ASSUME Base, Undecided, Busy, DryRunsDry, "abort" \notin Faults, [Next]_vars
  PROVE  DryRunsDry'
  <1>. TypeOK /\ Places
    BY DEF Base
  <1>. SUFFICES ASSUME NEW q \in Runs PROVE Dry(q)'
    BY DEF DryRunsDry
  <1>0. Dry(q)
    BY DEF DryRunsDry
  <1>1. ASSUME runs'[q] = runs[q], pc'[q] = pc[q] PROVE Dry(q)'
    BY <1>0, <1>1 DEF Dry, Active
  <1>2. ASSUME NEW r \in Runs, NEW p \in Proposals, NEW dryRun \in BOOLEAN, Start(r, p, dryRun)
        PROVE  Dry(q)'
    <2>1. Turn(r) /\ runs'[r] = NewRun(p, dryRun) /\ pc'[r] = "validate"
      BY <1>2, StartStep DEF Recorded
    <2>2. CASE q = r
      BY <2>1, <2>2 DEF Dry, NewRun
    <2>. QED  BY <1>1, <2>1, <2>2 DEF Turn, OthersKeep
  <1>3. ASSUME NEW r \in Runs, Acts(r) PROVE Dry(q)'
    <2>1. Turn(r)
      BY <1>3, ActStep
    <2>. QED  BY <1>1, <1>3, <2>1, ActDry DEF Turn, OthersKeep
  <1>4. ASSUME Recovering', ~up' PROVE ~Active(q)'
    BY <1>4 DEF Recovering, Active, ActiveStatuses
  <1>5. ASSUME NEW r \in Runs, Recover(r) PROVE ~Active(q)'
    BY <1>4, <1>5, RecoverStep DEF Places, process
  <1>6. Crash => ~Active(q)'
    BY <1>4, CrashStep DEF Places
  <1>7. ASSUME NEW s \in Subsystems, CooldownExpires(s) PROVE UNCHANGED << runs, pc >>
    BY <1>7 DEF CooldownExpires, pipeline
  <1>8. Boot \/ UNCHANGED vars => UNCHANGED << runs, pc >>
    BY DEF Boot, memory, pipeline, vars
  <1>. QED  BY <1>1, <1>2, <1>3, <1>5, <1>6, <1>7, <1>8, NextCases DEF Dry

-----------------------------------------------------------------------------
(***************************************************************************)
(* The mapping.                                                            *)
(***************************************************************************)
PromiseStep == [Promise!PromiseNext]_(Promise!promiseVars)

LEMMA MappedRun ==
  ASSUME NEW r \in Runs
  PROVE  /\ Stages[r] = Stage(r) /\ Stages'[r] = Stage(r)'
         /\ Jobs[r] = Job(r) /\ Jobs'[r] = Job(r)'
  BY DEF Stages, Jobs

\* A step that changes the stage and the job of one run at most.
LEMMA MappedStep ==
  ASSUME NEW r \in Runs,
         \A q \in Runs \ {r} : Stage(q)' = Stage(q) /\ Job(q)' = Job(q)
  PROVE  /\ Stages' = [Stages EXCEPT ![r] = Stage(r)']
         /\ Jobs' = [Jobs EXCEPT ![r] = Job(r)']
         /\ Stage(r)' = Stage(r) => Stages' = Stages
         /\ Job(r)' = Job(r) => Jobs' = Jobs
  BY DEF Stages, Jobs

\* Nothing happens, for the promise.
LEMMA NothingHappens ==
  ASSUME \A q \in Runs : Stage(q)' = Stage(q) /\ Job(q)' = Job(q), UNCHANGED content
  PROVE  PromiseStep
  <1>1. Stages' = Stages /\ Jobs' = Jobs
    BY DEF Stages, Jobs
  <1>. QED  BY <1>1 DEF PromiseStep, Promise!promiseVars

\* The other runs, in a run's turn.
LEMMA OthersStage ==
  ASSUME Places, NEW r \in Runs, Turn(r), NEW q \in Runs \ {r}
  PROVE  Stage(q)' = Stage(q) /\ Job(q)' = Job(q)
  <1>1. runs'[q] = runs[q] /\ pc'[q] = pc[q]
    BY DEF Turn, OthersKeep
  <1>2. pc[q] # "validate"
    BY NoneAssumption DEF Turn, Places, PlaceOK, PipelineLive
  <1>. QED  BY <1>1, <1>2 DEF Stage, Job

\* An active run is a working one.
LEMMA WorkingRun ==
  ASSUME Places, NEW r \in Runs
  PROVE  /\ Active(r) <=> Stage(r) = "working"
         /\ Active(r) => Job(r) = [proposal |-> runs[r].proposal, dryRun |-> runs[r].dryRun,
                                   before |-> IF pc[r] = "validate" THEN content
                                                                    ELSE runs[r].snapshot]
  BY DEF Places, PlaceOK, Active, Stage, Job

-----------------------------------------------------------------------------
(***************************************************************************)
(* The steps of a run.                                                     *)
(***************************************************************************)
LEMMA StartPromise ==
  ASSUME Base, Busy, NEW r \in Runs, NEW p \in Proposals, NEW dryRun \in BOOLEAN,
         Start(r, p, dryRun)
  PROVE  PromiseStep
  <1>. TypeOK /\ Places
    BY DEF Base
  <1>1. /\ Turn(r) /\ runs'[r] = NewRun(p, dryRun) /\ pc[r] = "none" /\ pc'[r] = "validate"
        /\ ~IsSubsystemLocked(Subsystem[p]) /\ UNCHANGED content
    BY StartStep DEF Recorded
  <1>2. /\ NewRun(p, dryRun).proposal = p /\ NewRun(p, dryRun).dryRun = dryRun
        /\ NewRun(p, dryRun).status \in ActiveStatuses /\ NewRun(p, dryRun) # None
    BY NewRunData, RunFields DEF ActiveStatuses, NewRun
  <1>3. /\ Stages[r] = "new" /\ Stage(r)' = "working"
        /\ Job(r)' = [proposal |-> p, dryRun |-> dryRun, before |-> content]
    BY <1>1, <1>2, MappedRun DEF Stage, Job
  <1>4. /\ Stages' = [Stages EXCEPT ![r] = "working"]
        /\ Jobs' = [Jobs EXCEPT ![r] = [proposal |-> p, dryRun |-> dryRun, before |-> content]]
    BY <1>1, <1>3, OthersStage, MappedStep
  <1>5. ASSUME NEW q \in Runs, Stages[q] = "working"
        PROVE  Subsystem[Jobs[q].proposal] # Subsystem[p]
    <2>1. Active(q) /\ Jobs[q].proposal = runs[q].proposal
      BY <1>5, MappedRun, WorkingRun
    <2>. QED  BY <1>1, <2>1, NoneAssumption DEF Busy, IsSubsystemLocked, Active, SubsystemOf
  <1>6. Promise!Begin(r, p, dryRun)
    BY <1>1, <1>3, <1>4, <1>5 DEF Promise!Begin
  <1>. QED  BY <1>6 DEF PromiseStep, Promise!PromiseNext

\* Only Validate takes the snapshot, and no step goes back to it.
LEMMA ActSnapshot ==
  ASSUME Base, Undecided, "abort" \notin Faults, NEW r \in Runs, Acts(r)
  PROVE  /\ pc'[r] # "validate"
         /\ (IF pc[r] = "validate" THEN content ELSE runs[r].snapshot) = runs'[r].snapshot
         /\ pc[r] = "validate" => UNCHANGED content
  <1>. TypeOK /\ Places
    BY DEF Base
  <1>1. runs[r] # None /\ runs[r] \in RunRecords
    BY ActStep DEF Advances, TypeOK
  <1>2. CASE Validate(r)
    <2>1. /\ runs'[r] = [runs[r] EXCEPT !.status = "validating", !.snapshot = content]
          /\ pc[r] = "validate" /\ pc'[r] = "plan" /\ UNCHANGED content
      BY <1>2, ValidateStep, Zenon DEF Recorded, Validate
    <2>. QED  BY <1>1, <2>1 DEF RunRecords
  <1>3. CASE ~Validate(r)
    <2>1. pc[r] # "validate"
      BY <1>3, EarlyActs
    <2>2. runs'[r].snapshot = runs[r].snapshot
      BY <1>3, WorkCarries, CallCarries DEF Acts, Carries
    <2>3. \A point \in Points : pc' = [pc EXCEPT ![r] = point] => pc'[r] = point
      BY DEF TypeOK
    <2>4. \/ pc' = pc
          \/ \E point \in Points \ {"validate"} : pc' = [pc EXCEPT ![r] = point]
      <3>1. BuildPlan(r) \/ BeginApply(r) \/ ApplyDone(r) \/ Judge(r) \/ BeginRollback(r)
            \/ FinishRollback(r)
            => \E point \in Points \ {"validate"} : pc' = [pc EXCEPT ![r] = point]
        BY DEF BuildPlan, BeginApply, ApplyDone, Judge, BeginRollback, FinishRollback, Goto,
               Return, Points
      <3>2. BackupUnit(r) \/ WriteUnit(r) \/ UnitRefused(r) \/ UnitThrows(r) \/ EndChecks(r)
            => \E point \in Points \ {"validate"} : pc' = [pc EXCEPT ![r] = point]
        BY DEF BackupUnit, WriteUnit, UnitRefused, UnitThrows, EndChecks, Goto, Points
      <3>3. RunCommand(r) \/ RestoreFile(r) \/ SkipRestore(r) \/ UserAbort(r)
            => \/ pc' = pc
               \/ \E point \in Points \ {"validate"} : pc' = [pc EXCEPT ![r] = point]
        BY DEF RunCommand, RestoreFile, SkipRestore, UserAbort, pipeline, Goto, Points
      <3>4. (\E passed \in BOOLEAN : CommandReturns(r, passed) \/ ManualCheck(r, passed))
            => \/ pc' = pc
               \/ \E point \in Points \ {"validate"} : pc' = [pc EXCEPT ![r] = point]
        BY DEF CommandReturns, ManualCheck, Goto, Points
      <3>. QED
        BY <1>3, <3>1, <3>2, <3>3, <3>4, Zenon DEF Acts, Works, PipelineStep
    <2>. QED  BY <2>1, <2>2, <2>3, <2>4
  <1>. QED  BY <1>2, <1>3

\* A step that changes files leaves the status, and is not one of a dry run.
LEMMA ActChangesFiles ==
  ASSUME Base, Busy, DryRunsDry, NEW r \in Runs, Acts(r), content' # content
  PROVE  /\ runs'[r].status = runs[r].status
         /\ Active(r) /\ ~runs[r].dryRun
         /\ \A f \in Files \ FilesOf(r) : content'[f] = content[f]
  <1>. TypeOK /\ Places
    BY DEF Base
  <1>1. WriteUnit(r) \/ UnitThrows(r) \/ RestoreFile(r) \/ SkipRestore(r)
    BY ActChanges
  <1>2. Engaged(r) /\ \A f \in Files \ FilesOf(r) : content'[f] = content[f]
    BY ActContent
  <1>3. runs[r] # None /\ Active(r)
    BY <1>2 DEF Engaged, Busy, Active, ActiveStatuses
  <1>4. runs'[r].status = runs[r].status
    <2>1. WriteUnit(r) \/ RestoreFile(r) \/ SkipRestore(r) => UNCHANGED runs
      BY DEF WriteUnit, RestoreFile, SkipRestore, memory
    <2>2. UnitThrows(r) => runs'[r].status = runs[r].status
      BY <1>3, FailedUnit DEF UnitThrows
    <2>. QED  BY <1>1, <2>1, <2>2
  <1>5. pc[r] \in {"backup", "write", "restore"}
    BY <1>1 DEF WriteUnit, UnitThrows, RestoreFile, SkipRestore, At
  <1>6. ~runs[r].dryRun
    BY <1>3, <1>5 DEF DryRunsDry, Dry
  <1>. QED  BY <1>2, <1>3, <1>4, <1>6

LEMMA ActPromise ==
  ASSUME Settled, Undo, Busy, DryRunsDry, "abort" \notin Faults, [Next]_vars,
         NEW r \in Runs, Acts(r)
  PROVE  PromiseStep
  <1>. Base /\ TypeOK /\ Places /\ Undecided
    BY DEF Settled, Base
  <1>1. /\ Turn(r) /\ up /\ Places' /\ runs[r] # None /\ runs'[r] # None
        /\ runs'[r].proposal = runs[r].proposal /\ runs'[r].dryRun = runs[r].dryRun
        /\ runs'[r].status \in Statuses
    <2>1. TypeOK' /\ Turn(r) /\ Advances(r) /\ SameKind(r)
      BY ActStep, ActKind
    <2>2. runs'[r].status \in Statuses
      BY <2>1, RunFields DEF Advances, TypeOK
    <2>. QED  BY <2>1, <2>2, TurnPlaces DEF Advances, Turn, SameKind
  <1>2. \A q \in Runs \ {r} : Stage(q)' = Stage(q) /\ Job(q)' = Job(q)
    BY <1>1, OthersStage
  <1>3. pc[r] # "none" /\ pc'[r] # "none"
    BY <1>1 DEF Places, PlaceOK
  <1>4. CASE ~Active(r)
    <2>1. pc' = pc /\ runs'[r].status = runs[r].status /\ UNCHANGED content
      BY <1>4, BusyAct, ActChangesFiles
    <2>2. ~(runs[r].status \in ActiveStatuses)
      BY <1>1, <1>4 DEF Active
    <2>3. Stage(r)' = Stage(r) /\ Job(r)' = Job(r)
      BY <1>1, <1>3, <2>1, <2>2 DEF Stage, Job
    <2>. QED  BY <1>2, <2>1, <2>3, NothingHappens
  <1>5. CASE Active(r)
    <2>1. /\ Stages[r] = "working" /\ Jobs[r].proposal = runs[r].proposal
          /\ Jobs[r].dryRun = runs[r].dryRun
          /\ Jobs[r].before = IF pc[r] = "validate" THEN content ELSE runs[r].snapshot
      BY <1>5, MappedRun, WorkingRun
    <2>2. CASE runs'[r].status \in ActiveStatuses
      <3>1. Stage(r)' = Stage(r)
        BY <1>1, <1>3, <1>5, <2>2 DEF Stage, Active
      <3>2. Job(r)' = Job(r)
        BY <1>1, <1>5, <3>1, ActSnapshot, WorkingRun DEF Job
      <3>3. CASE content' = content
        BY <1>2, <3>1, <3>2, <3>3, NothingHappens
      <3>4. CASE content' # content
        <4>1. ~runs[r].dryRun /\ \A f \in Files \ FilesOf(r) : content'[f] = content[f]
          BY <3>4, ActChangesFiles
        <4>2. Stages' = Stages /\ Jobs' = Jobs
          BY <1>2, <3>1, <3>2, MappedStep
        <4>3. runs[r].proposal \in Proposals
          BY <1>1, RunFields DEF TypeOK
        <4>4. Promise!Change(r)
          BY <2>1, <4>1, <4>2, <4>3 DEF Promise!Change, Promise!ChangedBy, FilesOf
        <4>. QED  BY <4>4 DEF PromiseStep, Promise!PromiseNext
      <3>. QED  BY <3>3, <3>4
    <2>3. CASE runs'[r].status \notin ActiveStatuses
      <3>1. runs'[r].status # runs[r].status /\ UNCHANGED content
        BY <1>5, <2>3, ActChangesFiles DEF Active
      <3>2. /\ Stage(r)' = IF runs'[r].status = "succeeded" THEN "kept" ELSE "failed"
            /\ Job(r)' = None
        BY <1>1, <1>3, <2>3 DEF Stage, Job
      <3>3. /\ Stages' = [Stages EXCEPT ![r] = Stage(r)']
            /\ Jobs' = [Jobs EXCEPT ![r] = None]
        BY <1>2, <3>2, MappedStep
      <3>4. CASE runs'[r].status = "succeeded"
        <4>1. Promise!Keep(r)
          BY <2>1, <3>1, <3>2, <3>3, <3>4 DEF Promise!Keep, Promise!End
        <4>. QED  BY <4>1 DEF PromiseStep, Promise!PromiseNext
      <3>5. CASE runs'[r].status # "succeeded"
        <4>1. Becomes(r, "rolled_back") \/ Becomes(r, "aborted")
          BY <1>1, <2>3, <3>1, <3>5 DEF Becomes, Statuses, TerminalStatuses
        <4>2. pc[r] # "validate"
          <5>1. BuildPlan(r) \/ FinishRollback(r)
            BY <1>1, <4>1, NextFails
          <5>. QED  BY <5>1 DEF BuildPlan, FinishRollback, At
        <4>3. \A f \in SingleUnitFiles(r) : content[f] = Jobs[r].before[f]
          BY <1>1, <2>1, <3>1, <4>1, <4>2, NextUndone
        <4>4. runs[r].proposal \in Proposals
          BY <1>1, RunFields DEF TypeOK
        <4>5. Promise!Undo(r)
          BY <2>1, <3>1, <3>2, <3>3, <3>5, <4>3, <4>4
          DEF Promise!Undo, Promise!End, SingleUnitFiles
        <4>. QED  BY <4>5 DEF PromiseStep, Promise!PromiseNext
      <3>. QED  BY <3>4, <3>5
    <2>. QED  BY <2>2, <2>3
  <1>. QED  BY <1>4, <1>5

-----------------------------------------------------------------------------
(***************************************************************************)
(* Death and recovery.                                                     *)
(***************************************************************************)
LEMMA RecoverPromise ==
  ASSUME Base, NEW r \in Runs, Recover(r)
  PROVE  PromiseStep
  <1>. TypeOK /\ Places
    BY DEF Base
  <1>1. /\ OthersKeep(r) /\ runs[r] = None /\ saved[r] \in RunRecords
        /\ runs'[r] = [saved[r] EXCEPT !.status = "aborted", !.abortReason = "crash_recovery"]
        /\ UNCHANGED << pc, content >>
    BY RecoverStep DEF Recorded, pipeline
  <1>2. runs'[r] # None /\ runs'[r].status = "aborted"
    <2>1. runs'[r] \in RunRecords
      BY <1>1 DEF RunRecords, Statuses, TerminalStatuses
    <2>. QED  BY <1>1, <2>1, RunFields DEF RunRecords
  <1>3. pc[r] # "none"
    BY <1>1, RunFields DEF Places, PlaceOK
  <1>4. /\ Stages[r] = "forgotten" /\ Stage(r)' = "failed"
        /\ Job(r) = None /\ Job(r)' = None
    BY <1>1, <1>2, <1>3, MappedRun DEF Stage, Job, ActiveStatuses
  <1>5. \A q \in Runs \ {r} : Stage(q)' = Stage(q) /\ Job(q)' = Job(q)
    BY <1>1 DEF OthersKeep, Stage, Job
  <1>6. Promise!WriteOff(r)
    BY <1>1, <1>4, <1>5, MappedStep DEF Promise!WriteOff
  <1>. QED  BY <1>6 DEF PromiseStep, Promise!PromiseNext

\* The process dies in the middle of a run's change, at the worst.
LEMMA TornFile ==
  ASSUME Base, Busy, DryRunsDry, Crash
  PROVE  \/ UNCHANGED content
         \/ \E r \in Runs : /\ Active(r) /\ ~runs[r].dryRun
                            /\ \A f \in Files \ FilesOf(r) : content'[f] = content[f]
  <1>. TypeOK /\ Places
    BY DEF Base
  <1>1. \/ UNCHANGED content
        \/ \E r \in Runs : /\ \/ At(r, "write")
                              \/ At(r, "restore") /\ RollbackStepsLeft(r)
                           /\ content' = [content EXCEPT ![UnitAt(r).file] = {Torn}]
    BY DEF Crash, TearWrite, HalfWriteFile, disk
  <1>2. ASSUME NEW r \in Runs, At(r, "write") \/ (At(r, "restore") /\ RollbackStepsLeft(r)),
               content' = [content EXCEPT ![UnitAt(r).file] = {Torn}]
        PROVE  /\ Active(r) /\ ~runs[r].dryRun
               /\ \A f \in Files \ FilesOf(r) : content'[f] = content[f]
    <2>1. /\ pc[r] \in {"write", "restore"} /\ PipelineLive(r) /\ runs[r] # None
          /\ step[r] \in DOMAIN UnitsOf(r)
      BY <1>2, AtWork, RollbackUnit DEF Points, Places, PlaceOK
    <2>2. Active(r) /\ ~runs[r].dryRun
      BY <2>1 DEF Busy, DryRunsDry, Dry
    <2>3. UnitAt(r).file \in FilesOf(r)
      BY <2>1 DEF FilesOf, FilesOfPlan, UnitsOf, UnitAt
    <2>. QED  BY <1>2, <2>2, <2>3 DEF TypeOK, Contents
  <1>. QED  BY <1>1, <1>2

LEMMA CrashPromise ==
  ASSUME Base, Busy, DryRunsDry, Crash
  PROVE  PromiseStep
  <1>. TypeOK /\ Places
    BY DEF Base
  <1>1. /\ runs' = [r \in Runs |-> None]
        /\ pc' = [r \in Runs |-> IF pc[r] = "none" THEN "none" ELSE "done"]
    BY DEF Crash
  <1>2. ASSUME NEW q \in Runs
        PROVE  /\ Stage(q)' = IF Stages[q] = "new" THEN "new" ELSE "forgotten"
               /\ Job(q)' = None
    BY <1>1, <1>2, MappedRun DEF Stage, Job
  <1>3. /\ Stages' = [r \in Runs |-> IF Stages[r] = "new" THEN "new" ELSE "forgotten"]
        /\ Jobs' = [r \in Runs |-> None]
    <2>1. Stages' = [r \in Runs |-> Stage(r)'] /\ Jobs' = [r \in Runs |-> Job(r)']
      BY DEF Stages, Jobs
    <2>. QED  BY <1>2, <2>1
  <1>4. UNCHANGED content \/ \E r \in Runs : Promise!ChangedBy(r)
    <2>1. ASSUME NEW r \in Runs, Active(r), ~runs[r].dryRun,
                 \A f \in Files \ FilesOf(r) : content'[f] = content[f]
          PROVE  Promise!ChangedBy(r)
      <3>1. /\ Stages[r] = "working" /\ Jobs[r].proposal = runs[r].proposal
            /\ Jobs[r].dryRun = runs[r].dryRun
        BY <2>1, MappedRun, WorkingRun
      <3>2. runs[r].proposal \in Proposals
        BY <2>1, RunFields DEF TypeOK, Active
      <3>. QED  BY <2>1, <3>1, <3>2 DEF Promise!ChangedBy, FilesOf
    <2>. QED  BY <2>1, TornFile
  <1>5. Promise!Die
    BY <1>3, <1>4 DEF Promise!Die
  <1>. QED  BY <1>5 DEF PromiseStep, Promise!PromiseNext

-----------------------------------------------------------------------------
(***************************************************************************)
(* The refinement.                                                         *)
(***************************************************************************)
LEMMA InitPromise == Init => Promise!PromiseInit
  BY DEF Init, Promise!PromiseInit, Stages, Jobs, Stage, Job

LEMMA NextPromise ==
  ASSUME Settled, Undo, Busy, DryRunsDry, "abort" \notin Faults, [Next]_vars
  PROVE  PromiseStep
  <1>. Base
    BY DEF Settled
  <1>1. ASSUME UNCHANGED << runs, pc, content >> PROVE PromiseStep
    BY <1>1, NothingHappens DEF Stage, Job
  <1>2. ASSUME NEW s \in Subsystems, CooldownExpires(s) PROVE UNCHANGED << runs, pc, content >>
    BY <1>2 DEF CooldownExpires, pipeline
  <1>3. Boot \/ UNCHANGED vars => UNCHANGED << runs, pc, content >>
    BY DEF Boot, memory, pipeline, disk, vars
  <1>. QED
    BY <1>1, <1>2, <1>3, StartPromise, ActPromise, RecoverPromise, CrashPromise, NextCases

\* Controlled execution keeps the promise of ExecutionOrchestrator.ts's header,
\* for any proposals, plans, commands and verdicts, with the process dying at
\* any point: one run works on a subsystem at a time, on the files of its plan,
\* a dry run on none, and a run that fails leaves the files that it touched
\* once as it found them.  The conditions are those of FailuresLeaveNoTrace.
THEOREM ExecutionKeepsPromise ==
  ASSUME "abort" \notin Faults, "io" \notin Faults, MaxPatchUnits <= MaxRollbackSteps, FilesApart
  PROVE  Spec => RunsKeepPromise
  <1>1. Spec => [](Settled /\ Undo)
    BY UndoHolds
  <1>2. Spec => []Busy
    <2>1. Base /\ Undecided /\ Busy /\ [Next]_vars => Busy'
      BY BusyStep
    <2>. QED  BY <2>1, InitBusy, BaseHolds, UndecidedHolds, PTL DEF Spec
  <1>3. Spec => []DryRunsDry
    <2>1. Base /\ Undecided /\ Busy /\ DryRunsDry /\ [Next]_vars => DryRunsDry'
      BY DryStep
    <2>2. Init => DryRunsDry
      BY DEF Init, DryRunsDry, Dry, Active
    <2>. QED  BY <1>2, <2>1, <2>2, BaseHolds, UndecidedHolds, PTL DEF Spec
  <1>4. Settled /\ Undo /\ Busy /\ DryRunsDry /\ [Next]_vars => PromiseStep
    BY NextPromise
  <1>5. Spec => [][Promise!PromiseNext]_(Promise!promiseVars)
    BY <1>1, <1>2, <1>3, <1>4, PTL DEF Spec, PromiseStep
  <1>. QED  BY <1>5, InitPromise, PTL DEF Spec, RunsKeepPromise, Promise!PromiseSpec
==============================================================================
