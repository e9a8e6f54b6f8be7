-------------------------- MODULE ChangeUndoProofs --------------------------
(***************************************************************************)
(* Proofs about ChangeExecution: what a failed run leaves in the files.    *)
(*                                                                         *)
(* The invariant, CanUndo, follows each unit that is the only one of its   *)
(* plan on its file: until it is written, and again once the rollback has  *)
(* passed it, the file is that of the snapshot; in between it has the      *)
(* unit's mark more, and the backup is the snapshot's.  Nobody else        *)
(* touches the files of a run that may still roll back (Exclusive, Apart), *)
(* and the rollback's budget lasts for all the units that the patch budget *)
(* let through (Frugal).                                                   *)
(***************************************************************************)
EXTENDS ChangeExecutionProofs, FiniteSetTheorems

\* The plans of two subsystems have no file in common.  Nothing in the code
\* sees to it: it is a condition of the theorems.
FilesApart ==
    \A p, q \in Proposals : Subsystem[p] # Subsystem[q] =>
        \A i \in DOMAIN Units[p], j \in DOMAIN Units[q] : Units[p][i].file # Units[q][j].file

\* Run r may still roll back: its pipeline is going, or it waits for its manual
\* check.
Engaged(r) ==
    /\ runs[r] # None
    /\ PipelineLive(r) \/ (runs[r].status = "verifying" /\ runs[r].verification.done = TRUE)

Exclusive ==
    \A r, q \in Runs : Engaged(r) /\ Engaged(q) /\ SubsystemOf(r) = SubsystemOf(q) => r = q

\* No other unit of the plan is on the file of unit i.
Alone(r, i) ==
    \A j \in DOMAIN UnitsOf(r) : UnitsOf(r)[j].file = UnitsOf(r)[i].file => j = i

FileOf(r, i) == UnitsOf(r)[i].file
Creates(r, i) == UnitsOf(r)[i].type = "create"
Before(r, i) == runs[r].snapshot[FileOf(r, i)]

\* The rollback has come by unit i.
Passed(r, i) == pc[r] = "restore" /\ i < step[r]

Undoable(r, i) ==
    /\ Creates(r, i) /\ pc[r] # "plan" => Before(r, i) = {}
    /\ ~Creates(r, i) => backup[r][i] \in {None, Before(r, i)}
    /\ i \in written[r] =>
          /\ ~Creates(r, i) => backup[r][i] # None
          /\ content[FileOf(r, i)] \subseteq Before(r, i) \cup {UnitsOf(r)[i].mark}
    /\ i \notin written[r] \/ Passed(r, i) => content[FileOf(r, i)] = Before(r, i)

\* Units within the budget for patches, and a rollback step for each so far.
Frugal(r) ==
    /\ pc[r] = "backup" => step[r] <= used[r].patchUnits + 1
    /\ pc[r] = "write" => step[r] <= used[r].patchUnits /\ step[r] <= MaxPatchUnits
    /\ \A i \in written[r] : i <= MaxPatchUnits
    /\ used[r].rollbackSteps = 0 \/ (pc[r] = "restore" /\ used[r].rollbackSteps < step[r])

CanUndo(r) ==
    Engaged(r) =>
        /\ Frugal(r)
        /\ pc[r] = "validate" => \A i \in UnitIndices : backup[r][i] = None
        /\ pc[r] # "validate" => \A i \in DOMAIN UnitsOf(r) : Alone(r, i) => Undoable(r, i)

-----------------------------------------------------------------------------
(***************************************************************************)
(* Nobody else touches the files of a run that may still roll back.        *)
(***************************************************************************)
LEMMA ExclusiveHolds ==
    "abort" \notin Faults \/ ManualReview = {} => (Spec => []Exclusive)
  <1>1. ASSUME "abort" \notin Faults PROVE Spec => []Exclusive
    <2>1. Base /\ Undecided /\ Busy /\ [Next]_vars => Busy'
      BY <1>1, BusyStep
    <2>2. Busy => Exclusive
      <3>1. ASSUME Busy, NEW r \in Runs, Engaged(r) PROVE lock[SubsystemOf(r)] = r
        BY <3>1 DEF Busy, Engaged, Active, ActiveStatuses
      <3>. QED  BY <3>1 DEF Exclusive
    <2>. QED  BY <2>1, <2>2, InitBusy, BaseHolds, UndecidedHolds, PTL DEF Spec
  <1>2. ASSUME ManualReview = {} PROVE Spec => []Exclusive
    <2>1. Base /\ Undecided /\ Outcomes /\ [Next]_vars => Outcomes'
      BY <1>2, OutcomeStep
    <2>2. Outcomes /\ OnePipelinePerSubsystem => Exclusive
      <3>1. ASSUME Outcomes, NEW r \in Runs, Engaged(r) PROVE PipelineLive(r)
        BY <1>2, <3>1 DEF Outcomes, Outcome, Awaiting, Engaged
      <3>. QED  BY <3>1 DEF Exclusive, OnePipelinePerSubsystem, Engaged
    <2>3. Spec => []OnePipelinePerSubsystem
      BY <1>2, OnePipeline
    <2>. QED  BY <2>1, <2>2, <2>3, InitOutcomes, BaseHolds, UndecidedHolds, PTL DEF Spec
  <1>. QED  BY <1>1, <1>2

LEMMA Apart ==
  ASSUME TypeOK, FilesApart, Exclusive, NEW r \in Runs, NEW q \in Runs \ {r},
         Engaged(r), Engaged(q), NEW i \in DOMAIN UnitsOf(r)
  PROVE  FileOf(r, i) \notin FilesOf(q)
  <1>1. /\ SubsystemOf(r) # SubsystemOf(q)
        /\ runs[r].proposal \in Proposals /\ runs[q].proposal \in Proposals
    BY RunFields DEF Exclusive, Engaged, TypeOK
  <1>. QED  BY <1>1 DEF FilesApart, FilesOf, FilesOfPlan, FileOf, UnitsOf, SubsystemOf

\* The steps that change files.
LEMMA ActChanges ==
  ASSUME NEW q \in Runs, Acts(q)
  PROVE  WriteUnit(q) \/ UnitThrows(q) \/ RestoreFile(q) \/ SkipRestore(q) \/ UNCHANGED content
  <1>1. \/ Validate(q) \/ BuildPlan(q) \/ BeginApply(q) \/ BackupUnit(q) \/ ApplyDone(q)
        \/ Judge(q) \/ BeginRollback(q) \/ FinishRollback(q) \/ UserAbort(q)
        => UNCHANGED content
    BY Zenon DEF Validate, BuildPlan, BeginApply, BackupUnit, ApplyDone, Judge, BeginRollback,
                 FinishRollback, UserAbort
  <1>2. UnitRefused(q) \/ EndChecks(q) \/ RunCommand(q)
        \/ (\E passed \in BOOLEAN : CommandReturns(q, passed) \/ ManualCheck(q, passed))
        => UNCHANGED content
    BY DEF UnitRefused, EndChecks, RunCommand, CommandReturns, ManualCheck, disk
  <1>. QED  BY <1>1, <1>2 DEF Acts, Works, PipelineStep

\* A step of run q changes files of its plan only, and only while its pipeline
\* is going.
LEMMA ActContent ==
  ASSUME TypeOK, Places, NEW q \in Runs, Acts(q)
  PROVE  \/ UNCHANGED content
         \/ /\ Engaged(q)
            /\ \A f \in Files : content'[f] = content[f] \/ f \in FilesOf(q)
  <1>1. ASSUME PipelineLive(q), runs[q] # None, step[q] \in DOMAIN UnitsOf(q), NEW c,
               content' = [content EXCEPT ![UnitAt(q).file] = c]
        PROVE  /\ Engaged(q)
               /\ \A f \in Files : content'[f] = content[f] \/ f \in FilesOf(q)
    BY <1>1 DEF Engaged, FilesOf, FilesOfPlan, UnitsOf, UnitAt, TypeOK, Contents
  <1>2. CASE WriteUnit(q)
    <2>1. /\ At(q, "write") /\ content' = [content EXCEPT ![UnitAt(q).file] = AfterUnit(UnitAt(q))]
      BY <1>2 DEF WriteUnit
    <2>2. PipelineLive(q) /\ runs[q] # None /\ step[q] \in DOMAIN UnitsOf(q)
      BY <2>1, AtWork DEF Points, Places, PlaceOK
    <2>. QED  BY <1>1, <2>1, <2>2
  <1>3. CASE UnitThrows(q)
    <2>1. \/ UNCHANGED content
          \/ At(q, "write") /\ content' = [content EXCEPT ![UnitAt(q).file] = {Torn}]
      BY <1>3 DEF UnitThrows, HalfWriteFile
    <2>2. At(q, "write") => PipelineLive(q) /\ runs[q] # None /\ step[q] \in DOMAIN UnitsOf(q)
      BY AtWork DEF Points, Places, PlaceOK
    <2>. QED  BY <1>1, <2>1, <2>2
  <1>4. CASE RestoreFile(q)
    <2>1. /\ At(q, "restore") /\ RollbackStepsLeft(q)
          /\ content' = [content EXCEPT ![UnitAt(q).file] = Restored(q)]
      BY <1>4 DEF RestoreFile
    <2>2. PipelineLive(q) /\ runs[q] # None /\ step[q] \in DOMAIN UnitsOf(q)
      BY <2>1, AtWork, RollbackUnit DEF Points
    <2>. QED  BY <1>1, <2>1, <2>2
  <1>5. CASE SkipRestore(q)
    <2>1. /\ At(q, "restore") /\ RollbackStepsLeft(q)
          /\ \/ UNCHANGED content
             \/ content' = [content EXCEPT ![UnitAt(q).file] = {Torn}]
      BY <1>5 DEF SkipRestore, HalfWriteFile
    <2>2. PipelineLive(q) /\ runs[q] # None /\ step[q] \in DOMAIN UnitsOf(q)
      BY <2>1, AtWork, RollbackUnit DEF Points
    <2>. QED  BY <1>1, <2>1, <2>2
  <1>. QED  BY <1>2, <1>3, <1>4, <1>5, ActChanges

\* What a run has used is its own.
UsesKeep(r) == \A q \in Runs \ {r} : used'[q] = used[q]

LEMMA ActUses ==
  ASSUME TypeOK, NEW r \in Runs,
         Acts(r) \/ \E p \in Proposals, dryRun \in BOOLEAN : Start(r, p, dryRun)
  PROVE  UsesKeep(r)
  <1>1. ASSUME NEW run, Transition(r, run) PROVE UsesKeep(r)
    BY <1>1 DEF Transition, TypeOK, UsesKeep
  <1>2. ASSUME UNCHANGED used PROVE UsesKeep(r)
    BY <1>2 DEF UsesKeep
  <1>3. ASSUME NEW field \in DOMAIN NoUsage, Consume(r, field) PROVE UsesKeep(r)
    BY <1>3 DEF Consume, TypeOK, UsesKeep
  <1>4. BackupUnit(r) => UsesKeep(r)
    BY DEF BackupUnit, TypeOK, UsesKeep
  <1>5. ASSUME NEW p \in Proposals, NEW dryRun \in BOOLEAN, Start(r, p, dryRun)
        PROVE  UsesKeep(r)
    BY <1>5 DEF Start, TypeOK, UsesKeep
  <1>6. Validate(r) \/ BuildPlan(r) \/ BeginApply(r) \/ ApplyDone(r) \/ Judge(r)
        \/ BeginRollback(r) \/ FinishRollback(r) \/ UserAbort(r)
        \/ (\E passed \in BOOLEAN : ManualCheck(r, passed))
        => UsesKeep(r)
    BY <1>1, <1>2, Zenon
    DEF Validate, BuildPlan, BeginApply, ApplyDone, Judge, BeginRollback, FinishRollback,
        UserAbort, ManualCheck
  <1>7. RunCommand(r) \/ RestoreFile(r) \/ SkipRestore(r) => UsesKeep(r)
    BY <1>2, <1>3 DEF RunCommand, RestoreFile, SkipRestore, NoUsage
  <1>8. WriteUnit(r) \/ UnitRefused(r) \/ UnitThrows(r) \/ EndChecks(r)
        \/ (\E passed \in BOOLEAN : CommandReturns(r, passed))
        => UNCHANGED used
    BY DEF WriteUnit, UnitRefused, UnitThrows, EndChecks, CommandReturns, memory
  <1>. QED
    BY <1>2, <1>4, <1>5, <1>6, <1>7, <1>8 DEF Acts, Works, PipelineStep

\* The steps of other runs.
LEMMA OthersUndo ==
  ASSUME TypeOK, Exclusive, FilesApart, NEW r \in Runs, NEW q \in Runs \ {r}, CanUndo(r),
         Turn(q), UsesKeep(q),
         \/ UNCHANGED content
         \/ /\ Engaged(q)
            /\ \A f \in Files : content'[f] = content[f] \/ f \in FilesOf(q)
  PROVE  CanUndo(r)'
  <1>1. /\ runs'[r] = runs[r] /\ pc'[r] = pc[r] /\ step'[r] = step[r] /\ used'[r] = used[r]
        /\ backup'[r] = backup[r] /\ written'[r] = written[r]
    BY DEF Turn, OthersKeep, UsesKeep
  <1>2. (Engaged(r)' <=> Engaged(r)) /\ UnitsOf(r)' = UnitsOf(r) /\ (Frugal(r)' <=> Frugal(r))
    BY <1>1 DEF Engaged, PipelineLive, UnitsOf, Frugal
  <1>3. ASSUME Engaged(r), NEW i \in DOMAIN UnitsOf(r)
        PROVE  content'[FileOf(r, i)] = content[FileOf(r, i)]
    <2>1. FileOf(r, i) \in Files
      BY <1>3, RunFields, ProposalData DEF Engaged, FileOf, UnitsOf, TypeOK
    <2>. QED  BY <1>3, <2>1, Apart
  <1>4. ASSUME Engaged(r), NEW i \in DOMAIN UnitsOf(r)
        PROVE  /\ Alone(r, i)' <=> Alone(r, i)
               /\ Undoable(r, i) => Undoable(r, i)'
    BY <1>1, <1>2, <1>3, <1>4 DEF Alone, Undoable, FileOf, Creates, Before, Passed
  <1>. QED  BY <1>1, <1>2, <1>4 DEF CanUndo

-----------------------------------------------------------------------------
(***************************************************************************)
(* The steps of the run itself.                                            *)
(***************************************************************************)
\* Run r has a record, a plan and its files.
LEMMA UnitData ==
  ASSUME TypeOK, NEW r \in Runs, runs[r] # None
  PROVE  /\ DOMAIN UnitsOf(r) \subseteq Nat \cap UnitIndices
         /\ \A i \in DOMAIN UnitsOf(r) : FileOf(r, i) \in Files /\ content[FileOf(r, i)] \subseteq Marks
  <1>1. runs[r].proposal \in Proposals
    BY RunFields DEF TypeOK
  <1>. QED  BY <1>1, ProposalData DEF FileOf, UnitsOf, TypeOK, Contents

\* A step between the phases: files, backups and snapshot stay.
Quiet(r) ==
    /\ runs'[r].proposal = runs[r].proposal /\ runs'[r].snapshot = runs[r].snapshot
    /\ UNCHANGED content /\ backup'[r] = backup[r] /\ written'[r] = written[r]
    /\ used'[r].rollbackSteps \in {0, used[r].rollbackSteps}
    /\ pc[r] \notin {"validate", "plan", "restore"}
    /\ pc'[r] \notin {"validate", "plan", "write"}
    /\ pc'[r] \in {"backup", "restore"} => step'[r] = 1

LEMMA QuietUndo ==
  ASSUME TypeOK, TypeOK', NEW r \in Runs, CanUndo(r), Engaged(r), Quiet(r)
  PROVE  CanUndo(r)'
  <1>1. /\ Frugal(r) /\ UnitsOf(r)' = UnitsOf(r)
        /\ \A i \in DOMAIN UnitsOf(r) : Alone(r, i) => Undoable(r, i)
    BY DEF CanUndo, Quiet, UnitsOf
  <1>2. used[r].rollbackSteps = 0 /\ used'[r].patchUnits \in Nat
    BY <1>1 DEF Frugal, Quiet, TypeOK, NoUsage
  <1>3. Frugal(r)'
    BY <1>1, <1>2 DEF Frugal, Quiet
  <1>4. ASSUME NEW i \in DOMAIN UnitsOf(r)
        PROVE  /\ Alone(r, i)' <=> Alone(r, i)
               /\ Undoable(r, i) => Undoable(r, i)'
    <2>1. ~Passed(r, i) /\ ~Passed(r, i)'
      <3>1. i \in Nat \ {0}
        BY <1>4, RunData DEF Engaged
      <3>. QED  BY <3>1 DEF Passed, Quiet
    <2>. QED  BY <1>1, <1>4, <2>1 DEF Alone, Undoable, Quiet, FileOf, Creates, Before
  <1>. QED  BY <1>1, <1>3, <1>4 DEF CanUndo, Quiet

LEMMA ValidateUndo ==
  ASSUME TypeOK, Places, NEW r \in Runs, Ready(r), CanUndo(r), Validate(r)
  PROVE  CanUndo(r)'
  <1>1. /\ pc[r] = "validate" /\ pc'[r] = "plan" /\ runs[r] \in RunRecords /\ runs[r] # None
        /\ runs'[r] = [runs[r] EXCEPT !.status = "validating", !.snapshot = content]
    BY ValidateStep DEF Recorded, Advances, TypeOK
  <1>2. /\ runs'[r].proposal = runs[r].proposal /\ runs'[r].snapshot = content
        /\ used'[r] = used[r] /\ UNCHANGED << content, backup, written >>
    <2>1. /\ runs'[r].proposal = runs[r].proposal /\ runs'[r].snapshot = content
          /\ [runs[r] EXCEPT !.status = "validating", !.snapshot = content].status = "validating"
      BY <1>1 DEF RunRecords
    <2>2. UNCHANGED << used, content, backup, written >>
      BY <2>1 DEF Validate, Transition, TerminalStatuses
    <2>. QED  BY <2>1, <2>2
  <1>3. /\ written[r] = {} /\ Frugal(r) /\ \A i \in UnitIndices : backup[r][i] = None
    BY <1>1 DEF CanUndo, Ready, Engaged, PipelineLive
  <1>4. Frugal(r)'
    BY <1>1, <1>2, <1>3 DEF Frugal
  <1>5. ASSUME NEW i \in DOMAIN UnitsOf(r) PROVE Undoable(r, i)'
    <2>1. i \in UnitIndices
      BY <1>1, <1>5, UnitData
    <2>2. UnitsOf(r)' = UnitsOf(r)
      BY <1>2 DEF UnitsOf
    <2>. QED  BY <1>1, <1>2, <1>3, <2>1, <2>2 DEF Undoable, FileOf, Creates, Before
  <1>6. UnitsOf(r)' = UnitsOf(r)
    BY <1>2 DEF UnitsOf
  <1>. QED  BY <1>1, <1>4, <1>5, <1>6 DEF CanUndo

LEMMA BuildPlanUndo ==
  ASSUME TypeOK, Places, NEW r \in Runs, Ready(r), CanUndo(r), BuildPlan(r), Engaged(r)'
  PROVE  CanUndo(r)'
  <1>1. /\ pc[r] = "plan" /\ runs[r] \in RunRecords /\ runs[r] # None
        /\ \/ /\ pc'[r] = "begin" /\ PlanApplicable(r)
              /\ Transition(r, [runs[r] EXCEPT !.status = "ready_to_apply"])
           \/ /\ pc'[r] = "done"
              /\ runs'[r] = [runs[r] EXCEPT !.status = "aborted", !.abortReason = "pipeline"]
    <2>1. pc[r] = "plan" /\ runs[r] \in RunRecords /\ runs[r] # None
      BY BuildPlanStep DEF Advances, TypeOK
    <2>2. \/ /\ pc' = [pc EXCEPT ![r] = "begin"] /\ PlanApplicable(r)
             /\ Transition(r, [runs[r] EXCEPT !.status = "ready_to_apply"])
          \/ /\ pc' = [pc EXCEPT ![r] = "done"]
             /\ runs' = [runs EXCEPT ![r] = [runs[r] EXCEPT !.status = "aborted",
                                                            !.abortReason = "pipeline"]]
      BY Zenon DEF BuildPlan, Goto, Return, Transition
    <2>. QED  BY <2>1, <2>2 DEF TypeOK
  <1>2. /\ pc'[r] = "begin" /\ PlanApplicable(r)
        /\ Transition(r, [runs[r] EXCEPT !.status = "ready_to_apply"])
    <2>1. ASSUME pc'[r] = "done",
                 runs'[r] = [runs[r] EXCEPT !.status = "aborted", !.abortReason = "pipeline"]
          PROVE  FALSE
      <3>1. runs'[r].status = "aborted"
        BY <1>1, <2>1 DEF RunRecords
      <3>. QED  BY <2>1, <3>1 DEF Engaged, PipelineLive
    <2>. QED  BY <1>1, <2>1
  <1>3. runs'[r] = [runs[r] EXCEPT !.status = "ready_to_apply"]
    BY <1>2 DEF Transition, TypeOK
  <1>4. /\ runs'[r].proposal = runs[r].proposal /\ runs'[r].snapshot = runs[r].snapshot
        /\ used'[r] = used[r]
    BY <1>1, <1>2, <1>3 DEF RunRecords, Transition, TerminalStatuses
  <1>5. UNCHANGED << content, backup, written >>
    BY DEF BuildPlan
  <1>6. /\ Frugal(r) /\ \A i \in DOMAIN UnitsOf(r) : Alone(r, i) => Undoable(r, i)
    BY <1>1 DEF CanUndo, Engaged, PipelineLive
  <1>7. UnitsOf(r)' = UnitsOf(r)
    BY <1>4 DEF UnitsOf
  <1>8. Frugal(r)'
    BY <1>1, <1>2, <1>4, <1>5, <1>6 DEF Frugal
  <1>9. ASSUME NEW i \in DOMAIN UnitsOf(r), Alone(r, i) PROVE Undoable(r, i)'
    <2>1. Undoable(r, i) /\ i \notin written[r]
      BY <1>1, <1>6, <1>9 DEF Ready
    <2>2. content[FileOf(r, i)] = Before(r, i)
      BY <2>1 DEF Undoable
    <2>3. Creates(r, i) => content[FileOf(r, i)] = {}
      BY <1>2 DEF PlanApplicable, UnitApplicable, Creates, FileOf
    <2>. QED  BY <1>4, <1>5, <1>7, <2>1, <2>2, <2>3 DEF Undoable, FileOf, Creates, Before
  <1>10. ASSUME NEW i \in DOMAIN UnitsOf(r) PROVE Alone(r, i)' <=> Alone(r, i)
    BY <1>7 DEF Alone
  <1>. QED  BY <1>2, <1>7, <1>8, <1>9, <1>10 DEF CanUndo
\* Rollback steps are consumed by the rollback, and forgotten at the end.
LEMMA QuietUses ==
  ASSUME TypeOK, NEW r \in Runs, Acts(r), ~RestoreFile(r), ~SkipRestore(r)
  PROVE  used'[r].rollbackSteps \in {0, used[r].rollbackSteps}
  <1>. DEFINE Goal == used'[r].rollbackSteps \in {0, used[r].rollbackSteps}
  <1>1. ASSUME NEW run, Transition(r, run) PROVE Goal
    BY <1>1 DEF Transition, TypeOK, NoUsage
  <1>2. UNCHANGED used => Goal
    OBVIOUS
  <1>3. ASSUME Consume(r, "verificationSteps") PROVE Goal
    <2>1. used' = [used EXCEPT ![r] = [used[r] EXCEPT !["verificationSteps"]
                                          = used[r]["verificationSteps"] + 1]]
      BY <1>3 DEF Consume
    <2>. QED  BY <2>1 DEF TypeOK, NoUsage
  <1>4. BackupUnit(r) => Goal
    <2>1. ASSUME BackupUnit(r)
          PROVE  \E m, n : used' = [used EXCEPT ![r] = [used[r] EXCEPT !.patchUnits = m,
                                                                     !.fileMutations = n]]
      BY <2>1, Zenon DEF BackupUnit
    <2>. QED  BY <2>1 DEF TypeOK, NoUsage
  <1>5. Validate(r) \/ BuildPlan(r) \/ BeginApply(r) \/ ApplyDone(r) \/ Judge(r)
        \/ BeginRollback(r) \/ FinishRollback(r) \/ UserAbort(r)
        \/ (\E passed \in BOOLEAN : ManualCheck(r, passed))
        => Goal
    BY <1>1, <1>2, Zenon
    DEF Validate, BuildPlan, BeginApply, ApplyDone, Judge, BeginRollback, FinishRollback,
        UserAbort, ManualCheck
  <1>6. RunCommand(r) => Goal
    BY <1>3 DEF RunCommand
  <1>7. WriteUnit(r) \/ UnitRefused(r) \/ UnitThrows(r) \/ EndChecks(r)
        \/ (\E passed \in BOOLEAN : CommandReturns(r, passed))
        => UNCHANGED used
    BY DEF WriteUnit, UnitRefused, UnitThrows, EndChecks, CommandReturns, memory
  <1>. HIDE DEF Goal
  <1>8. Goal
    BY <1>2, <1>4, <1>5, <1>6, <1>7 DEF Acts, Works, PipelineStep
  <1>. QED  BY <1>8 DEF Goal

\* A step that is none of the phases' own.
LEMMA CalmStep ==
  ASSUME TypeOK, Places, Undecided, "io" \notin Faults, NEW r \in Runs, Acts(r), Engaged(r)'
  PROVE  \/ Validate(r) \/ BuildPlan(r) \/ BackupUnit(r) \/ WriteUnit(r)
         \/ RestoreFile(r) \/ SkipRestore(r)
         \/ Quiet(r) /\ Engaged(r)
  <1>. SUFFICES ASSUME ~Validate(r), ~BuildPlan(r), ~BackupUnit(r), ~WriteUnit(r),
                       ~RestoreFile(r), ~SkipRestore(r)
                PROVE  Quiet(r) /\ Engaged(r)
    OBVIOUS
  <1>1. used'[r].rollbackSteps \in {0, used[r].rollbackSteps}
    BY QuietUses
  <1>2. ~UnitThrows(r)
    BY DEF UnitThrows
  <1>3. ASSUME Works(r) PROVE Quiet(r) /\ Engaged(r)
    <2>1. Carries(r) /\ Engaged(r)
      BY <1>3, WorkCarries, WorkStep DEF Carries, Engaged
    <2>2. ~FinishRollback(r)
      <3>1. ASSUME FinishRollback(r) PROVE FALSE
        <4>1. /\ pc'[r] = "done" /\ runs[r] \in RunRecords
              /\ \E st \in {"rolled_back", "aborted"} : runs'[r] = [runs[r] EXCEPT !.status = st]
          BY <3>1, FinishRollbackStep, Zenon DEF Recorded, Advances, TypeOK
        <4>2. runs'[r].status # "verifying"
          BY <4>1 DEF RunRecords
        <4>. QED  BY <4>1, <4>2 DEF Engaged, PipelineLive
      <3>. QED  BY <3>1
    <2>3. CASE BeginApply(r)
      BY <1>1, <2>1, <2>3, BeginApplyStep DEF Quiet, Carries, BeginApply
    <2>4. CASE UnitRefused(r)
      BY <1>1, <2>1, <2>4, UnitRefusedStep DEF Quiet, Carries, UnitRefused, disk
    <2>5. CASE ApplyDone(r)
      <3>1. UNCHANGED << content, backup, written >>
        BY <2>5 DEF ApplyDone
      <3>2. pc[r] = "applied" /\ pc'[r] \in {"rollback", "check", "done"}
        BY <2>5, ApplyDoneStep
      <3>. QED  BY <1>1, <2>1, <3>1, <3>2 DEF Quiet, Carries
    <2>6. CASE EndChecks(r)
      BY <1>1, <2>1, <2>6, EndChecksStep DEF Quiet, Carries, EndChecks, disk
    <2>7. CASE RunCommand(r)
      <3>1. pc[r] = "check" /\ pc'[r] \in {"check", "running"}
        BY <2>7, RunCommandStep
      <3>. QED  BY <1>1, <2>1, <2>7, <3>1 DEF Quiet, Carries, RunCommand, disk
    <2>8. CASE Judge(r)
      <3>1. pc[r] = "judge" /\ pc'[r] \in {"done", "rollback"}
        BY <2>8, JudgeStep
      <3>2. UNCHANGED << content, backup, written >>
        BY <2>8 DEF Judge
      <3>. QED  BY <1>1, <2>1, <3>1, <3>2 DEF Quiet, Carries
    <2>9. CASE BeginRollback(r)
      BY <1>1, <2>1, <2>9, BeginRollbackStep DEF Quiet, Carries, BeginRollback
    <2>10. ASSUME NEW passed \in BOOLEAN, CommandReturns(r, passed) PROVE Quiet(r)
      <3>1. pc[r] = "running" /\ pc'[r] \in {"check", "judge"}
        BY <2>10, CommandReturnsStep
      <3>2. UNCHANGED << content, backup, written >>
        BY <2>10 DEF CommandReturns, disk
      <3>. QED  BY <1>1, <2>1, <3>1, <3>2 DEF Quiet, Carries
    <2>. QED
      BY <1>2, <1>3, <2>1, <2>2, <2>3, <2>4, <2>5, <2>6, <2>7, <2>8, <2>9, <2>10
      DEF Works, PipelineStep
  <1>4. CASE UserAbort(r)
    <2>1. /\ pc' = pc /\ runs[r] \in RunRecords /\ EventLoopFree /\ runs[r] # None
          /\ runs'[r] = [runs[r] EXCEPT !.status = "aborted", !.abortReason = "user"]
      BY <1>4, UserAbortStep, Zenon DEF Recorded, Advances
    <2>2. runs'[r].status # "verifying" /\ pc[r] \in {"running", "done"}
      BY <2>1, Waiting DEF RunRecords
    <2>3. Engaged(r)
      BY <2>1, <2>2 DEF Engaged, PipelineLive
    <2>4. Carries(r) /\ UNCHANGED << content, backup, written >>
      BY <1>4, CallCarries DEF UserAbort
    <2>. QED  BY <1>1, <2>1, <2>2, <2>3, <2>4 DEF Quiet, Carries
  <1>5. ASSUME NEW passed \in BOOLEAN, ManualCheck(r, passed) PROVE Quiet(r) /\ Engaged(r)
    <2>1. /\ runs[r] \in RunRecords /\ runs[r] # None /\ runs[r].verification.done
          /\ pc[r] = "done"
      BY <1>5, ManualCheckStep, ManualCheckWaits DEF Base
    <2>2. runs[r].verification.done = TRUE
      BY <2>1 DEF RunRecords
    <2>3. /\ pc' = pc \/ pc'[r] = "rollback"
          /\ runs[r].status = "verifying" \/ (pc' = pc /\ runs'[r] = Checked(r, passed))
      BY <1>5, ManualCheckStep, Zenon DEF Recorded
    <2>4. runs[r].status = "verifying"
      <3>1. Checked(r, passed).status = runs[r].status
        BY <2>1, CheckedData
      <3>. QED  BY <2>1, <2>3, <3>1 DEF Engaged, PipelineLive
    <2>5. Carries(r) /\ UNCHANGED << content, backup, written >>
      BY <1>5, CallCarries DEF ManualCheck
    <2>. QED  BY <1>1, <2>1, <2>2, <2>3, <2>4, <2>5 DEF Quiet, Carries, Engaged
  <1>. QED  BY <1>3, <1>4, <1>5 DEF Acts
\* The backup of a unit that is alone on its file is the snapshot's.
LEMMA BackupUndo ==
  ASSUME TypeOK, Places, NEW r \in Runs, Ready(r), CanUndo(r), BackupUnit(r)
  PROVE  CanUndo(r)'
  <1>1. /\ pc[r] = "backup" /\ pc'[r] = "write" /\ runs[r] # None
        /\ step[r] \in DOMAIN UnitsOf(r)
    BY BackupUnitStep DEF Advances, Places, PlaceOK
  <1>2. UNCHANGED << runs, content, written, step >>
    BY DEF BackupUnit
  <1>3. /\ Frugal(r) /\ \A i \in DOMAIN UnitsOf(r) : Alone(r, i) => Undoable(r, i)
        /\ \A j \in written[r] : j < step[r]
    BY <1>1 DEF CanUndo, Engaged, PipelineLive, Ready
  <1>4. used'[r].rollbackSteps = 0
    BY <1>1, <1>3, QuietUses
    DEF Acts, Works, PipelineStep, Frugal, RestoreFile, SkipRestore, At
  <1>5. step[r] <= used'[r].patchUnits /\ step[r] <= MaxPatchUnits
    <2>1. used[r].patchUnits < MaxPatchUnits
      BY DEF BackupUnit, UnitWithinBudget, WithinBudget
    <2>2. used'[r].patchUnits = used[r].patchUnits + 1
      <3>1. \E n : used' = [used EXCEPT ![r] = [used[r] EXCEPT
                                !.patchUnits = used[r].patchUnits + 1, !.fileMutations = n]]
        BY Zenon DEF BackupUnit
      <3>. QED  BY <3>1 DEF TypeOK, NoUsage
    <2>. QED  BY <1>1, <1>3, <2>1, <2>2, ExecutionAssumption DEF Frugal, TypeOK, NoUsage
  <1>6. Frugal(r)'
    BY <1>1, <1>2, <1>3, <1>4, <1>5 DEF Frugal
  <1>7. /\ \A i \in UnitIndices \ {step[r]} : backup'[r][i] = backup[r][i]
        /\ Creates(r, step[r]) => backup'[r] = backup[r]
        /\ ~Creates(r, step[r]) => backup'[r][step[r]] = content[FileOf(r, step[r])]
    <2>1. \/ UnitAt(r).type = "create" /\ backup' = backup
          \/ /\ UnitAt(r).type # "create"
             /\ backup' = [backup EXCEPT ![r][step[r]] = content[UnitAt(r).file]]
      BY DEF BackupUnit
    <2>2. step[r] \in UnitIndices
      BY <1>1, UnitData
    <2>. QED  BY <2>1, <2>2 DEF TypeOK, UnitAt, Creates, FileOf
  <1>8. ASSUME NEW i \in DOMAIN UnitsOf(r), Alone(r, i) PROVE Undoable(r, i)'
    <2>1. Undoable(r, i) /\ i \in UnitIndices
      BY <1>1, <1>3, <1>8, UnitData
    <2>2. CASE i # step[r]
      BY <1>1, <1>2, <1>7, <2>1, <2>2 DEF Undoable, Creates, FileOf, Before, UnitsOf, Passed
    <2>3. CASE i = step[r]
      <3>1. i \notin written[r] /\ content[FileOf(r, i)] = Before(r, i)
        BY <1>1, <1>3, <2>1, <2>3, UnitData DEF Undoable
      <3>2. ~Creates(r, i) => backup'[r][i] = Before(r, i)
        BY <1>7, <2>3, <3>1
      <3>. QED
        BY <1>1, <1>2, <2>1, <3>1, <3>2 DEF Undoable, Creates, FileOf, Before, UnitsOf, Passed
    <2>. QED  BY <2>2, <2>3
  <1>. QED  BY <1>1, <1>2, <1>6, <1>8 DEF CanUndo, UnitsOf, Alone

\* The file of a written unit has its mark more than before.
LEMMA WriteUndo ==
  ASSUME TypeOK, Places, NEW r \in Runs, Ready(r), CanUndo(r), WriteUnit(r)
  PROVE  CanUndo(r)'
  <1>. DEFINE n == step[r]
  <1>1. /\ pc[r] = "write" /\ pc'[r] \in {"applied", "backup"} /\ runs[r] # None
        /\ n \in DOMAIN UnitsOf(r) /\ step'[r] = n + 1
    BY WriteUnitStep DEF Advances, Places, PlaceOK
  <1>2. /\ UNCHANGED << runs, used, backup >>
        /\ content' = [content EXCEPT ![FileOf(r, n)] = AfterUnit(UnitAt(r))]
        /\ written' = [written EXCEPT ![r] = @ \cup {n}]
    BY DEF WriteUnit, memory, FileOf, UnitAt
  <1>3. /\ Frugal(r) /\ \A i \in DOMAIN UnitsOf(r) : Alone(r, i) => Undoable(r, i)
        /\ \A j \in written[r] : j < n
        /\ ~Creates(r, n) => backup[r][n] = content[FileOf(r, n)]
    BY <1>1 DEF CanUndo, Engaged, PipelineLive, Ready, Creates, FileOf, UnitAt
  <1>4. written'[r] = written[r] \cup {n} /\ n \in Nat /\ FileOf(r, n) \in Files
    BY <1>1, <1>2, UnitData DEF TypeOK
  <1>5. Frugal(r)'
    <2>1. n <= MaxPatchUnits /\ used[r].rollbackSteps = 0
      BY <1>1, <1>3 DEF Frugal
    <2>2. step'[r] <= used[r].patchUnits + 1
      BY <1>1, <1>3, <1>4 DEF Frugal, TypeOK, NoUsage
    <2>. QED  BY <1>1, <1>2, <1>3, <1>4, <2>1, <2>2 DEF Frugal
  <1>8. ASSUME NEW i \in DOMAIN UnitsOf(r), Alone(r, i) PROVE Undoable(r, i)'
    <2>1. Undoable(r, i) /\ FileOf(r, i) \in Files
      BY <1>1, <1>3, <1>8, UnitData
    <2>2. CASE i # n
      <3>1. content'[FileOf(r, i)] = content[FileOf(r, i)]
        BY <1>1, <1>2, <1>8, <2>1, <2>2 DEF TypeOK, Contents, Alone, FileOf
      <3>. QED
        BY <1>1, <1>2, <1>4, <2>1, <2>2, <3>1 DEF Undoable, Creates, FileOf, Before, UnitsOf, Passed
    <2>3. CASE i = n
      <3>1. i \notin written[r] /\ content[FileOf(r, i)] = Before(r, i)
        BY <1>3, <1>4, <2>1, <2>3 DEF Undoable
      <3>2. content'[FileOf(r, i)] \subseteq Before(r, i) \cup {UnitsOf(r)[i].mark}
        <4>1. content'[FileOf(r, i)] = AfterUnit(UnitAt(r))
          BY <1>2, <2>1, <2>3 DEF TypeOK, Contents
        <4>. QED  BY <2>3, <3>1, <4>1 DEF AfterUnit, UnitAt, FileOf
      <3>3. ~Creates(r, i) => backup[r][i] = Before(r, i) /\ Before(r, i) # None
        <4>1. ~Creates(r, i) => backup[r][i] = Before(r, i)
          BY <1>3, <2>3, <3>1
        <4>2. Before(r, i) \in SUBSET Marks
          BY <1>1, <1>8, <3>1, UnitData
        <4>. QED  BY <4>1, <4>2, NoneAssumption
      <3>. QED
        BY <1>1, <1>2, <1>4, <2>1, <2>3, <3>1, <3>2, <3>3
        DEF Undoable, Creates, FileOf, Before, UnitsOf, Passed
    <2>. QED  BY <2>2, <2>3
  <1>. QED  BY <1>1, <1>2, <1>5, <1>8 DEF CanUndo, UnitsOf, Alone

\* A rollback step puts back what was before.
LEMMA RestoreUndo ==
  ASSUME TypeOK, Places, NEW r \in Runs, CanUndo(r), RestoreFile(r)
  PROVE  CanUndo(r)'
  <1>. DEFINE n == step[r]
  <1>1. /\ pc[r] = "restore" /\ pc'[r] = "restore" /\ runs[r] # None /\ n \in Nat \ {0}
        /\ n \in DOMAIN UnitsOf(r) /\ n \in UnitIndices /\ FileOf(r, n) \in Files
    BY RestoreFileStep, RollbackUnit DEF Advances, RestoreFile, FileOf, UnitAt, TypeOK
  <1>2. /\ UNCHANGED << runs, backup, written >> /\ step'[r] = n + 1 /\ Restorable(r)
        /\ content' = [content EXCEPT ![FileOf(r, n)] = Restored(r)]
        /\ used'[r].rollbackSteps = used[r].rollbackSteps + 1
    <2>1. used' = [used EXCEPT ![r] = [used[r] EXCEPT !["rollbackSteps"]
                                          = used[r]["rollbackSteps"] + 1]]
      BY DEF RestoreFile, Consume
    <2>. QED  BY <2>1 DEF RestoreFile, FileOf, UnitAt, TypeOK, NoUsage
  <1>3. /\ Frugal(r) /\ used[r].rollbackSteps \in Nat
        /\ \A i \in DOMAIN UnitsOf(r) : Alone(r, i) => Undoable(r, i)
    BY <1>1 DEF CanUndo, Engaged, PipelineLive, TypeOK, NoUsage
  <1>4. Frugal(r)'
    BY <1>1, <1>2, <1>3 DEF Frugal
  <1>5. ASSUME NEW i \in DOMAIN UnitsOf(r), Alone(r, i) PROVE Undoable(r, i)'
    <2>1. Undoable(r, i) /\ FileOf(r, i) \in Files /\ i \in Nat
      BY <1>1, <1>3, <1>5, UnitData
    <2>2. CASE i # n
      <3>1. content'[FileOf(r, i)] = content[FileOf(r, i)]
        BY <1>1, <1>2, <1>5, <2>1, <2>2 DEF TypeOK, Contents, Alone, FileOf
      <3>2. Passed(r, i)' <=> Passed(r, i)
        BY <1>1, <1>2, <2>1, <2>2 DEF Passed
      <3>. QED
        BY <1>1, <1>2, <2>1, <3>1, <3>2 DEF Undoable, Creates, FileOf, Before, UnitsOf
    <2>3. CASE i = n
      <3>1. Restored(r) = Before(r, i)
        BY <1>1, <1>2, <2>1, <2>3
        DEF Undoable, Restorable, Restored, Creates, UnitAt
      <3>2. content'[FileOf(r, i)] = Before(r, i)
        BY <1>1, <1>2, <2>3, <3>1 DEF TypeOK, Contents
      <3>. QED
        BY <1>1, <1>2, <2>1, <2>3, <3>2 DEF Undoable, Creates, FileOf, Before, UnitsOf
    <2>. QED  BY <2>2, <2>3
  <1>. QED  BY <1>1, <1>2, <1>4, <1>5 DEF CanUndo, UnitsOf, Alone

\* A rollback step is only skipped for a unit that was not written: it has its
\* backup otherwise, and the budget lasts.
LEMMA SkipUndo ==
  ASSUME TypeOK, Places, "io" \notin Faults, MaxPatchUnits <= MaxRollbackSteps,
         NEW r \in Runs, CanUndo(r), SkipRestore(r)
  PROVE  CanUndo(r)'
  <1>. DEFINE n == step[r]
  <1>1. /\ pc[r] = "restore" /\ pc'[r] = "restore" /\ runs[r] # None /\ n \in Nat \ {0}
        /\ n \in DOMAIN UnitsOf(r) /\ n \in UnitIndices /\ FileOf(r, n) \in Files
    BY SkipRestoreStep, RollbackUnit DEF Advances, SkipRestore, FileOf, UnitAt, TypeOK
  <1>2. /\ UNCHANGED << runs, content, backup, written >> /\ step'[r] = n + 1
        /\ \/ ~WithinBudget(r, "rollbackSteps", MaxRollbackSteps) /\ UNCHANGED used
           \/ ~Restorable(r) /\ Consume(r, "rollbackSteps")
    BY DEF SkipRestore, TypeOK
  <1>3. used'[r].rollbackSteps \in {used[r].rollbackSteps, used[r].rollbackSteps + 1}
    <2>1. \/ UNCHANGED used
          \/ used' = [used EXCEPT ![r] = [used[r] EXCEPT !["rollbackSteps"]
                                             = used[r]["rollbackSteps"] + 1]]
      BY <1>2 DEF Consume
    <2>. QED  BY <2>1 DEF TypeOK, NoUsage
  <1>4. /\ Frugal(r) /\ used[r].rollbackSteps \in Nat
        /\ \A i \in DOMAIN UnitsOf(r) : Alone(r, i) => Undoable(r, i)
    BY <1>1 DEF CanUndo, Engaged, PipelineLive, TypeOK, NoUsage
  <1>5. Frugal(r)'
    BY <1>1, <1>2, <1>3, <1>4 DEF Frugal
  <1>6. ASSUME NEW i \in DOMAIN UnitsOf(r), Alone(r, i) PROVE Undoable(r, i)'
    <2>1. Undoable(r, i) /\ i \in Nat
      BY <1>1, <1>4, <1>6, UnitData
    <2>2. CASE i # n
      <3>1. Passed(r, i)' <=> Passed(r, i)
        BY <1>1, <1>2, <2>1, <2>2 DEF Passed
      <3>. QED  BY <1>1, <1>2, <2>1, <3>1 DEF Undoable, Creates, FileOf, Before, UnitsOf
    <2>3. CASE i = n
      <3>1. i \notin written[r]
        <4>1. SUFFICES ASSUME i \in written[r] PROVE FALSE
          OBVIOUS
        <4>2. i <= MaxPatchUnits /\ used[r].rollbackSteps < i
          BY <1>1, <1>4, <2>3, <4>1 DEF Frugal
        <4>3. WithinBudget(r, "rollbackSteps", MaxRollbackSteps)
          BY <1>4, <2>1, <4>2, ExecutionAssumption DEF WithinBudget
        <4>4. Restorable(r)
          BY <2>1, <2>3, <4>1 DEF Undoable, Restorable, Creates, UnitAt
        <4>. QED  BY <1>2, <4>3, <4>4
      <3>. QED
        BY <1>1, <1>2, <2>1, <3>1 DEF Undoable, Creates, FileOf, Before, UnitsOf
    <2>. QED  BY <2>2, <2>3
  <1>. QED  BY <1>1, <1>2, <1>5, <1>6 DEF CanUndo, UnitsOf, Alone

-----------------------------------------------------------------------------
(***************************************************************************)
(* Every step.                                                             *)
(***************************************************************************)
LEMMA StartUndo ==
  ASSUME TypeOK, Places, NEW r \in Runs, NEW p \in Proposals, NEW dryRun \in BOOLEAN,
         Start(r, p, dryRun)
  PROVE  CanUndo(r)'
  <1>1. /\ pc[r] = "none" /\ pc'[r] = "validate" /\ UNCHANGED << backup, written >>
        /\ used'[r] = NoUsage
    BY StartStep DEF Start, TypeOK
  <1>2. written'[r] = {} /\ \A i \in UnitIndices : backup'[r][i] = None
    BY <1>1 DEF Places, PlaceOK
  <1>. QED  BY <1>1, <1>2 DEF CanUndo, Frugal, NoUsage

\* What the steps of the system need of the other invariants.
Settled == Base /\ Undecided /\ Originals /\ Exclusive

Undo == \A r \in Runs : CanUndo(r)

LEMMA UndoStep ==
  ASSUME Settled, Undo, "io" \notin Faults, MaxPatchUnits <= MaxRollbackSteps, FilesApart,
         [Next]_vars
  PROVE  Undo'
  <1>. TypeOK /\ Places /\ Undecided /\ Exclusive
    BY DEF Settled, Base
  <1>. SUFFICES ASSUME NEW q \in Runs PROVE CanUndo(q)'
    BY DEF Undo
  <1>0. CanUndo(q) /\ Ready(q)
    BY DEF Undo, Settled, Originals
  <1>1. ASSUME NEW r \in Runs, NEW p \in Proposals, NEW dryRun \in BOOLEAN, Start(r, p, dryRun)
        PROVE  CanUndo(q)'
    <2>1. Turn(r) /\ UsesKeep(r) /\ UNCHANGED content
      BY <1>1, StartStep, ActUses
    <2>2. CASE q = r
      BY <1>1, <2>2, StartUndo
    <2>3. CASE q # r
      BY <1>0, <2>1, <2>3, OthersUndo
    <2>. QED  BY <2>2, <2>3
  <1>2. ASSUME NEW r \in Runs, Acts(r) PROVE CanUndo(q)'
    <2>1. TypeOK' /\ Turn(r) /\ UsesKeep(r)
      BY <1>2, ActStep, ActUses
    <2>2. CASE q # r
      <3>1. \/ UNCHANGED content
            \/ /\ Engaged(r)
               /\ \A f \in Files : content'[f] = content[f] \/ f \in FilesOf(r)
        BY <1>2, ActContent
      <3>. QED  BY <1>0, <2>1, <2>2, <3>1, OthersUndo
    <2>3. CASE q = r
      <3>. SUFFICES ASSUME Engaged(q)' PROVE CanUndo(q)'
        BY DEF CanUndo
      <3>1. \/ Validate(q) \/ BuildPlan(q) \/ BackupUnit(q) \/ WriteUnit(q)
            \/ RestoreFile(q) \/ SkipRestore(q)
            \/ Quiet(q) /\ Engaged(q)
        BY <1>2, <2>3, CalmStep
      <3>. QED
        BY <1>0, <2>1, <3>1, ValidateUndo, BuildPlanUndo, BackupUndo, WriteUndo, RestoreUndo,
           SkipUndo, QuietUndo
    <2>. QED  BY <2>2, <2>3
  <1>3. ASSUME NEW r \in Runs, Recover(r) PROVE CanUndo(q)'
    <2>1. Places' /\ ~up'
      BY <1>3, RecoverStep DEF process
    <2>2. ~Engaged(q)'
      BY <2>1 DEF Places, Recovering, PlaceOK, Engaged
    <2>. QED  BY <2>2 DEF CanUndo
  <1>4. CASE Crash
    BY <1>4, CrashStep DEF CanUndo, Engaged
  <1>5. ASSUME UNCHANGED << runs, used, pc, step, content, backup, written >>
        PROVE  CanUndo(q)'
    BY <1>0, <1>5
    DEF CanUndo, Engaged, PipelineLive, Frugal, Undoable, Alone, Creates, Before, FileOf, Passed,
        UnitsOf
  <1>6. ASSUME NEW s \in Subsystems, CooldownExpires(s)
        PROVE  UNCHANGED << runs, used, pc, step, content, backup, written >>
    BY <1>6 DEF CooldownExpires, pipeline
  <1>7. Boot \/ UNCHANGED vars => UNCHANGED << runs, used, pc, step, content, backup, written >>
    BY DEF Boot, vars, memory, pipeline, disk
  <1>. QED  BY <1>1, <1>2, <1>3, <1>4, <1>5, <1>6, <1>7, NextCases

\* A run that may still fail can be undone, file by file, whatever it has done
\* so far (ApplyEngine.apply, RollbackEngine.rollback): the invariant of the
\* theorems below, under their conditions.
THEOREM UndoHolds ==
  ASSUME "abort" \notin Faults \/ ManualReview = {}, "io" \notin Faults,
         MaxPatchUnits <= MaxRollbackSteps, FilesApart
  PROVE  Spec => [](Settled /\ Undo)
  <1>1. Spec => []Exclusive
    BY ExclusiveHolds
  <1>2. Base /\ Originals /\ [Next]_vars => Originals'
    BY OriginalStep
  <1>3. Settled /\ Undo /\ [Next]_vars => Undo'
    BY UndoStep
  <1>4. Init => Undo
    BY DEF Init, Undo, CanUndo, Engaged
  <1>5. Settled <=> Base /\ Undecided /\ Originals /\ Exclusive
    BY DEF Settled
  <1>. QED
    BY <1>1, <1>2, <1>3, <1>4, <1>5, InitOriginals, BaseHolds, UndecidedHolds, PTL DEF Spec

-----------------------------------------------------------------------------
(***************************************************************************)
(* A failed run leaves no trace.                                           *)
(***************************************************************************)
\* A file that one unit of the plan touches has a unit that is alone on it.
LEMMA SingleUnit ==
  ASSUME TypeOK, NEW r \in Runs, runs[r] # None, NEW f \in SingleUnitFiles(r)
  PROVE  \E i \in DOMAIN UnitsOf(r) : FileOf(r, i) = f /\ Alone(r, i)
  <1>. DEFINE S == {i \in DOMAIN UnitsOf(r) : UnitsOf(r)[i].file = f}
  <1>1. IsFiniteSet(S)
    <2>1. IsFiniteSet(DOMAIN UnitsOf(r))
      BY RunData, FS_Interval
    <2>. QED  BY <2>1, FS_Subset
  <1>2. Cardinality(S) = 1
    BY DEF SingleUnitFiles, SingleUnitFilesOfPlan, UnitsOf
  <1>3. PICK i : S = {i}
    BY <1>1, <1>2, FS_Singleton
  <1>. QED  BY <1>3 DEF FileOf, Alone

\* Where a pipeline ends a run in failure.
Fails(r) ==
    \/ runs'[r].status = runs[r].status
    \/ runs'[r].status \notin {"rolled_back", "aborted"}
    \/ BuildPlan(r)
    \/ FinishRollback(r)

LEMMA WorkFails ==
  ASSUME TypeOK, Places, NEW r \in Runs, Works(r)
  PROVE  Fails(r)
  <1>1. runs[r] # None /\ runs[r] \in RunRecords
    BY WorkStep DEF Advances, TypeOK
  <1>2. CASE Validate(r)
    <2>1. runs'[r] = [runs[r] EXCEPT !.status = "validating", !.snapshot = content]
      BY <1>2, ValidateStep, Zenon DEF Recorded
    <2>2. runs'[r].status = "validating"
      BY <1>1, <2>1 DEF RunRecords
    <2>. QED  BY <2>2 DEF Fails
  <1>3. CASE BeginApply(r) \/ BeginRollback(r)
    <2>1. \E st \in {"applying", "rolling_back"} : runs'[r] = [runs[r] EXCEPT !.status = st]
      BY <1>3, BeginApplyStep, BeginRollbackStep, Zenon DEF Recorded
    <2>2. runs'[r].status \in {"applying", "rolling_back"}
      BY <1>1, <2>1 DEF RunRecords
    <2>. QED  BY <2>2 DEF Fails
  <1>4. CASE ApplyDone(r)
    <2>1. \E st \in {"rollback_pending", "succeeded", "verifying"} :
             runs'[r] = [runs[r] EXCEPT !.status = st]
      BY <1>4, ApplyDoneStep, Zenon DEF Recorded
    <2>2. runs'[r].status \in {"rollback_pending", "succeeded", "verifying"}
      BY <1>1, <2>1 DEF RunRecords
    <2>. QED  BY <2>2 DEF Fails
  <1>5. CASE Judge(r)
    <2>1. /\ Judged(r) \in RunRecords /\ Judged(r).status = runs[r].status
          /\ \/ runs'[r] = Judged(r)
             \/ \E st \in {"failed_verification", "succeeded"} :
                   runs'[r] = [Judged(r) EXCEPT !.status = st]
      BY <1>1, <1>5, JudgedData, JudgeStep, Zenon DEF Recorded
    <2>2. runs'[r].status \in {runs[r].status, "failed_verification", "succeeded"}
      BY <2>1 DEF RunRecords
    <2>. QED  BY <2>2 DEF Fails
  <1>6. CASE UnitRefused(r) \/ UnitThrows(r)
    <2>1. runs' = [runs EXCEPT ![r].allUnitsApplied = FALSE]
      BY <1>6 DEF UnitRefused, UnitThrows
    <2>. QED  BY <1>1, <2>1, FailedUnit DEF Fails
  <1>7. BackupUnit(r) \/ RunCommand(r) \/ RestoreFile(r) \/ SkipRestore(r)
        => UNCHANGED runs
    BY DEF BackupUnit, RunCommand, RestoreFile, SkipRestore
  <1>8. WriteUnit(r) \/ EndChecks(r) \/ (\E passed \in BOOLEAN : CommandReturns(r, passed))
        => UNCHANGED runs
    BY DEF WriteUnit, EndChecks, CommandReturns, memory
  <1>9. UNCHANGED runs => Fails(r)
    BY DEF Fails
  <1>. QED
    BY <1>2, <1>3, <1>4, <1>5, <1>6, <1>7, <1>8, <1>9, Zenon DEF Works, PipelineStep, Fails

\* Only these two steps end a run in failure, when no user aborts it.
LEMMA NextFails ==
  ASSUME Settled, "abort" \notin Faults, [Next]_vars, NEW r \in Runs, up,
         Becomes(r, "rolled_back") \/ Becomes(r, "aborted")
  PROVE  BuildPlan(r) \/ FinishRollback(r)
  <1>. TypeOK /\ Places /\ Undecided
    BY DEF Settled, Base
  <1>0. /\ runs[r] # None /\ runs'[r] # None /\ runs'[r].status # runs[r].status
        /\ runs'[r].status \in {"rolled_back", "aborted"}
    BY DEF Becomes
  <1>1. ASSUME NEW q \in Runs, NEW p \in Proposals, NEW dryRun \in BOOLEAN, Start(q, p, dryRun)
        PROVE  FALSE
    BY <1>0, <1>1, StartStep DEF Turn, OthersKeep
  <1>2. ASSUME NEW q \in Runs, Acts(q) PROVE BuildPlan(r) \/ FinishRollback(r)
    <2>1. q = r
      BY <1>0, <1>2, ActStep DEF Turn, OthersKeep
    <2>2. CASE Works(r)
      BY <1>0, <2>2, WorkFails DEF Fails
    <2>3. ~UserAbort(r)
      BY DEF UserAbort
    <2>4. ASSUME NEW passed \in BOOLEAN, ManualCheck(r, passed) PROVE FALSE
      <3>1. /\ runs[r] \in RunRecords /\ Checked(r, passed) \in RunRecords
            /\ Checked(r, passed).status = runs[r].status
            /\ \/ runs'[r] = Checked(r, passed)
               \/ \E st \in {"succeeded", "failed_verification"} :
                     runs'[r] = [Checked(r, passed) EXCEPT !.status = st]
        BY <2>4, ManualCheckStep, CheckedData, Zenon DEF Recorded
      <3>2. runs'[r].status \in {runs[r].status, "succeeded", "failed_verification"}
        BY <3>1 DEF RunRecords
      <3>. QED  BY <1>0, <3>2
    <2>. QED  BY <1>2, <2>1, <2>2, <2>3, <2>4 DEF Acts
  <1>3. ASSUME NEW q \in Runs, Recover(q) PROVE FALSE
    BY <1>3, RecoverStep
  <1>4. CASE Crash
    BY <1>0, <1>4, CrashStep
  <1>5. ASSUME NEW s \in Subsystems, CooldownExpires(s) PROVE UNCHANGED runs
    BY <1>5 DEF CooldownExpires
  <1>6. Boot \/ UNCHANGED vars => UNCHANGED runs
    BY DEF Boot, memory, vars
  <1>. QED  BY <1>0, <1>1, <1>2, <1>3, <1>4, <1>5, <1>6, NextCases

\* What FailureLeavesNoTrace says of one step.
TraceStep ==
    \A r \in Runs :
        up /\ (Becomes(r, "rolled_back") \/ Becomes(r, "aborted"))
        /\ runs[r].snapshot # None
            => \A f \in SingleUnitFiles(r) : content'[f] = runs[r].snapshot[f]

\* A run that fails leaves the files it touched once as in its snapshot.
LEMMA NextUndone ==
  ASSUME Settled, Undo, "abort" \notin Faults, [Next]_vars, NEW r \in Runs, up,
         Becomes(r, "rolled_back") \/ Becomes(r, "aborted"), NEW f \in SingleUnitFiles(r)
  PROVE  content'[f] = runs[r].snapshot[f]
  <1>. TypeOK /\ Places
    BY DEF Settled, Base
  <1>1. runs[r] # None /\ CanUndo(r) /\ Ready(r)
    BY DEF Becomes, Undo, Settled, Originals
  <1>2. PICK i \in DOMAIN UnitsOf(r) : FileOf(r, i) = f /\ Alone(r, i)
    BY <1>1, SingleUnit
  <1>3. CASE BuildPlan(r)
    <2>1. pc[r] = "plan" /\ UNCHANGED content
      BY <1>3, BuildPlanStep DEF BuildPlan
    <2>2. Undoable(r, i) /\ i \notin written[r]
      BY <1>1, <1>2, <2>1 DEF CanUndo, Engaged, PipelineLive, Ready
    <2>. QED  BY <1>2, <2>1, <2>2 DEF Undoable, Before
  <1>4. CASE FinishRollback(r)
    <2>1. pc[r] = "restore" /\ UNCHANGED content /\ ~RollbackStepsLeft(r)
      BY <1>4, FinishRollbackStep DEF FinishRollback
    <2>2. Undoable(r, i)
      BY <1>1, <1>2, <2>1 DEF CanUndo, Engaged, PipelineLive
    <2>3. Passed(r, i)
      BY <1>1, <1>2, <2>1, RunData DEF RollbackStepsLeft, Passed, TypeOK
    <2>. QED  BY <1>2, <2>1, <2>2, <2>3 DEF Undoable, Before
  <1>. QED  BY <1>3, <1>4, NextFails

LEMMA NextTrace ==
  ASSUME Settled, Undo, "abort" \notin Faults, [Next]_vars
  PROVE  TraceStep
  BY NextUndone DEF TraceStep

\* A run that ends rolled back or aborted leaves the files it touched once as
\* they were when it began (RollbackEngine.rollback): for any plans, budgets
\* and verdicts, and whenever the process dies.  The conditions are needed:
\* a user's abort rolls nothing back, a file system that refuses a write may
\* leave a part of it, a rollback has to have steps for what was applied (the
\* code's budgets are 10 and 10), and nothing but the plans keeps the runs of
\* two subsystems from changing one file.
THEOREM FailuresLeaveNoTrace ==
  ASSUME "abort" \notin Faults, "io" \notin Faults, MaxPatchUnits <= MaxRollbackSteps, FilesApart
  PROVE  Spec => FailureLeavesNoTrace
  <1>1. Spec => [](Settled /\ Undo)
    BY UndoHolds
  <1>2. Settled /\ Undo /\ [Next]_vars => [TraceStep]_vars
    BY NextTrace
  <1>3. Spec => [][TraceStep]_vars
    BY <1>1, <1>2, PTL DEF Spec
  <1>. QED  BY <1>3, PTL DEF FailureLeavesNoTrace, TraceStep

-----------------------------------------------------------------------------
(***************************************************************************)
(* A rollback undoes the changes of its own run.                           *)
(***************************************************************************)
\* What CommittedChangesSurvive says of one step.
SurviveStep ==
    \A r, q \in Runs :
        At(r, "restore") /\ up' /\ q # r =>
            \A f \in Files \ (FilesOf(r) \ SingleUnitFiles(r)) :
                content[f] \cap Committed(q, f) \subseteq content'[f] \cup Inserted(r, f)

LEMMA NextSurvive ==
  ASSUME Settled, Undo, "io" \notin Faults, [Next]_vars
  PROVE  SurviveStep
  <1>. TypeOK /\ Places
    BY DEF Settled, Base
  <1>. SUFFICES ASSUME NEW r \in Runs, At(r, "restore"), up',
                       NEW f \in Files \ (FilesOf(r) \ SingleUnitFiles(r))
                PROVE  content[f] \subseteq content'[f] \cup Inserted(r, f)
    BY DEF SurviveStep
  <1>1. /\ cpu = r /\ pc[r] = "restore" /\ runs[r] # None /\ CanUndo(r)
    BY AtWork DEF Undo, Points
  <1>2. UNCHANGED content => content[f] \subseteq content'[f] \cup Inserted(r, f)
    OBVIOUS
  <1>3. CASE RestoreFile(r)
    <2>. DEFINE n == step[r]
    <2>1. /\ n \in DOMAIN UnitsOf(r) /\ n \in UnitIndices /\ FileOf(r, n) \in FilesOf(r)
          /\ content' = [content EXCEPT ![FileOf(r, n)] = Restored(r)]
          /\ Restorable(r)
      BY <1>3, RollbackUnit DEF RestoreFile, FileOf, FilesOf, FilesOfPlan, UnitsOf, UnitAt
    <2>2. CASE f # FileOf(r, n)
      BY <2>1, <2>2 DEF TypeOK, Contents
    <2>3. CASE f = FileOf(r, n)
      <3>1. PICK i \in DOMAIN UnitsOf(r) : FileOf(r, i) = f /\ Alone(r, i)
        BY <1>1, <2>1, <2>3, SingleUnit
      <3>2. Alone(r, n) /\ f = FileOf(r, n)
        BY <2>1, <2>3, <3>1 DEF Alone, FileOf
      <3>3. Undoable(r, n)
        BY <1>1, <2>1, <3>2 DEF CanUndo, Engaged, PipelineLive
      <3>4. content'[f] = Before(r, n)
        <4>1. Restored(r) = Before(r, n)
          BY <1>1, <2>1, <3>3 DEF Undoable, Restorable, Restored, Creates, UnitAt
        <4>. QED  BY <2>1, <2>3, <4>1 DEF TypeOK, Contents
      <3>5. CASE n \in written[r]
        <4>1. UnitsOf(r)[n].mark \in Inserted(r, f)
          BY <2>3, <3>5 DEF Inserted, FileOf
        <4>. QED  BY <2>3, <3>3, <3>4, <3>5, <4>1 DEF Undoable
      <3>6. CASE n \notin written[r]
        BY <2>3, <3>3, <3>4, <3>6 DEF Undoable
      <3>. QED  BY <3>5, <3>6
    <2>. QED  BY <2>2, <2>3
  <1>4. ASSUME NEW s \in Runs, Acts(s) PROVE UNCHANGED content \/ RestoreFile(r)
    <2>1. s = r
      BY <1>1, <1>4, ActStep, NoneAssumption DEF Turn
    <2>2. ~WriteUnit(r) /\ ~UnitThrows(r)
      BY <1>1 DEF WriteUnit, UnitThrows, At
    <2>3. SkipRestore(r) => UNCHANGED content
      BY DEF SkipRestore
    <2>. QED  BY <1>4, <2>1, <2>2, <2>3, ActChanges
  <1>5. ASSUME NEW s \in Runs, NEW p \in Proposals, NEW dryRun \in BOOLEAN, Start(s, p, dryRun)
        PROVE  UNCHANGED content
    BY <1>5, StartStep
  <1>6. ASSUME NEW s \in Runs, Recover(s) PROVE UNCHANGED content
    BY <1>6, RecoverStep
  <1>7. ~Crash
    BY CrashStep
  <1>8. ASSUME NEW s \in Subsystems, CooldownExpires(s) PROVE UNCHANGED content
    BY <1>8 DEF CooldownExpires
  <1>9. Boot \/ UNCHANGED vars => UNCHANGED content
    BY DEF Boot, disk, vars
  <1>. QED  BY <1>2, <1>3, <1>4, <1>5, <1>6, <1>7, <1>8, <1>9, NextCases

\* What a successful run put into a file outlives the steps of every other
\* run's rollback (RollbackEngine.rollback), under the conditions above; a
\* user's abort breaks it where runs wait for a manual check.
THEOREM CommittedSurvives ==
  ASSUME "abort" \notin Faults \/ ManualReview = {}, "io" \notin Faults,
         MaxPatchUnits <= MaxRollbackSteps, FilesApart
  PROVE  Spec => CommittedChangesSurvive
  <1>1. Spec => [](Settled /\ Undo)
    BY UndoHolds
  <1>2. Settled /\ Undo /\ [Next]_vars => [SurviveStep]_vars
    BY NextSurvive
  <1>3. Spec => [][SurviveStep]_vars
    BY <1>1, <1>2, PTL DEF Spec
  <1>. QED  BY <1>3, PTL DEF CommittedChangesSurvive, SurviveStep
==============================================================================
