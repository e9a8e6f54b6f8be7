--------------------------- MODULE ChangeExecution ---------------------------
(***************************************************************************)
(* Controlled execution of promoted proposals:                             *)
(* electron/services/execution/ExecutionOrchestrator.ts with its run       *)
(* registry, budget, patch plan builder, apply, verification and rollback  *)
(* engines and run store.                                                  *)
(*                                                                         *)
(* The main process is one JavaScript thread.  From start() to the first   *)
(* verification command, and from a command's return to the next one, the  *)
(* pipeline of a run only awaits promises that are already settled, so no  *)
(* IPC call can come between: cpu names the run whose turn it is.  Only    *)
(* the process can die there, and it may die between any two file          *)
(* operations or inside one.                                               *)
(*                                                                         *)
(* A file's content is a set of marks: the text fragments that patches     *)
(* search for and insert.  The empty set is an absent file.                *)
(***************************************************************************)
EXTENDS Naturals, Sequences, FiniteSets

CONSTANTS
    Runs,                 \* executionIds, each used for one run
    Proposals,            \* proposals that pass the gate's checks of the
                          \* proposal itself (1, 2, 5-7, 9, 10)
    Subsystems, Files, Marks,
    Subsystem,            \* proposal -> targetSubsystem
    Units,                \* proposal -> sequence of changes
    Checks,               \* proposal -> sequence of verification commands
    ManualReview,         \* proposals with manualReviewRequired
    Immutable,            \* files whose protection forbids staged edits
    InitialContent,       \* file -> marks
    Torn,                 \* the mark of a half-written file
    None, Unreadable,
    MaxPatchUnits, MaxFileMutations, MaxVerificationSteps, MaxRollbackSteps,
    Faults,               \* which of "abort", "timeout", "io", "save" may happen
    MaxCrashes            \* bound: process deaths

UnitTypes == {"patch", "overwrite", "create"}

\* A patch replaces its anchor by its mark; an overwrite and a create leave
\* the mark alone in the file.
ChangeUnits == [type : UnitTypes, file : Files, anchor : Marks, mark : Marks]

\* "disallowed" is a command SafeCommandService refuses; only test patterns
\* and smoke checks can be, and those are not critical.
CheckKinds == {"critical", "advisory", "disallowed"}

UnitIndices == UNION {DOMAIN Units[p] : p \in Proposals}
CheckIndices == UNION {DOMAIN Checks[p] : p \in Proposals}

ASSUME ExecutionAssumption ==
    /\ Subsystem \in [Proposals -> Subsystems]
    /\ Units \in [Proposals -> Seq(ChangeUnits) \ {<<>>}]
    /\ Checks \in [Proposals -> Seq(CheckKinds) \ {<<>>}]
    /\ ManualReview \subseteq Proposals
    /\ Immutable \subseteq Files
    /\ InitialContent \in [Files -> SUBSET Marks]
    /\ Torn \in Marks
    /\ {MaxPatchUnits, MaxFileMutations, MaxVerificationSteps,
        MaxRollbackSteps} \subseteq Nat \ {0}
    /\ MaxCrashes \in Nat
    /\ Faults \subseteq {"abort", "timeout", "io", "save"}

ActiveStatuses == {"pending_execution", "validating", "ready_to_apply", "applying",
                   "verifying", "failed_verification", "rollback_pending", "rolling_back"}

TerminalStatuses == {"succeeded", "rolled_back", "aborted"}

Statuses == ActiveStatuses \cup TerminalStatuses

VARIABLES
    runs,     \* the registry's run records, in memory
    saved,    \* execution/runs/<executionId>.json
    lock,     \* activeLocks: subsystem -> run
    cooling,  \* subsystems in cooldown
    used,     \* usageMap: budget consumed by a run
    pc, step, \* where the pipeline of a run is, and the unit, command or
              \* rollback step it is at
    verdict,  \* local results of VerificationRunner.run
    lost,     \* filesNotRestored of RollbackEngine.rollback
    cpu,      \* the run whose turn it is, or None
    content,  \* the workspace
    backup,   \* execution/backups/<executionId>/<unitId>.bak
    written,  \* history: units whose write reached the workspace
    up, crashes

memory == << runs, lock, cooling, used >>
pipeline == << pc, step, verdict, lost, cpu >>
disk == << saved, content, backup, written >>
process == << up, crashes >>
vars == << memory, pipeline, disk, process >>

NoUsage == [patchUnits |-> 0, fileMutations |-> 0, verificationSteps |-> 0, rollbackSteps |-> 0]

NoVerdict == [passed |-> {}, failed |-> {}, blocked |-> FALSE, timedOut |-> FALSE]

\* runs[r].verificationResult while there is none.
NoResult == [done |-> FALSE, verdict |-> NoVerdict, overallPassed |-> FALSE,
             manualCheckRecorded |-> FALSE]

\* Mutant: a new run has the status that only start()'s answer may have.
NewRun_Mutant(p, dryRun) ==
    [proposal |-> p, status |-> "execution_blocked", dryRun |-> dryRun,
     abortReason |-> "none", snapshot |-> None, allUnitsApplied |-> TRUE,
     verification |-> NoResult]

NewRun(p, dryRun) ==
    [proposal |-> p, status |-> "pending_execution", dryRun |-> dryRun,
     abortReason |-> "none", snapshot |-> None, allUnitsApplied |-> TRUE,
     verification |-> NoResult]

-----------------------------------------------------------------------------
UnitsOf(r) == Units[runs[r].proposal]
ChecksOf(r) == Checks[runs[r].proposal]
UnitAt(r) == UnitsOf(r)[step[r]]
SubsystemOf(r) == Subsystem[runs[r].proposal]

\* It is run r's turn, and its pipeline is at the given point.
At(r, point) == up /\ cpu = r /\ pc[r] = point

\* No handler is running: the event loop may take the next call.
EventLoopFree == up /\ cpu = None

Goto(r, point) == pc' = [pc EXCEPT ![r] = point]

\* The pipeline function returns, and with it the turn.
Return(r) == Goto(r, "done") /\ cpu' = None

\* ExecutionBudgetManager.consume: allowed, and then counted.
WithinBudget(r, field, limit) == used[r][field] < limit

Consume(r, field) == used' = [used EXCEPT ![r][field] = @ + 1]

\* saveRun: a run file that cannot be written is logged, and forgotten.
Save(r, run) ==
    \/ saved' = [saved EXCEPT ![r] = run]
    \/ "save" \in Faults /\ UNCHANGED saved

\* Mutant: the list of terminal statuses forgets 'rolled_back'.
Transition_MutantTerminal(r, run) ==
    /\ runs' = [runs EXCEPT ![r] = run]
    /\ saved' = [saved EXCEPT ![r] = run]
    /\ IF run.status \in {"succeeded", "aborted"}
         THEN /\ lock' = [lock EXCEPT ![Subsystem[run.proposal]] = None]
              /\ cooling' = cooling \cup {Subsystem[run.proposal]}
              /\ used' = [used EXCEPT ![r] = NoUsage]
         ELSE UNCHANGED << lock, cooling, used >>

\* Mutant: only a success starts a cooldown.
Transition_MutantCooldown(r, run) ==
    /\ runs' = [runs EXCEPT ![r] = run]
    /\ saved' = [saved EXCEPT ![r] = run]
    /\ cooling' = IF run.status = "succeeded"
                    THEN cooling \cup {Subsystem[run.proposal]} ELSE cooling
    /\ IF run.status \in TerminalStatuses
         THEN /\ lock' = [lock EXCEPT ![Subsystem[run.proposal]] = None]
              /\ used' = [used EXCEPT ![r] = NoUsage]
         ELSE UNCHANGED << lock, used >>

\* _transitionStatus: registry, run file, and on a terminal status the lock is
\* deleted, whoever holds it, and the cooldown starts.
Transition(r, run) ==
    /\ runs' = [runs EXCEPT ![r] = run]
    /\ Save(r, run)
    /\ IF run.status \in TerminalStatuses
         THEN /\ lock' = [lock EXCEPT ![Subsystem[run.proposal]] = None]
              /\ cooling' = cooling \cup {Subsystem[run.proposal]}
              /\ used' = [used EXCEPT ![r] = NoUsage]
         ELSE UNCHANGED << lock, cooling, used >>

\* Mutant: a run counts as active until it has applied its units.
IsSubsystemLocked_Mutant(s) ==
    /\ lock[s] # None
    /\ runs[lock[s]] # None
    /\ runs[lock[s]].status \in {"pending_execution", "validating", "ready_to_apply", "applying"}

\* isSubsystemLocked
IsSubsystemLocked(s) ==
    /\ lock[s] # None
    /\ runs[lock[s]] # None
    /\ runs[lock[s]].status \in ActiveStatuses

-----------------------------------------------------------------------------
(***************************************************************************)
(* start(): the gate's registry checks, then the run record.               *)
(***************************************************************************)
\* Mutant: the gate does not look at the cooldown.
Start_Mutant(r, p, dryRun) ==
    /\ EventLoopFree
    /\ pc[r] = "none"
    /\ ~IsSubsystemLocked(Subsystem[p])
    /\ runs' = [runs EXCEPT ![r] = NewRun(p, dryRun)]
    /\ saved' = [saved EXCEPT ![r] = NewRun(p, dryRun)]
    /\ lock' = [lock EXCEPT ![Subsystem[p]] = r]
    /\ used' = [used EXCEPT ![r] = NoUsage]
    /\ cpu' = r
    /\ Goto(r, "validate")
    /\ UNCHANGED << cooling, step, verdict, lost, content, backup, written, process >>

Start(r, p, dryRun) ==
    /\ EventLoopFree
    /\ pc[r] = "none"
    /\ ~IsSubsystemLocked(Subsystem[p])
    /\ Subsystem[p] \notin cooling
    /\ runs' = [runs EXCEPT ![r] = NewRun(p, dryRun)]
    /\ Save(r, NewRun(p, dryRun))
    /\ lock' = [lock EXCEPT ![Subsystem[p]] = r]
    /\ used' = [used EXCEPT ![r] = NoUsage]
    /\ cpu' = r
    /\ Goto(r, "validate")
    /\ UNCHANGED << cooling, step, verdict, lost, content, backup, written, process >>

\* 'validating', and the execution-time snapshot.  The snapshot cannot be
\* incompatible: the gate tested the same invariants in the same turn.
Validate(r) ==
    /\ At(r, "validate")
    /\ Transition(r, [runs[r] EXCEPT !.status = "validating", !.snapshot = content])
    /\ Goto(r, "plan")
    /\ UNCHANGED << step, verdict, lost, cpu, content, backup, written, process >>

\* PatchPlanBuilder._dryRun: each unit is tried on the file as it is now, not
\* as the units before it will leave it.
UnitApplicable(u) ==
    CASE u.type = "create"    -> content[u.file] = {}
      [] u.type = "overwrite" -> content[u.file] # {}
      [] u.type = "patch"     -> u.anchor \in content[u.file]

\* build() succeeds: no immutable file, and the dry run finds no issue.
PlanApplicable(r) ==
    \A i \in DOMAIN UnitsOf(r) :
        UnitsOf(r)[i].file \notin Immutable /\ UnitApplicable(UnitsOf(r)[i])

BuildPlan(r) ==
    /\ At(r, "plan")
    /\ IF PlanApplicable(r)
         THEN /\ Transition(r, [runs[r] EXCEPT !.status = "ready_to_apply"])
              /\ Goto(r, "begin")
              /\ UNCHANGED cpu
         ELSE /\ Transition(r, [runs[r] EXCEPT !.status = "aborted",
                                               !.abortReason = "pipeline"])
              /\ Return(r)
    /\ UNCHANGED << step, verdict, lost, content, backup, written, process >>

\* Mutant: 'applying' is in the registry, and not yet in the run file.
BeginApply_Mutant(r) ==
    /\ At(r, "begin")
    /\ runs' = [runs EXCEPT ![r].status = "applying"]
    /\ Goto(r, IF runs[r].dryRun THEN "applied" ELSE "backup")
    /\ step' = [step EXCEPT ![r] = 1]
    /\ UNCHANGED << lock, cooling, used, saved, verdict, lost, cpu, content, backup, written, process >>

\* Mutant: the apply engine does not look at the dry-run flag.
BeginApply_MutantDryRun(r) ==
    /\ At(r, "begin")
    /\ Transition(r, [runs[r] EXCEPT !.status = "applying"])
    /\ Goto(r, "backup")
    /\ step' = [step EXCEPT ![r] = 1]
    /\ UNCHANGED << verdict, lost, cpu, content, backup, written, process >>

\* 'applying' is saved before the first file operation.  A dry run ends the
\* apply engine at once: the plan had no issue.
BeginApply(r) ==
    /\ At(r, "begin")
    /\ Transition(r, [runs[r] EXCEPT !.status = "applying"])
    /\ Goto(r, IF runs[r].dryRun THEN "applied" ELSE "backup")
    /\ step' = [step EXCEPT ![r] = 1]
    /\ UNCHANGED << verdict, lost, cpu, content, backup, written, process >>

-----------------------------------------------------------------------------
(***************************************************************************)
(* ApplyEngine.apply: units in order, the first failure stops it.          *)
(***************************************************************************)
FilesChanged(r) == {UnitsOf(r)[i].file : i \in written[r]}

UnitWithinBudget(r) ==
    /\ WithinBudget(r, "patchUnits", MaxPatchUnits)
    /\ \/ UnitAt(r).file \in FilesChanged(r)
       \/ WithinBudget(r, "fileMutations", MaxFileMutations)

UnitTargetFits(u) ==
    IF u.type = "create" THEN content[u.file] = {} ELSE content[u.file] # {}

\* Mutant: an overwrite makes no backup.
BackupUnit_Mutant(r) ==
    /\ At(r, "backup")
    /\ UnitWithinBudget(r)
    /\ UnitTargetFits(UnitAt(r))
    /\ used' = [used EXCEPT ![r].patchUnits = @ + 1,
                            ![r].fileMutations =
                                IF UnitAt(r).file \in FilesChanged(r) THEN @ ELSE @ + 1]
    /\ backup' = IF UnitAt(r).type # "patch" THEN backup
                 ELSE [backup EXCEPT ![r][step[r]] = content[UnitAt(r).file]]
    /\ Goto(r, "write")
    /\ UNCHANGED << runs, lock, cooling, step, verdict, lost, cpu, saved, content, written, process >>

\* Budgets, the existence test, and the backup of a patch or an overwrite.
BackupUnit(r) ==
    /\ At(r, "backup")
    /\ UnitWithinBudget(r)
    /\ UnitTargetFits(UnitAt(r))
    /\ used' = [used EXCEPT ![r].patchUnits = @ + 1,
                            ![r].fileMutations =
                                IF UnitAt(r).file \in FilesChanged(r) THEN @ ELSE @ + 1]
    /\ backup' = IF UnitAt(r).type = "create" THEN backup
                 ELSE [backup EXCEPT ![r][step[r]] = content[UnitAt(r).file]]
    /\ Goto(r, "write")
    /\ UNCHANGED << runs, lock, cooling, step, verdict, lost, cpu, saved, content, written, process >>

SearchFound(u) == u.type = "patch" => u.anchor \in content[u.file]

\* What a unit makes of the file's content.
AfterUnit(u) ==
    IF u.type = "patch" THEN (content[u.file] \ {u.anchor}) \cup {u.mark} ELSE {u.mark}

WriteUnit(r) ==
    /\ At(r, "write")
    /\ SearchFound(UnitAt(r))
    /\ content' = [content EXCEPT ![UnitAt(r).file] = AfterUnit(UnitAt(r))]
    /\ written' = [written EXCEPT ![r] = @ \cup {step[r]}]
    /\ step' = [step EXCEPT ![r] = @ + 1]
    /\ Goto(r, IF step[r] = Len(UnitsOf(r)) THEN "applied" ELSE "backup")
    /\ UNCHANGED << memory, verdict, lost, cpu, saved, backup, process >>

\* A unit is refused by a budget (the time budget never refuses the first one),
\* by the state of its file or by a search text that an earlier unit removed.
\* What it consumed is never read again.
UnitRefused(r) ==
    /\ \/ At(r, "backup") /\ ~(UnitWithinBudget(r) /\ UnitTargetFits(UnitAt(r)))
       \/ At(r, "backup") /\ step[r] > 1 /\ "timeout" \in Faults
       \/ At(r, "write") /\ ~SearchFound(UnitAt(r))
    /\ runs' = [runs EXCEPT ![r].allUnitsApplied = FALSE]
    /\ Goto(r, "applied")
    /\ UNCHANGED << lock, cooling, used, step, verdict, lost, cpu, disk, process >>

HalfWriteFile(f) == content' = [content EXCEPT ![f] = {Torn}]

HalfWriteBackup(r) == backup' = [backup EXCEPT ![r][step[r]] = {Torn}]

\* The file system refuses a unit's backup or its write, as a full disk does:
\* before the first byte or after some.  The catch of _applyUnit fails the unit.
UnitThrows(r) ==
    /\ "io" \in Faults
    /\ \/ /\ At(r, "backup") /\ UnitWithinBudget(r) /\ UnitTargetFits(UnitAt(r))
          /\ UNCHANGED backup \/ (UnitAt(r).type # "create" /\ HalfWriteBackup(r))
          /\ UNCHANGED << content, written >>
       \/ /\ At(r, "write") /\ SearchFound(UnitAt(r))
          /\ \/ UNCHANGED << content, written >>
             \/ /\ HalfWriteFile(UnitAt(r).file)
                /\ written' = [written EXCEPT ![r] = @ \cup {step[r]}]
          /\ UNCHANGED backup
    /\ runs' = [runs EXCEPT ![r].allUnitsApplied = FALSE]
    /\ Goto(r, "applied")
    /\ UNCHANGED << lock, cooling, used, step, verdict, lost, cpu, saved, process >>

\* The pipeline after apply(): roll back, end the dry run, or verify.
ApplyDone(r) ==
    /\ At(r, "applied")
    /\ \/ /\ ~runs[r].allUnitsApplied
          /\ Transition(r, [runs[r] EXCEPT !.status = "rollback_pending"])
          /\ Goto(r, "rollback")
          /\ UNCHANGED << cpu, step >>
       \/ /\ runs[r].allUnitsApplied /\ runs[r].dryRun
          /\ Transition(r, [runs[r] EXCEPT !.status = "succeeded"])
          /\ Return(r)
          /\ UNCHANGED step
       \/ /\ runs[r].allUnitsApplied /\ ~runs[r].dryRun
          /\ Transition(r, [runs[r] EXCEPT !.status = "verifying"])
          /\ Goto(r, "check")
          /\ step' = [step EXCEPT ![r] = 1]
          /\ UNCHANGED cpu
    /\ UNCHANGED << verdict, lost, content, backup, written, process >>

-----------------------------------------------------------------------------
(***************************************************************************)
(* VerificationRunner.run.                                                 *)
(***************************************************************************)
CommandsLeft(r) == step[r] <= Len(ChecksOf(r))

\* The loop ends before a command: none is left, the time is up (never before
\* the first one), or the step budget is.
EndChecks(r) ==
    /\ At(r, "check")
    /\ \/ ~CommandsLeft(r) /\ UNCHANGED verdict
       \/ /\ CommandsLeft(r) /\ step[r] > 1 /\ "timeout" \in Faults
          /\ verdict' = [verdict EXCEPT ![r].timedOut = TRUE]
       \/ /\ CommandsLeft(r)
          /\ ~WithinBudget(r, "verificationSteps", MaxVerificationSteps)
          /\ verdict' = [verdict EXCEPT ![r].blocked = TRUE]
    /\ Goto(r, "judge")
    /\ UNCHANGED << memory, step, lost, cpu, disk, process >>

\* A command is refused in the same turn, or spawned: then the event loop is
\* free until it exits.
RunCommand(r) ==
    /\ At(r, "check")
    /\ CommandsLeft(r)
    /\ WithinBudget(r, "verificationSteps", MaxVerificationSteps)
    /\ Consume(r, "verificationSteps")
    /\ IF ChecksOf(r)[step[r]] = "disallowed"
         THEN /\ verdict' = [verdict EXCEPT ![r].blocked = TRUE]
              /\ step' = [step EXCEPT ![r] = @ + 1]
              /\ UNCHANGED << pc, cpu >>
         ELSE /\ Goto(r, "running")
              /\ cpu' = None
              /\ UNCHANGED << verdict, step >>
    /\ UNCHANGED << runs, lock, cooling, lost, disk, process >>

\* A spawned command exits.  Only a critical one that failed ends the loop.
CommandReturns(r, passed) ==
    LET critical == ChecksOf(r)[step[r]] = "critical"
    IN  /\ EventLoopFree
        /\ pc[r] = "running"
        /\ cpu' = r
        /\ IF passed
             THEN verdict' = [verdict EXCEPT ![r].passed = @ \cup {step[r]}]
             ELSE verdict' = [verdict EXCEPT ![r].failed = @ \cup {step[r]},
                                             ![r].blocked = @ \/ critical]
        /\ Goto(r, IF critical /\ ~passed THEN "judge" ELSE "check")
        /\ step' = [step EXCEPT ![r] = @ + 1]
        /\ UNCHANGED << memory, lost, disk, process >>

\* Mutant: a verification that ran out of time counts as passed.
OverallPassed_Mutant(r) ==
    verdict[r].failed = {} /\ ~verdict[r].blocked /\ runs[r].proposal \notin ManualReview

\* A required manual check starts as not recorded.
OverallPassed(r) ==
    /\ verdict[r].failed = {}
    /\ ~verdict[r].blocked
    /\ ~verdict[r].timedOut
    /\ runs[r].proposal \notin ManualReview

\* The pipeline after VerificationRunner.run: wait for the manual check, roll
\* back or succeed.  The run's status is not looked at again.
Judge(r) ==
    LET judged == [runs[r] EXCEPT !.verification =
                      [done |-> TRUE, verdict |-> verdict[r],
                       overallPassed |-> OverallPassed(r), manualCheckRecorded |-> FALSE]]
    IN  /\ At(r, "judge")
        /\ \/ /\ runs[r].proposal \in ManualReview
              /\ runs' = [runs EXCEPT ![r] = judged]
              /\ Save(r, judged)
              /\ Return(r)
              /\ UNCHANGED << lock, cooling, used >>
           \/ /\ runs[r].proposal \notin ManualReview /\ ~OverallPassed(r)
              /\ Transition(r, [judged EXCEPT !.status = "failed_verification"])
              /\ Goto(r, "rollback")
              /\ UNCHANGED cpu
           \/ /\ OverallPassed(r)
              /\ Transition(r, [judged EXCEPT !.status = "succeeded"])
              /\ Return(r)
        /\ UNCHANGED << step, verdict, lost, content, backup, written, process >>

-----------------------------------------------------------------------------
(***************************************************************************)
(* _executeRollback and RollbackEngine.rollback: the plan's steps in the   *)
(* order of the units, each on its own.                                    *)
(***************************************************************************)
BeginRollback(r) ==
    /\ At(r, "rollback")
    /\ Transition(r, [runs[r] EXCEPT !.status = "rolling_back"])
    /\ Goto(r, "restore")
    /\ step' = [step EXCEPT ![r] = 1]
    /\ UNCHANGED << verdict, lost, cpu, content, backup, written, process >>

\* Mutant: the last step of the plan is never reached.
RollbackStepsLeft_Mutant(r) == step[r] < Len(UnitsOf(r))

RollbackStepsLeft(r) == step[r] <= Len(UnitsOf(r))

Restorable(r) == UnitAt(r).type = "create" \/ backup[r][step[r]] # None

\* What the step leaves in the file: a created file is deleted.
Restored(r) == IF UnitAt(r).type = "create" THEN {} ELSE backup[r][step[r]]

RestoreFile(r) ==
    /\ At(r, "restore")
    /\ RollbackStepsLeft(r)
    /\ WithinBudget(r, "rollbackSteps", MaxRollbackSteps)
    /\ Restorable(r)
    /\ content' = [content EXCEPT ![UnitAt(r).file] = Restored(r)]
    /\ Consume(r, "rollbackSteps")
    /\ step' = [step EXCEPT ![r] = @ + 1]
    /\ UNCHANGED << runs, lock, cooling, pc, verdict, lost, cpu, saved, backup, written, process >>

\* A step without budget, without a backup, or one the file system refuses is
\* counted as not restored; the next steps still run.
SkipRestore(r) ==
    /\ At(r, "restore")
    /\ RollbackStepsLeft(r)
    /\ \/ /\ ~WithinBudget(r, "rollbackSteps", MaxRollbackSteps)
          /\ UNCHANGED << used, content >>
       \/ /\ WithinBudget(r, "rollbackSteps", MaxRollbackSteps)
          /\ ~Restorable(r)
          /\ Consume(r, "rollbackSteps")
          /\ UNCHANGED content
       \/ /\ WithinBudget(r, "rollbackSteps", MaxRollbackSteps)
          /\ Restorable(r) /\ "io" \in Faults
          /\ Consume(r, "rollbackSteps")
          /\ UNCHANGED content \/ (UnitAt(r).type # "create" /\ HalfWriteFile(UnitAt(r).file))
    /\ lost' = [lost EXCEPT ![r] = @ \cup {UnitAt(r).file}]
    /\ step' = [step EXCEPT ![r] = @ + 1]
    /\ UNCHANGED << runs, lock, cooling, pc, verdict, cpu, saved, backup, written, process >>

\* Mutant: a partial rollback ends the pipeline and not the run.
FinishRollback_Mutant(r) ==
    /\ At(r, "restore")
    /\ ~RollbackStepsLeft(r)
    /\ IF lost[r] = {} THEN Transition(r, [runs[r] EXCEPT !.status = "rolled_back"])
                       ELSE UNCHANGED << runs, saved, lock, cooling, used >>
    /\ Return(r)
    /\ UNCHANGED << step, verdict, lost, content, backup, written, process >>

FinishRollback(r) ==
    /\ At(r, "restore")
    /\ ~RollbackStepsLeft(r)
    /\ Transition(r, [runs[r] EXCEPT
          !.status = IF lost[r] = {} THEN "rolled_back" ELSE "aborted"])
    /\ Return(r)
    /\ UNCHANGED << step, verdict, lost, content, backup, written, process >>

-----------------------------------------------------------------------------
(***************************************************************************)
(* IPC calls on a run, and time.                                           *)
(***************************************************************************)

\* execution:abortRun: any known run, whatever its status; a pipeline that is
\* waiting for a command is not told.
UserAbort(r) ==
    /\ "abort" \in Faults
    /\ EventLoopFree
    /\ runs[r] # None
    /\ Transition(r, [runs[r] EXCEPT !.status = "aborted", !.abortReason = "user"])
    /\ UNCHANGED << pipeline, content, backup, written, process >>

\* Mutant: the status is not looked at.
ManualCheck_Mutant(r, passed) ==
    /\ EventLoopFree
    /\ runs[r] # None
    /\ runs[r].verification.done
    /\ LET checked == [runs[r] EXCEPT !.verification.manualCheckRecorded = TRUE,
                                      !.verification.overallPassed = passed]
       IN  \/ /\ passed
              /\ Transition(r, [checked EXCEPT !.status = "succeeded"])
              /\ UNCHANGED << pc, cpu >>
           \/ /\ ~passed
              /\ Transition(r, [checked EXCEPT !.status = "failed_verification"])
              /\ Goto(r, "rollback")
              /\ cpu' = r
    /\ UNCHANGED << step, verdict, lost, content, backup, written, process >>

\* execution:recordManualCheck.  It recomputes overallPassed from the failed
\* steps and the blockers alone, not from the time-out.
ManualCheck(r, passed) ==
    /\ EventLoopFree
    /\ runs[r] # None
    /\ runs[r].verification.done
    /\ LET result == runs[r].verification
           overall == passed /\ result.verdict.failed = {} /\ ~result.verdict.blocked
           checked == [runs[r] EXCEPT !.verification.manualCheckRecorded = TRUE,
                                      !.verification.overallPassed = overall]
       IN  \/ /\ runs[r].status = "verifying" /\ overall
              /\ Transition(r, [checked EXCEPT !.status = "succeeded"])
              /\ UNCHANGED << pc, cpu >>
           \/ /\ runs[r].status = "verifying" /\ ~passed
              /\ Transition(r, [checked EXCEPT !.status = "failed_verification"])
              /\ Goto(r, "rollback")
              /\ cpu' = r
           \/ /\ runs[r].status = "verifying" => ~overall /\ passed
              /\ runs' = [runs EXCEPT ![r] = checked]
              /\ Save(r, checked)
              /\ UNCHANGED << lock, cooling, used, pc, cpu >>
    /\ UNCHANGED << step, verdict, lost, content, backup, written, process >>

\* A pipeline of the subsystem is still going.
PipelineLive(r) == pc[r] \notin {"none", "done"}

\* A cooldown lasts 5 or 15 minutes.  The commands of one verification stop
\* within its budget, two minutes or the planner's estimate, so a cooldown
\* outlasts the pipelines that were going when it began.
CooldownExpires(s) ==
    /\ EventLoopFree
    /\ s \in cooling
    /\ \A r \in Runs : runs[r] # None /\ PipelineLive(r) => SubsystemOf(r) # s
    /\ cooling' = cooling \ {s}
    /\ UNCHANGED << runs, saved, lock, used, pipeline, content, backup, written, process >>

-----------------------------------------------------------------------------
(***************************************************************************)
(* Process death and _recoverStaleRuns.                                    *)
(***************************************************************************)

\* The pipeline of r is about to rewrite its run file.
Saving(r) ==
    \/ \E point \in {"validate", "plan", "begin", "applied", "judge", "rollback"} : At(r, point)
    \/ At(r, "restore") /\ ~RollbackStepsLeft(r)

StaleStatuses == {"pending_execution", "validating", "ready_to_apply", "applying"}

\* listPersistedRuns skips a file that is not JSON.
Stale(r) ==
    /\ saved[r] \notin {None, Unreadable}
    /\ saved[r].status \in StaleStatuses

\* The recovery has not come to this run file yet.
Unrecovered(r) == Stale(r) /\ runs[r] = None

\* What the death of the process leaves on disk: nothing half done, or the one
\* write it was in.  saveRun truncates the run file before it writes.
TearWrite ==
    \/ UNCHANGED disk
    \/ \E r \in Runs :
          /\ Saving(r) \/ (~up /\ Unrecovered(r))
          /\ saved' = [saved EXCEPT ![r] = Unreadable]
          /\ UNCHANGED << content, backup, written >>
    \/ \E r \in Runs :
          /\ At(r, "backup") /\ UnitWithinBudget(r)
          /\ UnitTargetFits(UnitAt(r)) /\ UnitAt(r).type # "create"
          /\ HalfWriteBackup(r)
          /\ UNCHANGED << saved, content, written >>
    \/ \E r \in Runs :
          /\ At(r, "write") /\ SearchFound(UnitAt(r))
          /\ HalfWriteFile(UnitAt(r).file)
          /\ written' = [written EXCEPT ![r] = @ \cup {step[r]}]
          /\ UNCHANGED << saved, backup >>
    \/ \E r \in Runs :
          /\ At(r, "restore") /\ RollbackStepsLeft(r) /\ UnitAt(r).type # "create"
          /\ WithinBudget(r, "rollbackSteps", MaxRollbackSteps) /\ Restorable(r)
          /\ HalfWriteFile(UnitAt(r).file)
          /\ UNCHANGED << saved, backup, written >>

Crash ==
    /\ crashes < MaxCrashes
    /\ crashes' = crashes + 1
    /\ up' = FALSE
    /\ TearWrite
    /\ runs' = [r \in Runs |-> None]
    /\ lock' = [s \in Subsystems |-> None]
    /\ cooling' = {}
    /\ used' = [r \in Runs |-> NoUsage]
    /\ pc' = [r \in Runs |-> IF pc[r] = "none" THEN "none" ELSE "done"]
    /\ cpu' = None
    /\ UNCHANGED << step, verdict, lost >>

\* Registered, locked, and aborted: which unlocks it again.  The files it wrote
\* are left as they are.
Recover(r) ==
    LET aborted == [saved[r] EXCEPT !.status = "aborted", !.abortReason = "crash_recovery"]
        s == Subsystem[saved[r].proposal]
    IN  /\ ~up
        /\ Unrecovered(r)
        /\ runs' = [runs EXCEPT ![r] = aborted]
        /\ Save(r, aborted)
        /\ lock' = [lock EXCEPT ![s] = None]
        /\ cooling' = cooling \cup {s}
        /\ UNCHANGED << used, pipeline, content, backup, written, process >>

\* Mutant: the handlers do not wait for the recovery.
Boot_Mutant ==
    /\ ~up
    /\ up' = TRUE
    /\ UNCHANGED << memory, pipeline, disk, crashes >>

\* The constructor is done: the IPC handlers are registered.
Boot ==
    /\ ~up
    /\ \A r \in Runs : ~Unrecovered(r)
    /\ up' = TRUE
    /\ UNCHANGED << memory, pipeline, disk, crashes >>

-----------------------------------------------------------------------------
Init ==
    /\ runs = [r \in Runs |-> None]
    /\ saved = [r \in Runs |-> None]
    /\ lock = [s \in Subsystems |-> None]
    /\ cooling = {}
    /\ used = [r \in Runs |-> NoUsage]
    /\ pc = [r \in Runs |-> "none"]
    /\ step = [r \in Runs |-> 1]
    /\ verdict = [r \in Runs |-> NoVerdict]
    /\ lost = [r \in Runs |-> {}]
    /\ cpu = None
    /\ content = InitialContent
    /\ backup = [r \in Runs |-> [i \in UnitIndices |-> None]]
    /\ written = [r \in Runs |-> {}]
    /\ up = TRUE
    /\ crashes = 0

\* What the pipeline of r does when it is its turn.
PipelineStep(r) ==
    \/ Validate(r) \/ BuildPlan(r) \/ BeginApply(r)
    \/ BackupUnit(r) \/ WriteUnit(r) \/ UnitRefused(r) \/ UnitThrows(r) \/ ApplyDone(r)
    \/ EndChecks(r) \/ RunCommand(r) \/ Judge(r)
    \/ BeginRollback(r) \/ RestoreFile(r) \/ SkipRestore(r) \/ FinishRollback(r)

Next ==
    \/ \E r \in Runs :
          \/ \E p \in Proposals, dryRun \in BOOLEAN : Start(r, p, dryRun)
          \/ PipelineStep(r)
          \/ \E passed \in BOOLEAN : CommandReturns(r, passed) \/ ManualCheck(r, passed)
          \/ UserAbort(r)
          \/ Recover(r)
    \/ \E s \in Subsystems : CooldownExpires(s)
    \/ Crash
    \/ Boot

Spec == Init /\ [][Next]_vars

\* The thread keeps running, every command exits (it is killed at its timeout)
\* and a process that died is started again.
FairSpec ==
    /\ Spec
    /\ \A r \in Runs :
          /\ WF_vars(PipelineStep(r))
          /\ WF_vars(\E passed \in BOOLEAN : CommandReturns(r, passed))
          /\ WF_vars(Recover(r))
    /\ WF_vars(Boot)

-----------------------------------------------------------------------------
(***************************************************************************)
(* Properties.                                                             *)
(***************************************************************************)
Contents == [Files -> SUBSET Marks]

Verdicts == [passed : SUBSET CheckIndices, failed : SUBSET CheckIndices,
             blocked : BOOLEAN, timedOut : BOOLEAN]

RunRecords ==
    [proposal : Proposals, status : Statuses, dryRun : BOOLEAN,
     abortReason : {"none", "pipeline", "user", "crash_recovery"},
     snapshot : Contents \cup {None}, allUnitsApplied : BOOLEAN,
     verification : [done : BOOLEAN, verdict : Verdicts, overallPassed : BOOLEAN,
                     manualCheckRecorded : BOOLEAN]]

ASSUME NoneAssumption ==
    /\ None \notin Runs /\ None \notin RunRecords
    /\ Unreadable \notin RunRecords /\ Unreadable # None
    /\ \A marks \in SUBSET Marks : marks # None

Points == {"none", "validate", "plan", "begin", "backup", "write", "applied", "check",
           "running", "judge", "rollback", "restore", "done"}

TypeOK ==
    /\ runs \in [Runs -> RunRecords \cup {None}]
    /\ saved \in [Runs -> RunRecords \cup {None, Unreadable}]
    /\ lock \in [Subsystems -> Runs \cup {None}]
    /\ cooling \subseteq Subsystems
    /\ used \in [Runs -> [DOMAIN NoUsage -> Nat]]
    /\ pc \in [Runs -> Points]
    /\ step \in [Runs -> Nat \ {0}]
    /\ verdict \in [Runs -> Verdicts]
    /\ lost \in [Runs -> SUBSET Files]
    /\ cpu \in Runs \cup {None}
    /\ content \in Contents
    /\ backup \in [Runs -> [UnitIndices -> (SUBSET Marks) \cup {None}]]
    /\ written \in [Runs -> SUBSET UnitIndices]
    /\ up \in BOOLEAN
    /\ crashes \in 0..MaxCrashes

Active(r) == runs[r] # None /\ runs[r].status \in ActiveStatuses

\* "One active execution per subsystem" (ExecutionOrchestrator.ts).
OneActivePerSubsystem ==
    \A r, q \in Runs :
        Active(r) /\ Active(q) /\ SubsystemOf(r) = SubsystemOf(q) => r = q

\* Two pipelines never work on the same subsystem, not even when the user
\* aborted one of them and its command is still running: the lock is gone by
\* then, and only the cooldown keeps the next run out.
OnePipelinePerSubsystem ==
    \A r, q \in Runs :
        /\ runs[r] # None /\ PipelineLive(r)
        /\ runs[q] # None /\ PipelineLive(q)
        /\ SubsystemOf(r) = SubsystemOf(q)
        => r = q

\* Between two turns a lock has an active run for an owner: there is no lock
\* that isSubsystemLocked would have to clean up, and none is left behind by
\* a crash, a refused plan or a failed rollback.
LockOwnedByActiveRun ==
    EventLoopFree => \A s \in Subsystems : lock[s] # None =>
        Active(lock[s]) /\ SubsystemOf(lock[s]) = s

\* Write-ahead: once a run has touched a file or made a backup, its run file
\* tells so, or was torn later: a process that dies never leaves a footprint
\* under a status from before the apply phase.
FootprintIsSaved ==
    \A r \in Runs :
        written[r] # {} \/ (\E i \in UnitIndices : backup[r][i] # None) =>
            /\ saved[r] # None
            /\ saved[r] # Unreadable =>
                  saved[r].status \notin {"pending_execution", "validating", "ready_to_apply"}

\* The units of a run that were the first of it to write their file.
FirstWriters(r) ==
    {i \in written[r] :
        \A j \in written[r] : UnitsOf(r)[j].file = UnitsOf(r)[i].file => i <= j}

\* "Backup is written BEFORE every mutation" (ApplyEngine.ts): while a run has
\* changed files, the backup of the first change to each holds what the file
\* was when the run began, so that the run can be undone by hand.  (A run
\* recovered from a run file that was last saved before the snapshot has none
\* to compare with.)
OriginalIsBackedUp ==
    \A r \in Runs : runs[r] # None /\ runs[r].snapshot # None =>
        \A i \in FirstWriters(r) :
            UnitsOf(r)[i].type # "create" =>
                backup[r][i] = runs[r].snapshot[UnitsOf(r)[i].file]

CriticalPassed(r) ==
    \A i \in DOMAIN ChecksOf(r) :
        ChecksOf(r)[i] = "critical" => i \in runs[r].verification.verdict.passed

\* A run succeeds only with a verification in which no command failed and
\* nothing was blocked, with its manual check where one is required, and with
\* every critical command run and passed: except that a person may let a
\* verification through that ran out of time, because recordManualCheck does
\* not look at the time-out (see SuccessVerified).
SuccessEarned ==
    \A r \in Runs :
        runs[r] # None /\ runs[r].status = "succeeded" /\ ~runs[r].dryRun =>
            LET result == runs[r].verification
            IN  /\ result.done /\ ~result.verdict.blocked /\ result.verdict.failed = {}
                /\ runs[r].proposal \in ManualReview => result.manualCheckRecorded
                /\ result.verdict.timedOut => runs[r].proposal \in ManualReview
                /\ result.verdict.timedOut \/ CriticalPassed(r)

\* The status of r changes to the given one.
Becomes(r, status) ==
    /\ runs[r] # None /\ runs[r].status # status
    /\ runs'[r] # None /\ runs'[r].status = status

\* The files of a plan, and those that one of its units touches and no other.
FilesOfPlan(p) == {Units[p][i].file : i \in DOMAIN Units[p]}

SingleUnitFilesOfPlan(p) ==
    {f \in FilesOfPlan(p) : Cardinality({i \in DOMAIN Units[p] : Units[p][i].file = f}) = 1}

FilesOf(r) == FilesOfPlan(runs[r].proposal)

SingleUnitFiles(r) == SingleUnitFilesOfPlan(runs[r].proposal)

\* A run that ends rolled back or aborted leaves the files it touched once as
\* they were when it began, whether it failed in its plan, in its units, in a
\* budget or in verification, and even when rollback steps had to be skipped.
FailureLeavesNoTrace ==
    [][\A r \in Runs :
          up /\ (Becomes(r, "rolled_back") \/ Becomes(r, "aborted"))
          /\ runs[r].snapshot # None
              => \A f \in SingleUnitFiles(r) : content'[f] = runs[r].snapshot[f]]_vars

\* What run q put into file f.
Inserted(q, f) == {UnitsOf(q)[i].mark : i \in {j \in written[q] : UnitsOf(q)[j].file = f}}

\* What the successful run q put into file f.
Committed(q, f) ==
    IF runs[q] # None /\ runs[q].status = "succeeded" THEN Inserted(q, f) ELSE {}

\* A rollback undoes the changes of its own run: what another run put into a
\* file and had verified is still there after each of its steps, unless this
\* run had put it there too.  Files that several units change are left out,
\* and so is a file that is torn by the death of the process.
CommittedChangesSurvive ==
    [][\A r, q \in Runs :
          At(r, "restore") /\ up' /\ q # r =>
              \A f \in Files \ (FilesOf(r) \ SingleUnitFiles(r)) :
                  content[f] \cap Committed(q, f) \subseteq content'[f] \cup Inserted(r, f)]_vars

\* "No backwards transitions are permitted" out of the terminal states
\* (executionTypes.ts).
TerminalIsFinal ==
    [][\A r \in Runs :
          up /\ runs[r] # None /\ runs[r].status \in TerminalStatuses /\ runs'[r] # None
              => runs'[r].status = runs[r].status]_vars

\* After a restart, no run file says that a pipeline of this process is before
\* or in its apply phase when there is none.
NoStaleRunFile ==
    EventLoopFree => \A r \in Runs : Stale(r) => Active(r)

\* The stage of a run, and what a working one has in hand, as its users see it.
Stage(r) ==
    IF pc[r] = "none" THEN "new"
    ELSE IF runs[r] = None THEN "forgotten"
    ELSE IF runs[r].status \in ActiveStatuses THEN "working"
    ELSE IF runs[r].status = "succeeded" THEN "kept" ELSE "failed"

Job(r) ==
    IF Stage(r) # "working" THEN None
    ELSE [proposal |-> runs[r].proposal, dryRun |-> runs[r].dryRun,
          before |-> IF pc[r] = "validate" THEN content ELSE runs[r].snapshot]

Stages == [r \in Runs |-> Stage(r)]
Jobs == [r \in Runs |-> Job(r)]

Promise == INSTANCE ChangePromise
           WITH stage <- Stages, job <- Jobs, files <- content,
                Touched <- [p \in Proposals |-> FilesOfPlan(p)],
                TouchedOnce <- [p \in Proposals |-> SingleUnitFilesOfPlan(p)]

\* Controlled execution keeps its promise (see ChangePromise): "File-bounded,
\* proposal-bounded mutations", "Rollback path exists before apply", "One
\* active execution per subsystem" (ExecutionOrchestrator.ts).  Every step of
\* every pipeline, call, death and recovery is one that the promise allows.
RunsKeepPromise == Promise!PromiseSpec

\* A lock is given back: by success, by failure, by a rollback that cannot
\* restore everything, and by the death of the process.
LockIsReleased == \A s \in Subsystems : lock[s] # None ~> lock[s] = None

(***************************************************************************)
(* What a comment of the code claims, and the code does not do.            *)
(***************************************************************************)

\* VerificationRunner.ts: "Verification success (overallPassed) requires: All
\* critical steps passed.  No blockers.  Manual check recorded (if required)."
\* A run succeeds only on such a verification.
SuccessVerified ==
    \A r \in Runs :
        runs[r] # None /\ runs[r].status = "succeeded" /\ ~runs[r].dryRun =>
            LET result == runs[r].verification
            IN  /\ result.done /\ ~result.verdict.blocked
                /\ CriticalPassed(r)
                /\ runs[r].proposal \in ManualReview => result.manualCheckRecorded

\* "No backwards transitions are permitted", and 'aborted' is terminal
\* (executionTypes.ts): an aborted run stays aborted.  In the code, a run that
\* is aborted while its verification command runs goes on when the command
\* exits, and takes the status that its verification leads to.
AbortIsFinal ==
    [][\A r \in Runs :
          up /\ runs[r] # None /\ runs[r].status = "aborted" /\ runs'[r] # None
              => runs'[r].status = "aborted"]_vars

\* RollbackEngine.ts: "Restores files from backups written by ApplyEngine".  A
\* rollback that reports success has restored every file of the run, also the
\* ones that several units changed.
RolledBackRestores ==
    [][\A r \in Runs :
          Becomes(r, "rolled_back") =>
              \A f \in FilesOf(r) : content'[f] = runs[r].snapshot[f]]_vars
====
