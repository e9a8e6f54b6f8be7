------------------------ MODULE ChangeExecutionProofs ------------------------
(***************************************************************************)
(* Proofs about ChangeExecution, for any proposals, plans, commands,       *)
(* budgets and numbers of runs and deaths.  Where a fault breaks a         *)
(* property, its theorem says so by a condition on Faults.                 *)
(*                                                                         *)
(* The core is inductive by itself: Base, the types and what the place of  *)
(* its pipeline says of a run (Places).  With it each property has a part  *)
(* of its own:                                                             *)
(*   LockOK        in the middle of a turn, too, locks have active owners; *)
(*   Undecided     nothing is verified before the commands have run;       *)
(*   Busy          an active run has its lock;                             *)
(*   Outcomes      what the answers of the commands heard so far, and those*)
(*                 still awaited, say of the result of the verification;   *)
(*   Covered       a live pipeline has the lock or the cooldown;           *)
(*   FilesOK       the run file follows the record;                        *)
(*   Originals     backups are of the snapshot.                            *)
(* Most steps are a Turn of one run, which leaves the others alone; a step *)
(* lemma says of each action what it does, once, and the preservation      *)
(* lemmas use those and not the actions.                                   *)
(***************************************************************************)
EXTENDS ChangeExecution, TLAPS

\* What the place of its pipeline says of a run.
PlaceOK(r) ==
    /\ pc[r] = "none" => /\ runs[r] = None /\ saved[r] = None /\ written[r] = {}
                         /\ \A i \in UnitIndices : backup[r][i] = None
    /\ PipelineLive(r) => up /\ runs[r] # None
    /\ PipelineLive(r) /\ pc[r] # "running" => cpu = r
    /\ pc[r] \in {"backup", "write"} => step[r] \in DOMAIN UnitsOf(r)
    /\ pc[r] = "running" => step[r] \in DOMAIN ChecksOf(r)

\* While the process is being started, every known run is a recovered one.
Recovering == ~up => \A r \in Runs : runs[r] # None => runs[r].status = "aborted"

Places == Recovering /\ \A r \in Runs : PlaceOK(r)

-----------------------------------------------------------------------------
\* A proposal's plan and commands.
LEMMA ProposalData ==
  ASSUME NEW p \in Proposals
  PROVE  /\ Subsystem[p] \in Subsystems
         /\ Units[p] \in Seq(ChangeUnits) /\ Len(Units[p]) \in Nat \ {0}
         /\ DOMAIN Units[p] = 1..Len(Units[p])
         /\ DOMAIN Units[p] \subseteq UnitIndices
         /\ \A i \in DOMAIN Units[p] : /\ Units[p][i].type \in UnitTypes
                                       /\ Units[p][i].file \in Files
                                       /\ Units[p][i].anchor \in Marks
                                       /\ Units[p][i].mark \in Marks
         /\ Checks[p] \in Seq(CheckKinds) /\ Len(Checks[p]) \in Nat \ {0}
         /\ DOMAIN Checks[p] = 1..Len(Checks[p])
         /\ DOMAIN Checks[p] \subseteq CheckIndices
         /\ \A i \in DOMAIN Checks[p] : Checks[p][i] \in CheckKinds
  <1>1. /\ Units[p] \in Seq(ChangeUnits) /\ Units[p] # <<>>
        /\ Checks[p] \in Seq(CheckKinds) /\ Checks[p] # <<>>
        /\ Subsystem[p] \in Subsystems
    BY ExecutionAssumption
  <1>2. DOMAIN Units[p] \subseteq UnitIndices /\ DOMAIN Checks[p] \subseteq CheckIndices
    BY DEF UnitIndices, CheckIndices
  <1>3. \A i \in DOMAIN Units[p] : Units[p][i] \in ChangeUnits
    BY <1>1
  <1>. QED  BY <1>1, <1>2, <1>3 DEF ChangeUnits

\* What a run record is made of.
LEMMA RunFields ==
  ASSUME NEW x \in RunRecords
  PROVE  /\ x.proposal \in Proposals /\ x.status \in Statuses
         /\ x.dryRun \in BOOLEAN /\ x.allUnitsApplied \in BOOLEAN
         /\ x.verification.verdict \in Verdicts
         /\ x # None /\ x # Unreadable
  BY NoneAssumption DEF RunRecords

\* The updates of a run record.
LEMMA RunUpdates ==
  ASSUME NEW x \in RunRecords, NEW st \in Statuses,
         NEW a \in {"none", "pipeline", "user", "crash_recovery"}
  PROVE  /\ [x EXCEPT !.status = st] \in RunRecords
         /\ [x EXCEPT !.status = st].status = st
         /\ [x EXCEPT !.status = st].proposal = x.proposal
         /\ [x EXCEPT !.status = st].snapshot = x.snapshot
         /\ [x EXCEPT !.status = st].verification = x.verification
         /\ [x EXCEPT !.status = st].dryRun = x.dryRun
         /\ [x EXCEPT !.status = st, !.abortReason = a] \in RunRecords
         /\ [x EXCEPT !.status = st, !.abortReason = a].status = st
         /\ [x EXCEPT !.status = st, !.abortReason = a].proposal = x.proposal
         /\ [x EXCEPT !.status = st, !.abortReason = a].snapshot = x.snapshot
         /\ [x EXCEPT !.status = st, !.abortReason = a].verification = x.verification
         /\ [x EXCEPT !.status = st, !.abortReason = a].dryRun = x.dryRun
  BY DEF RunRecords

\* Every known run names a proposal with a plan.
LEMMA RunData ==
  ASSUME TypeOK, NEW r \in Runs, runs[r] # None
  PROVE  /\ runs[r] \in RunRecords /\ SubsystemOf(r) \in Subsystems
         /\ DOMAIN UnitsOf(r) = 1..Len(UnitsOf(r)) /\ Len(UnitsOf(r)) \in Nat \ {0}
         /\ DOMAIN UnitsOf(r) \subseteq UnitIndices
         /\ DOMAIN ChecksOf(r) = 1..Len(ChecksOf(r)) /\ Len(ChecksOf(r)) \in Nat \ {0}
         /\ DOMAIN ChecksOf(r) \subseteq CheckIndices
         /\ step[r] \in DOMAIN UnitsOf(r) =>
               /\ UnitAt(r).file \in Files /\ UnitAt(r).type \in UnitTypes
               /\ UnitAt(r).mark \in Marks
  <1>1. runs[r] \in RunRecords
    BY DEF TypeOK
  <1>2. runs[r].proposal \in Proposals
    BY <1>1, RunFields
  <1>. QED  BY <1>1, <1>2, ProposalData DEF UnitsOf, ChecksOf, SubsystemOf, UnitAt

\* The parts of the state that hold no run records.
Types ==
    /\ lock \in [Subsystems -> Runs \cup {None}]
    /\ cooling \subseteq Subsystems
    /\ used \in [Runs -> [DOMAIN NoUsage -> Nat]]

\* A run file is written, or its writing fails.
LEMMA SaveEffect ==
  ASSUME TypeOK, NEW r \in Runs, NEW run \in RunRecords, Save(r, run)
  PROVE  /\ saved' \in [Runs -> RunRecords \cup {None, Unreadable}]
         /\ \A q \in Runs \ {r} : saved'[q] = saved[q]
         /\ saved'[r] = run \/ ("save" \in Faults /\ saved'[r] = saved[r])
  BY DEF TypeOK, Save

\* The outcome of a transition.
LEMMA TransitionEffect ==
  ASSUME TypeOK, NEW r \in Runs, NEW run \in RunRecords, Transition(r, run)
  PROVE  /\ runs' \in [Runs -> RunRecords \cup {None}]
         /\ saved' \in [Runs -> RunRecords \cup {None, Unreadable}]
         /\ Types'
         /\ runs'[r] = run
         /\ \A q \in Runs \ {r} : runs'[q] = runs[q] /\ saved'[q] = saved[q]
         /\ saved'[r] = run \/ ("save" \in Faults /\ saved'[r] = saved[r])
         /\ run.status \in TerminalStatuses =>
               /\ lock' = [lock EXCEPT ![Subsystem[run.proposal]] = None]
               /\ cooling' = cooling \cup {Subsystem[run.proposal]}
         /\ run.status \notin TerminalStatuses => UNCHANGED << lock, cooling >>
  <1>1. Save(r, run) /\ runs' = [runs EXCEPT ![r] = run]
    BY DEF Transition
  <1>2. Subsystem[run.proposal] \in Subsystems
    BY RunFields, ProposalData
  <1>3. NoUsage \in [DOMAIN NoUsage -> Nat]
    BY DEF NoUsage
  <1>4. Types'
    BY <1>2, <1>3 DEF Transition, TypeOK, Types
  <1>5. runs' \in [Runs -> RunRecords \cup {None}]
    BY <1>1 DEF TypeOK
  <1>6. runs'[r] = run /\ \A q \in Runs \ {r} : runs'[q] = runs[q]
    BY <1>1 DEF TypeOK
  <1>. QED  BY <1>1, <1>4, <1>5, <1>6, SaveEffect DEF Transition
\* A step of run r leaves the other runs alone.
OthersKeep(r) ==
    \A q \in Runs \ {r} :
        /\ runs'[q] = runs[q] /\ saved'[q] = saved[q]
        /\ pc'[q] = pc[q] /\ step'[q] = step[q] /\ verdict'[q] = verdict[q]
        /\ backup'[q] = backup[q] /\ written'[q] = written[q]

\* What a step does to the record of a known run and to the lock of its
\* subsystem: the status stays, or is another active one, or ends the run and
\* frees the lock.
Advances(r) ==
    /\ runs[r] # None /\ runs'[r] # None
    /\ runs'[r].proposal = runs[r].proposal
    /\ \/ /\ runs'[r].status = runs[r].status \/ runs'[r].status \in ActiveStatuses
          /\ UNCHANGED << lock, cooling >>
       \/ /\ runs'[r].status \in TerminalStatuses
          /\ lock' = [lock EXCEPT ![SubsystemOf(r)] = None]
          /\ cooling' = cooling \cup {SubsystemOf(r)}

\* A step in the turn of run r, or one that gives it the turn.
Turn(r) ==
    /\ up /\ up' = up
    /\ cpu \in {None, r}
    /\ OthersKeep(r)
    /\ PlaceOK(r)'

LEMMA TurnPlaces ==
  ASSUME Places, NEW r \in Runs, Turn(r)
  PROVE  Places'
  <1>1. Recovering'
    BY DEF Turn, Recovering
  <1>2. ASSUME NEW q \in Runs \ {r} PROVE PlaceOK(q)'
    <2>1. UnitsOf(q)' = UnitsOf(q) /\ ChecksOf(q)' = ChecksOf(q)
      BY DEF Turn, OthersKeep, UnitsOf, ChecksOf
    <2>2. PipelineLive(q)' <=> PipelineLive(q)
      BY DEF Turn, OthersKeep, PipelineLive
    <2>3. PipelineLive(q) /\ pc[q] # "running" => cpu = q
      BY DEF Places, PlaceOK
    <2>4. cpu # q \/ ~PipelineLive(q) \/ pc[q] = "running"
      BY NoneAssumption DEF Turn
    <2>5. ~(PipelineLive(q) /\ pc[q] # "running")
      BY <2>3, <2>4
    <2>6. PlaceOK(q)
      BY DEF Places
    <2>. QED  BY <2>1, <2>2, <2>5, <2>6 DEF Turn, OthersKeep, PlaceOK
  <1>3. PlaceOK(r)'
    BY DEF Turn
  <1>. QED  BY <1>1, <1>2, <1>3 DEF Places

\* The pipeline of r is at work.
LEMMA AtWork ==
  ASSUME TypeOK, Places, NEW r \in Runs, NEW point \in Points \ {"none", "done"}, At(r, point)
  PROVE  /\ up /\ cpu = r /\ pc[r] = point /\ PipelineLive(r)
         /\ runs[r] # None /\ runs[r] \in RunRecords
  BY DEF At, Places, PlaceOK, PipelineLive, TypeOK

\* What a step that changes the record of run r leaves behind.
Recorded(r, run) ==
    /\ runs'[r] = run
    /\ saved'[r] = run \/ ("save" \in Faults /\ saved'[r] = saved[r])

\* The record is written, by a transition or without one.
Writes(r, run) ==
    \/ Transition(r, run)
    \/ /\ runs' = [runs EXCEPT ![r] = run]
       /\ Save(r, run)
       /\ run.status = runs[r].status
       /\ UNCHANGED << lock, cooling, used >>

\* A step that writes the record of run r and goes on elsewhere.
LEMMA RecordStep ==
  ASSUME TypeOK, Places, NEW r \in Runs, up, cpu \in {None, r}, runs[r] # None,
         NEW run \in RunRecords, run.proposal = runs[r].proposal, Writes(r, run),
         NEW point \in Points \ {"none"}, pc' = [pc EXCEPT ![r] = point],
         step' \in [Runs -> Nat \ {0}], \A q \in Runs \ {r} : step'[q] = step[q],
         point \in {"backup", "write"} => step'[r] \in DOMAIN UnitsOf(r),
         point = "running" => step'[r] \in DOMAIN ChecksOf(r),
         point \in {"running", "done"} \/ cpu' = r, cpu' \in {None, r},
         UNCHANGED << verdict, lost, content, backup, written, process >>
  PROVE  TypeOK' /\ Turn(r) /\ Advances(r) /\ Recorded(r, run) /\ pc'[r] = point
  <1>1. runs[r] \in RunRecords /\ run.status \in Statuses
    BY RunFields DEF TypeOK
  <1>2. /\ runs' \in [Runs -> RunRecords \cup {None}]
        /\ saved' \in [Runs -> RunRecords \cup {None, Unreadable}]
        /\ Types'
        /\ Recorded(r, run)
        /\ \A q \in Runs \ {r} : runs'[q] = runs[q] /\ saved'[q] = saved[q]
        /\ \/ /\ run.status = runs[r].status \/ run.status \in ActiveStatuses
              /\ UNCHANGED << lock, cooling >>
           \/ /\ run.status \in TerminalStatuses
              /\ lock' = [lock EXCEPT ![Subsystem[run.proposal]] = None]
              /\ cooling' = cooling \cup {Subsystem[run.proposal]}
    <2>1. CASE Transition(r, run)
      <3>1. run.status \in TerminalStatuses \/ run.status \in ActiveStatuses
        BY <1>1 DEF Statuses
      <3>. QED  BY <2>1, <3>1, TransitionEffect DEF Recorded
    <2>2. CASE /\ runs' = [runs EXCEPT ![r] = run]
               /\ Save(r, run)
               /\ run.status = runs[r].status
               /\ UNCHANGED << lock, cooling, used >>
      <3>1. Types'
        BY <2>2 DEF TypeOK, Types
      <3>. QED  BY <2>2, <3>1, SaveEffect DEF TypeOK, Recorded
    <2>. QED  BY <2>1, <2>2 DEF Writes
  <1>3. /\ pc' \in [Runs -> Points] /\ pc'[r] = point
        /\ \A q \in Runs \ {r} : pc'[q] = pc[q]
    BY DEF TypeOK
  <1>4. TypeOK'
    BY <1>2, <1>3 DEF TypeOK, Types, process
  <1>5. OthersKeep(r)
    BY <1>2, <1>3 DEF OthersKeep
  <1>6. runs'[r] = run /\ run # None
    BY <1>2, RunFields DEF Recorded
  <1>7. UnitsOf(r)' = UnitsOf(r) /\ ChecksOf(r)' = ChecksOf(r)
    BY <1>6 DEF UnitsOf, ChecksOf
  <1>8. PlaceOK(r)'
    BY <1>3, <1>6, <1>7 DEF PlaceOK, PipelineLive, process
  <1>9. Advances(r)
    BY <1>2, <1>6 DEF Advances, SubsystemOf
  <1>. QED  BY <1>2, <1>3, <1>4, <1>5, <1>8, <1>9 DEF Turn, process

\* A step of the pipeline that leaves records and locks alone.
LEMMA QuietStep ==
  ASSUME TypeOK, Places, NEW r \in Runs, up, cpu \in {None, r}, runs[r] # None,
         runs' \in [Runs -> RunRecords \cup {None}],
         \A q \in Runs \ {r} : runs'[q] = runs[q],
         runs'[r] # None, runs'[r].proposal = runs[r].proposal,
         runs'[r].status = runs[r].status,
         used' \in [Runs -> [DOMAIN NoUsage -> Nat]],
         NEW point \in Points \ {"none"}, pc' = [pc EXCEPT ![r] = point],
         step' \in [Runs -> Nat \ {0}], \A q \in Runs \ {r} : step'[q] = step[q],
         point \in {"backup", "write"} => step'[r] \in DOMAIN UnitsOf(r),
         point = "running" => step'[r] \in DOMAIN ChecksOf(r),
         point \in {"running", "done"} \/ cpu' = r, cpu' \in {None, r},
         verdict' \in [Runs -> Verdicts], \A q \in Runs \ {r} : verdict'[q] = verdict[q],
         lost' \in [Runs -> SUBSET Files], content' \in Contents,
         backup' \in [Runs -> [UnitIndices -> (SUBSET Marks) \cup {None}]],
         \A q \in Runs \ {r} : backup'[q] = backup[q],
         written' \in [Runs -> SUBSET UnitIndices],
         \A q \in Runs \ {r} : written'[q] = written[q],
         UNCHANGED << saved, lock, cooling, process >>
  PROVE  TypeOK' /\ Turn(r) /\ Advances(r) /\ pc'[r] = point
  <1>1. /\ pc' \in [Runs -> Points] /\ pc'[r] = point
        /\ \A q \in Runs \ {r} : pc'[q] = pc[q]
    BY DEF TypeOK
  <1>2. TypeOK'
    BY <1>1 DEF TypeOK, process
  <1>3. OthersKeep(r)
    BY <1>1 DEF OthersKeep
  <1>4. UnitsOf(r)' = UnitsOf(r) /\ ChecksOf(r)' = ChecksOf(r)
    BY DEF UnitsOf, ChecksOf
  <1>5. PlaceOK(r)'
    BY <1>1, <1>4 DEF PlaceOK, PipelineLive, process
  <1>6. Advances(r)
    BY DEF Advances
  <1>. QED  BY <1>1, <1>2, <1>3, <1>5, <1>6 DEF Turn, process

-----------------------------------------------------------------------------
LEMMA ValidateStep ==
  ASSUME TypeOK, Places, NEW r \in Runs, Validate(r)
  PROVE  /\ TypeOK' /\ Turn(r) /\ Advances(r) /\ pc[r] = "validate" /\ pc'[r] = "plan"
         /\ Recorded(r, [runs[r] EXCEPT !.status = "validating", !.snapshot = content])
  <1>1. /\ up /\ cpu = r /\ pc[r] = "validate" /\ runs[r] # None /\ runs[r] \in RunRecords
    BY AtWork DEF Validate, Points
  <1>. DEFINE run == [runs[r] EXCEPT !.status = "validating", !.snapshot = content]
  <1>2. run \in RunRecords /\ run.proposal = runs[r].proposal
    BY <1>1 DEF RunRecords, TypeOK, Statuses, ActiveStatuses
  <1>3. Writes(r, run)
    BY DEF Validate, Writes
  <1>. HIDE DEF run
  <1>4. TypeOK' /\ Turn(r) /\ Advances(r) /\ Recorded(r, run) /\ pc'[r] = "plan"
    BY <1>1, <1>2, <1>3, RecordStep DEF Validate, Goto, Points, TypeOK
  <1>. QED  BY <1>1, <1>4 DEF run

LEMMA BuildPlanStep ==
  ASSUME TypeOK, Places, NEW r \in Runs, BuildPlan(r)
  PROVE  /\ TypeOK' /\ Turn(r) /\ Advances(r) /\ pc[r] = "plan"
         /\ \/ /\ pc'[r] = "begin"
               /\ Recorded(r, [runs[r] EXCEPT !.status = "ready_to_apply"])
            \/ /\ pc'[r] = "done"
               /\ Recorded(r, [runs[r] EXCEPT !.status = "aborted", !.abortReason = "pipeline"])
  <1>1. /\ up /\ cpu = r /\ pc[r] = "plan" /\ runs[r] # None /\ runs[r] \in RunRecords
    BY AtWork DEF BuildPlan, Points
  <1>2. CASE PlanApplicable(r)
    <2>. DEFINE run == [runs[r] EXCEPT !.status = "ready_to_apply"]
    <2>1. run \in RunRecords /\ run.proposal = runs[r].proposal
      BY <1>1, RunUpdates DEF Statuses, ActiveStatuses
    <2>2. Writes(r, run)
      BY <1>2 DEF BuildPlan, Writes
    <2>. HIDE DEF run
    <2>3. TypeOK' /\ Turn(r) /\ Advances(r) /\ Recorded(r, run) /\ pc'[r] = "begin"
      BY <1>1, <1>2, <2>1, <2>2, RecordStep DEF BuildPlan, Goto, Points, TypeOK
    <2>. QED  BY <1>1, <2>3 DEF run
  <1>3. CASE ~PlanApplicable(r)
    <2>. DEFINE run == [runs[r] EXCEPT !.status = "aborted", !.abortReason = "pipeline"]
    <2>1. run \in RunRecords /\ run.proposal = runs[r].proposal
      BY <1>1, RunUpdates DEF Statuses, TerminalStatuses
    <2>2. Writes(r, run)
      BY <1>3 DEF BuildPlan, Writes
    <2>. HIDE DEF run
    <2>3. TypeOK' /\ Turn(r) /\ Advances(r) /\ Recorded(r, run) /\ pc'[r] = "done"
      BY <1>1, <1>3, <2>1, <2>2, RecordStep DEF BuildPlan, Return, Goto, Points, TypeOK
    <2>. QED  BY <1>1, <2>3 DEF run
  <1>. QED  BY <1>2, <1>3

LEMMA BeginApplyStep ==
  ASSUME TypeOK, Places, NEW r \in Runs, BeginApply(r)
  PROVE  /\ TypeOK' /\ Turn(r) /\ Advances(r) /\ pc[r] = "begin"
         /\ pc'[r] = IF runs[r].dryRun THEN "applied" ELSE "backup"
         /\ step'[r] = 1
         /\ Recorded(r, [runs[r] EXCEPT !.status = "applying"])
  <1>1. /\ up /\ cpu = r /\ pc[r] = "begin" /\ runs[r] # None /\ runs[r] \in RunRecords
    BY AtWork DEF BeginApply, Points
  <1>. DEFINE run == [runs[r] EXCEPT !.status = "applying"]
              point == IF runs[r].dryRun THEN "applied" ELSE "backup"
  <1>2. run \in RunRecords /\ run.proposal = runs[r].proposal
    BY <1>1, RunUpdates DEF Statuses, ActiveStatuses
  <1>3. Writes(r, run) /\ pc' = [pc EXCEPT ![r] = point]
    BY DEF BeginApply, Writes, Goto
  <1>4. point \in {"applied", "backup"}
    OBVIOUS
  <1>5. /\ step' \in [Runs -> Nat \ {0}] /\ step'[r] = 1
        /\ \A q \in Runs \ {r} : step'[q] = step[q]
    BY DEF BeginApply, TypeOK
  <1>6. 1 \in DOMAIN UnitsOf(r)
    BY <1>1, RunData
  <1>. HIDE DEF run, point
  <1>7. TypeOK' /\ Turn(r) /\ Advances(r) /\ Recorded(r, run) /\ pc'[r] = point
    BY <1>1, <1>2, <1>3, <1>4, <1>5, <1>6, RecordStep DEF BeginApply, Points
  <1>. QED  BY <1>1, <1>5, <1>7 DEF run, point

\* The units a run has consumed are counted.
LEMMA CountedUse ==
  ASSUME TypeOK, NEW r \in Runs, NEW field \in DOMAIN NoUsage, Consume(r, field)
  PROVE  used' \in [Runs -> [DOMAIN NoUsage -> Nat]]
  BY DEF TypeOK, Consume

LEMMA SetField ==
  ASSUME NEW u \in [Runs -> [DOMAIN NoUsage -> Nat]], NEW r \in Runs,
         NEW f \in DOMAIN NoUsage, NEW n \in Nat
  PROVE  [u EXCEPT ![r][f] = n] \in [Runs -> [DOMAIN NoUsage -> Nat]]
  OBVIOUS

LEMMA BackupUnitStep ==
  ASSUME TypeOK, Places, NEW r \in Runs, BackupUnit(r)
  PROVE  /\ TypeOK' /\ Turn(r) /\ Advances(r) /\ pc[r] = "backup" /\ pc'[r] = "write"
  <1>1. /\ up /\ cpu = r /\ pc[r] = "backup" /\ runs[r] # None /\ runs[r] \in RunRecords
    BY AtWork DEF BackupUnit, Points
  <1>2. step[r] \in DOMAIN UnitsOf(r) /\ UnitAt(r).file \in Files /\ step[r] \in UnitIndices
    BY <1>1, RunData DEF Places, PlaceOK
  <1>3. used' \in [Runs -> [DOMAIN NoUsage -> Nat]]
    <2>. DEFINE u == [used EXCEPT ![r]["patchUnits"] = used[r].patchUnits + 1]
                n == IF UnitAt(r).file \in FilesChanged(r)
                       THEN u[r].fileMutations ELSE u[r].fileMutations + 1
    <2>1. {"patchUnits", "fileMutations"} \subseteq DOMAIN NoUsage
      BY DEF NoUsage
    <2>2. used[r].patchUnits + 1 \in Nat
      BY <2>1 DEF TypeOK
    <2>3. u \in [Runs -> [DOMAIN NoUsage -> Nat]]
      BY <2>1, <2>2, SetField DEF TypeOK
    <2>4. used' = [u EXCEPT ![r]["fileMutations"] = n]
      BY DEF BackupUnit
    <2>. HIDE DEF u
    <2>5. n \in Nat
      BY <2>1, <2>3
    <2>. HIDE DEF n
    <2>. QED  BY <2>1, <2>3, <2>4, <2>5, SetField
  <1>4. /\ backup' \in [Runs -> [UnitIndices -> (SUBSET Marks) \cup {None}]]
        /\ \A q \in Runs \ {r} : backup'[q] = backup[q]
    <2>1. content[UnitAt(r).file] \in (SUBSET Marks) \cup {None}
      BY <1>2 DEF TypeOK, Contents
    <2>. QED  BY <1>2, <2>1 DEF BackupUnit, TypeOK
  <1>. QED  BY <1>1, <1>2, <1>3, <1>4, QuietStep DEF BackupUnit, Goto, Points, TypeOK

LEMMA WriteUnitStep ==
  ASSUME TypeOK, Places, NEW r \in Runs, WriteUnit(r)
  PROVE  /\ TypeOK' /\ Turn(r) /\ Advances(r) /\ pc[r] = "write"
         /\ pc'[r] = IF step[r] = Len(UnitsOf(r)) THEN "applied" ELSE "backup"
         /\ step'[r] = step[r] + 1
  <1>1. /\ up /\ cpu = r /\ pc[r] = "write" /\ runs[r] # None /\ runs[r] \in RunRecords
    BY AtWork DEF WriteUnit, Points
  <1>2. /\ step[r] \in DOMAIN UnitsOf(r) /\ step[r] \in UnitIndices
        /\ UnitAt(r).file \in Files /\ UnitAt(r).mark \in Marks
        /\ DOMAIN UnitsOf(r) = 1..Len(UnitsOf(r)) /\ Len(UnitsOf(r)) \in Nat
    BY <1>1, RunData DEF Places, PlaceOK
  <1>. DEFINE point == IF step[r] = Len(UnitsOf(r)) THEN "applied" ELSE "backup"
  <1>3. point = "applied" \/ (point = "backup" /\ step[r] + 1 \in DOMAIN UnitsOf(r))
    BY <1>2
  <1>4. pc' = [pc EXCEPT ![r] = point]
    BY DEF WriteUnit, Goto
  <1>5. AfterUnit(UnitAt(r)) \in SUBSET Marks
    BY <1>2 DEF AfterUnit, TypeOK, Contents
  <1>6. content' \in Contents
    BY <1>2, <1>5 DEF WriteUnit, TypeOK, Contents
  <1>7. /\ written' \in [Runs -> SUBSET UnitIndices]
        /\ \A q \in Runs \ {r} : written'[q] = written[q]
    BY <1>2 DEF WriteUnit, TypeOK
  <1>8. /\ step' \in [Runs -> Nat \ {0}] /\ step'[r] = step[r] + 1
        /\ \A q \in Runs \ {r} : step'[q] = step[q]
    BY <1>2 DEF WriteUnit, TypeOK
  <1>. HIDE DEF point
  <1>9. TypeOK' /\ Turn(r) /\ Advances(r) /\ pc'[r] = point
    BY <1>1, <1>3, <1>4, <1>6, <1>7, <1>8, QuietStep DEF WriteUnit, memory, Points, TypeOK
  <1>. QED  BY <1>1, <1>8, <1>9 DEF point

\* The first failed unit is noted in the run record.
LEMMA FailedUnit ==
  ASSUME TypeOK, NEW r \in Runs, runs[r] # None,
         runs' = [runs EXCEPT ![r].allUnitsApplied = FALSE]
  PROVE  /\ runs' \in [Runs -> RunRecords \cup {None}]
         /\ runs'[r] # None /\ runs'[r].proposal = runs[r].proposal
         /\ runs'[r].status = runs[r].status /\ runs'[r].snapshot = runs[r].snapshot
         /\ runs'[r].verification = runs[r].verification /\ runs'[r].dryRun = runs[r].dryRun
         /\ \A q \in Runs \ {r} : runs'[q] = runs[q]
  <1>. DEFINE run == [runs[r] EXCEPT !.allUnitsApplied = FALSE]
  <1>1. runs[r] \in RunRecords
    BY DEF TypeOK
  <1>2. /\ run \in RunRecords /\ run.proposal = runs[r].proposal
        /\ run.status = runs[r].status /\ run.snapshot = runs[r].snapshot
        /\ run.verification = runs[r].verification /\ run.dryRun = runs[r].dryRun
    BY <1>1 DEF RunRecords
  <1>3. runs' = [runs EXCEPT ![r] = run]
    OBVIOUS
  <1>. HIDE DEF run
  <1>. QED  BY <1>2, <1>3, RunFields DEF TypeOK

LEMMA UnitRefusedStep ==
  ASSUME TypeOK, Places, NEW r \in Runs, UnitRefused(r)
  PROVE  /\ TypeOK' /\ Turn(r) /\ Advances(r)
         /\ pc[r] \in {"backup", "write"} /\ pc'[r] = "applied"
  <1>1. /\ up /\ cpu = r /\ pc[r] \in {"backup", "write"} /\ runs[r] # None
    BY AtWork DEF UnitRefused, Points
  <1>2. /\ runs' \in [Runs -> RunRecords \cup {None}]
        /\ runs'[r] # None /\ runs'[r].proposal = runs[r].proposal
        /\ runs'[r].status = runs[r].status
        /\ \A q \in Runs \ {r} : runs'[q] = runs[q]
    BY <1>1, FailedUnit DEF UnitRefused
  <1>. QED  BY <1>1, <1>2, QuietStep DEF UnitRefused, Goto, disk, Points, TypeOK

LEMMA UnitThrowsStep ==
  ASSUME TypeOK, Places, NEW r \in Runs, UnitThrows(r)
  PROVE  /\ TypeOK' /\ Turn(r) /\ Advances(r)
         /\ pc[r] \in {"backup", "write"} /\ pc'[r] = "applied"
  <1>1. /\ up /\ cpu = r /\ pc[r] \in {"backup", "write"} /\ runs[r] # None
    BY AtWork DEF UnitThrows, Points
  <1>2. /\ step[r] \in UnitIndices /\ UnitAt(r).file \in Files /\ {Torn} \in SUBSET Marks
    BY <1>1, RunData, ExecutionAssumption DEF Places, PlaceOK
  <1>3. /\ runs' \in [Runs -> RunRecords \cup {None}]
        /\ runs'[r] # None /\ runs'[r].proposal = runs[r].proposal
        /\ runs'[r].status = runs[r].status
        /\ \A q \in Runs \ {r} : runs'[q] = runs[q]
    BY <1>1, FailedUnit DEF UnitThrows
  <1>4. /\ backup' \in [Runs -> [UnitIndices -> (SUBSET Marks) \cup {None}]]
        /\ \A q \in Runs \ {r} : backup'[q] = backup[q]
    <2>1. CASE UNCHANGED backup
      BY <2>1 DEF TypeOK
    <2>2. CASE HalfWriteBackup(r)
      <3>1. {Torn} \in (SUBSET Marks) \cup {None}
        BY <1>2
      <3>. QED  BY <1>2, <2>2, <3>1 DEF HalfWriteBackup, TypeOK
    <2>. QED  BY <2>1, <2>2 DEF UnitThrows
  <1>5. content' \in Contents
    <2>1. HalfWriteFile(UnitAt(r).file) \/ UNCHANGED content
      BY DEF UnitThrows
    <2>. QED  BY <1>2, <2>1 DEF HalfWriteFile, TypeOK, Contents
  <1>6. /\ written' \in [Runs -> SUBSET UnitIndices]
        /\ \A q \in Runs \ {r} : written'[q] = written[q]
    <2>1. CASE UNCHANGED written
      BY <2>1 DEF TypeOK
    <2>2. CASE written' = [written EXCEPT ![r] = @ \cup {step[r]}]
      BY <1>2, <2>2 DEF TypeOK
    <2>. QED  BY <2>1, <2>2 DEF UnitThrows
  <1>7. /\ pc' = [pc EXCEPT ![r] = "applied"]
        /\ UNCHANGED << lock, cooling, used, step, verdict, lost, cpu, saved, process >>
    BY Zenon DEF UnitThrows, Goto
  <1>8. pc[r] \in {"backup", "write"} /\ "applied" \in Points \ {"none"}
    BY <1>1 DEF Points
  <1>9. TypeOK' /\ Turn(r) /\ Advances(r) /\ pc'[r] = "applied"
    BY <1>1, <1>3, <1>4, <1>5, <1>6, <1>7, <1>8, QuietStep DEF TypeOK
  <1>. QED  BY <1>8, <1>9

LEMMA ApplyDoneStep ==
  ASSUME TypeOK, Places, NEW r \in Runs, ApplyDone(r)
  PROVE  /\ TypeOK' /\ Turn(r) /\ Advances(r) /\ pc[r] = "applied"
         /\ \/ /\ pc'[r] = "rollback"
               /\ Recorded(r, [runs[r] EXCEPT !.status = "rollback_pending"])
            \/ /\ pc'[r] = "done" /\ runs[r].dryRun
               /\ Recorded(r, [runs[r] EXCEPT !.status = "succeeded"])
            \/ /\ pc'[r] = "check" /\ step'[r] = 1
               /\ Recorded(r, [runs[r] EXCEPT !.status = "verifying"])
  <1>1. /\ up /\ cpu = r /\ pc[r] = "applied" /\ runs[r] # None /\ runs[r] \in RunRecords
    BY AtWork DEF ApplyDone, Points
  <1>2. CASE ~runs[r].allUnitsApplied
    <2>. DEFINE run == [runs[r] EXCEPT !.status = "rollback_pending"]
    <2>1. run \in RunRecords /\ run.proposal = runs[r].proposal
      BY <1>1, RunUpdates DEF Statuses, ActiveStatuses
    <2>2. Writes(r, run)
      BY <1>2, Zenon DEF ApplyDone, Writes
    <2>5. /\ pc' = [pc EXCEPT ![r] = "rollback"] /\ UNCHANGED << cpu, step >>
          /\ UNCHANGED << verdict, lost, content, backup, written, process >>
      BY <1>2, Zenon DEF ApplyDone, Goto
    <2>. HIDE DEF run
    <2>3. TypeOK' /\ Turn(r) /\ Advances(r) /\ Recorded(r, run) /\ pc'[r] = "rollback"
      BY <1>1, <2>1, <2>2, <2>5, RecordStep DEF Points, TypeOK
    <2>. QED  BY <1>1, <2>3 DEF run
  <1>3. CASE runs[r].allUnitsApplied /\ runs[r].dryRun
    <2>. DEFINE run == [runs[r] EXCEPT !.status = "succeeded"]
    <2>1. run \in RunRecords /\ run.proposal = runs[r].proposal
      BY <1>1, RunUpdates DEF Statuses, TerminalStatuses
    <2>2. Writes(r, run)
      BY <1>3, Zenon DEF ApplyDone, Writes
    <2>5. /\ pc' = [pc EXCEPT ![r] = "done"] /\ cpu' = None /\ UNCHANGED step
          /\ UNCHANGED << verdict, lost, content, backup, written, process >>
      BY <1>3, Zenon DEF ApplyDone, Return, Goto
    <2>. HIDE DEF run
    <2>3. TypeOK' /\ Turn(r) /\ Advances(r) /\ Recorded(r, run) /\ pc'[r] = "done"
      BY <1>1, <2>1, <2>2, <2>5, RecordStep DEF Points, TypeOK
    <2>. QED  BY <1>1, <1>3, <2>3 DEF run
  <1>4. CASE runs[r].allUnitsApplied /\ ~runs[r].dryRun
    <2>. DEFINE run == [runs[r] EXCEPT !.status = "verifying"]
    <2>1. run \in RunRecords /\ run.proposal = runs[r].proposal
      BY <1>1, RunUpdates DEF Statuses, ActiveStatuses
    <2>2. Writes(r, run)
      BY <1>4, Zenon DEF ApplyDone, Writes
    <2>5. /\ pc' = [pc EXCEPT ![r] = "check"] /\ step' = [step EXCEPT ![r] = 1]
          /\ UNCHANGED << cpu, verdict, lost, content, backup, written, process >>
      BY <1>4, Zenon DEF ApplyDone, Goto
    <2>3. /\ step' \in [Runs -> Nat \ {0}] /\ step'[r] = 1
          /\ \A q \in Runs \ {r} : step'[q] = step[q]
      BY <2>5 DEF TypeOK
    <2>. HIDE DEF run
    <2>4. TypeOK' /\ Turn(r) /\ Advances(r) /\ Recorded(r, run) /\ pc'[r] = "check"
      BY <1>1, <2>1, <2>2, <2>3, <2>5, RecordStep DEF Points
    <2>. QED  BY <1>1, <2>3, <2>4 DEF run
  <1>. QED  BY <1>2, <1>3, <1>4

\* Updates of a verdict.
LEMMA VerdictUpdates ==
  ASSUME NEW v \in Verdicts, NEW i \in CheckIndices, NEW b \in BOOLEAN
  PROVE  /\ [v EXCEPT !.timedOut = TRUE] \in Verdicts
         /\ [v EXCEPT !.blocked = TRUE] \in Verdicts
         /\ [v EXCEPT !.passed = v.passed \cup {i}] \in Verdicts
         /\ [v EXCEPT !.failed = v.failed \cup {i}, !.blocked = b] \in Verdicts
  BY DEF Verdicts

LEMMA SetVerdict ==
  ASSUME TypeOK, NEW r \in Runs, NEW v \in Verdicts, verdict' = [verdict EXCEPT ![r] = v]
  PROVE  /\ verdict' \in [Runs -> Verdicts] /\ verdict'[r] = v
         /\ \A q \in Runs \ {r} : verdict'[q] = verdict[q]
  BY DEF TypeOK

LEMMA EndChecksStep ==
  ASSUME TypeOK, Places, NEW r \in Runs, EndChecks(r)
  PROVE  /\ TypeOK' /\ Turn(r) /\ Advances(r) /\ pc[r] = "check" /\ pc'[r] = "judge"
         /\ \/ ~CommandsLeft(r) /\ UNCHANGED verdict
            \/ verdict' = [verdict EXCEPT ![r].timedOut = TRUE]
            \/ verdict' = [verdict EXCEPT ![r].blocked = TRUE]
  <1>1. /\ up /\ cpu = r /\ pc[r] = "check" /\ runs[r] # None /\ runs[r] \in RunRecords
    BY AtWork DEF EndChecks, Points
  <1>2. \/ ~CommandsLeft(r) /\ UNCHANGED verdict
        \/ verdict' = [verdict EXCEPT ![r].timedOut = TRUE]
        \/ verdict' = [verdict EXCEPT ![r].blocked = TRUE]
    BY DEF EndChecks
  <1>3. /\ verdict' \in [Runs -> Verdicts]
        /\ \A q \in Runs \ {r} : verdict'[q] = verdict[q]
    <2>1. CASE UNCHANGED verdict
      BY <2>1 DEF TypeOK
    <2>2. verdict[r] \in Verdicts
      BY DEF TypeOK
    <2>3. CASE verdict' = [verdict EXCEPT ![r].timedOut = TRUE]
      <3>1. [verdict[r] EXCEPT !.timedOut = TRUE] \in Verdicts
        BY <2>2 DEF Verdicts
      <3>. QED  BY <2>3, <3>1, SetVerdict
    <2>4. CASE verdict' = [verdict EXCEPT ![r].blocked = TRUE]
      <3>1. [verdict[r] EXCEPT !.blocked = TRUE] \in Verdicts
        BY <2>2 DEF Verdicts
      <3>. QED  BY <2>4, <3>1, SetVerdict
    <2>. QED  BY <1>2, <2>1, <2>3, <2>4
  <1>4. TypeOK' /\ Turn(r) /\ Advances(r) /\ pc'[r] = "judge"
    BY <1>1, <1>3, QuietStep DEF EndChecks, Goto, memory, disk, Points, TypeOK
  <1>. QED  BY <1>1, <1>2, <1>4

LEMMA RunCommandStep ==
  ASSUME TypeOK, Places, NEW r \in Runs, RunCommand(r)
  PROVE  /\ TypeOK' /\ Turn(r) /\ Advances(r) /\ pc[r] = "check"
         /\ \/ /\ pc'[r] = "check" /\ step'[r] = step[r] + 1
               /\ verdict' = [verdict EXCEPT ![r].blocked = TRUE]
            \/ pc'[r] = "running" /\ UNCHANGED << step, verdict >>
  <1>1. /\ up /\ cpu = r /\ pc[r] = "check" /\ runs[r] # None /\ runs[r] \in RunRecords
    BY AtWork DEF RunCommand, Points
  <1>2. step[r] \in DOMAIN ChecksOf(r)
    BY <1>1, RunData DEF RunCommand, CommandsLeft, TypeOK
  <1>3. used' \in [Runs -> [DOMAIN NoUsage -> Nat]]
    BY CountedUse DEF RunCommand, NoUsage
  <1>4. CASE ChecksOf(r)[step[r]] = "disallowed"
    <2>1. /\ verdict' = [verdict EXCEPT ![r].blocked = TRUE]
          /\ step' = [step EXCEPT ![r] = step[r] + 1]
          /\ UNCHANGED << pc, cpu >>
      BY <1>4 DEF RunCommand
    <2>2. [verdict[r] EXCEPT !.blocked = TRUE] \in Verdicts
      BY DEF TypeOK, Verdicts
    <2>3. /\ verdict' \in [Runs -> Verdicts]
          /\ \A q \in Runs \ {r} : verdict'[q] = verdict[q]
      BY <2>1, <2>2, SetVerdict
    <2>4. /\ step' \in [Runs -> Nat \ {0}] /\ step'[r] = step[r] + 1
          /\ \A q \in Runs \ {r} : step'[q] = step[q]
      BY <2>1 DEF TypeOK
    <2>5. pc' = [pc EXCEPT ![r] = "check"] /\ cpu' = r
      BY <1>1, <2>1 DEF TypeOK
    <2>6. TypeOK' /\ Turn(r) /\ Advances(r) /\ pc'[r] = "check"
      BY <1>1, <1>3, <2>3, <2>4, <2>5, QuietStep DEF RunCommand, disk, Points, TypeOK
    <2>. QED  BY <1>1, <2>1, <2>4, <2>6
  <1>5. CASE ChecksOf(r)[step[r]] # "disallowed"
    <2>1. /\ pc' = [pc EXCEPT ![r] = "running"] /\ cpu' = None
          /\ UNCHANGED << verdict, step >>
      BY <1>5 DEF RunCommand, Goto
    <2>2. TypeOK' /\ Turn(r) /\ Advances(r) /\ pc'[r] = "running"
      BY <1>1, <1>2, <1>3, <2>1, QuietStep DEF RunCommand, disk, Points, TypeOK
    <2>. QED  BY <1>1, <2>1, <2>2
  <1>. QED  BY <1>4, <1>5

\* A run's pipeline is at a place that leaves the turn to others.
LEMMA Waiting ==
  ASSUME TypeOK, Places, NEW r \in Runs, EventLoopFree, runs[r] # None
  PROVE  /\ up /\ cpu = None /\ runs[r] \in RunRecords
         /\ pc[r] \in {"running", "done"}
         /\ pc[r] = "running" => step[r] \in DOMAIN ChecksOf(r)
  BY NoneAssumption DEF EventLoopFree, Places, PlaceOK, PipelineLive, TypeOK

LEMMA CommandReturnsStep ==
  ASSUME TypeOK, Places, NEW r \in Runs, NEW passed \in BOOLEAN, CommandReturns(r, passed)
  PROVE  /\ TypeOK' /\ Turn(r) /\ Advances(r) /\ pc[r] = "running"
         /\ pc'[r] \in {"check", "judge"} /\ step'[r] = step[r] + 1
         /\ step[r] \in DOMAIN ChecksOf(r)
         /\ \/ /\ pc'[r] = "check"
               /\ verdict' = [verdict EXCEPT ![r].passed = @ \cup {step[r]}]
            \/ /\ pc'[r] = "check"
               /\ verdict'[r].failed = verdict[r].failed \cup {step[r]}
               /\ verdict'[r].passed = verdict[r].passed
            \/ verdict'[r].blocked
         /\ verdict'[r].timedOut = verdict[r].timedOut
  <1>1. /\ up /\ cpu = None /\ pc[r] = "running" /\ runs[r] # None /\ runs[r] \in RunRecords
        /\ step[r] \in DOMAIN ChecksOf(r) /\ step[r] \in CheckIndices /\ step[r] + 1 \in Nat \ {0}
    <2>1. /\ up /\ cpu = None /\ pc[r] = "running" /\ runs[r] # None
      BY DEF CommandReturns, EventLoopFree, Places, PlaceOK, PipelineLive
    <2>. QED  BY <2>1, RunData DEF Places, PlaceOK, TypeOK
  <1>. DEFINE critical == ChecksOf(r)[step[r]] = "critical"
              point == IF critical /\ ~passed THEN "judge" ELSE "check"
              blocked == verdict[r].blocked \/ critical
              v == IF passed THEN [verdict[r] EXCEPT !.passed = verdict[r].passed \cup {step[r]}]
                   ELSE [verdict[r] EXCEPT !.failed = verdict[r].failed \cup {step[r]},
                                           !.blocked = blocked]
  <1>2. /\ cpu' = r /\ pc' = [pc EXCEPT ![r] = point]
        /\ step' = [step EXCEPT ![r] = step[r] + 1]
        /\ UNCHANGED << memory, lost, disk, process >>
    BY DEF CommandReturns, Goto
  <1>3. verdict[r] \in Verdicts
    BY DEF TypeOK
  <1>4. verdict' = [verdict EXCEPT ![r] = v]
    <2>1. CASE passed
      BY <2>1 DEF CommandReturns
    <2>2. CASE ~passed
      <3>1. verdict' = [verdict EXCEPT ![r].failed = @ \cup {step[r]},
                                       ![r].blocked = @ \/ critical]
        BY <2>2, Zenon DEF CommandReturns
      <3>2. [verdict[r] EXCEPT !.failed = verdict[r].failed \cup {step[r]}].blocked
              = verdict[r].blocked
        BY <1>3 DEF Verdicts
      <3>. QED  BY <2>2, <3>1, <3>2, <1>3 DEF TypeOK
    <2>. QED  BY <2>1, <2>2
  <1>5. v \in Verdicts
    <2>1. blocked \in BOOLEAN
      BY <1>3 DEF Verdicts
    <2>. HIDE DEF blocked
    <2>. QED  BY <1>1, <1>3, <2>1, VerdictUpdates
  <1>6. \/ point = "check" /\ passed
        \/ point = "check" /\ ~passed
        \/ point = "judge" /\ v.blocked
    <2>1. CASE critical /\ ~passed
      <3>1. blocked = TRUE
        BY <2>1
      <3>2. v = [verdict[r] EXCEPT !.failed = verdict[r].failed \cup {step[r]}, !.blocked = blocked]
        BY <2>1
      <3>. HIDE DEF blocked, v
      <3>. QED  BY <1>3, <2>1, <3>1, <3>2 DEF Verdicts
    <2>2. CASE ~(critical /\ ~passed)
      BY <2>2
    <2>. QED  BY <2>1, <2>2
  <1>7. ~passed => /\ v.failed = verdict[r].failed \cup {step[r]}
                   /\ v.passed = verdict[r].passed
    BY <1>3 DEF Verdicts
  <1>8. point \in {"check", "judge"}
    OBVIOUS
  <1>13. v.timedOut = verdict[r].timedOut
    BY <1>3 DEF Verdicts
  <1>9. passed => v = [verdict[r] EXCEPT !.passed = @ \cup {step[r]}]
    OBVIOUS
  <1>. HIDE DEF v, point, critical, blocked
  <1>10. /\ verdict' \in [Runs -> Verdicts] /\ verdict'[r] = v
         /\ \A q \in Runs \ {r} : verdict'[q] = verdict[q]
    BY <1>4, <1>5, SetVerdict
  <1>11. /\ step' \in [Runs -> Nat \ {0}] /\ step'[r] = step[r] + 1
         /\ \A q \in Runs \ {r} : step'[q] = step[q]
    BY <1>1, <1>2 DEF TypeOK
  <1>12. TypeOK' /\ Turn(r) /\ Advances(r) /\ pc'[r] = point
    BY <1>1, <1>2, <1>8, <1>10, <1>11, QuietStep DEF memory, disk, Points, TypeOK
  <1>. QED  BY <1>1, <1>4, <1>6, <1>7, <1>8, <1>9, <1>10, <1>11, <1>12, <1>13

\* What Judge writes into the run record.
Judged(r) ==
    [runs[r] EXCEPT !.verification =
        [done |-> TRUE, verdict |-> verdict[r],
         overallPassed |-> OverallPassed(r), manualCheckRecorded |-> FALSE]]

LEMMA JudgedData ==
  ASSUME TypeOK, NEW r \in Runs, runs[r] \in RunRecords
  PROVE  /\ Judged(r) \in RunRecords /\ Judged(r).status = runs[r].status
         /\ Judged(r).proposal = runs[r].proposal
         /\ Judged(r).snapshot = runs[r].snapshot
         /\ Judged(r).dryRun = runs[r].dryRun
         /\ Judged(r).verification.done = TRUE
         /\ Judged(r).verification.verdict = verdict[r]
  <1>1. verdict[r] \in Verdicts
    BY DEF TypeOK
  <1>2. OverallPassed(r) \in BOOLEAN
    BY Zenon DEF OverallPassed
  <1>3. Judged(r) = [runs[r] EXCEPT !.verification =
                        [done |-> TRUE, verdict |-> verdict[r],
                         overallPassed |-> OverallPassed(r), manualCheckRecorded |-> FALSE]]
    BY Zenon DEF Judged
  <1>. DEFINE o == OverallPassed(r)
              y == Judged(r)
  <1>4. o \in BOOLEAN
    BY <1>2
  <1>5. y = [runs[r] EXCEPT !.verification =
               [done |-> TRUE, verdict |-> verdict[r],
                overallPassed |-> o, manualCheckRecorded |-> FALSE]]
    BY <1>3, Zenon
  <1>. HIDE DEF o, y
  <1>6. /\ y \in RunRecords /\ y.status = runs[r].status /\ y.proposal = runs[r].proposal
        /\ y.snapshot = runs[r].snapshot /\ y.dryRun = runs[r].dryRun
        /\ y.verification.done = TRUE /\ y.verification.verdict = verdict[r]
    BY <1>1, <1>4, <1>5 DEF RunRecords
  <1>. QED  BY <1>6 DEF y

LEMMA JudgeStep ==
  ASSUME TypeOK, Places, NEW r \in Runs, Judge(r)
  PROVE  /\ TypeOK' /\ Turn(r) /\ Advances(r) /\ pc[r] = "judge"
         /\ \/ /\ pc'[r] = "done" /\ runs[r].proposal \in ManualReview
               /\ Recorded(r, Judged(r))
            \/ /\ pc'[r] = "rollback"
               /\ Recorded(r, [Judged(r) EXCEPT !.status = "failed_verification"])
            \/ /\ pc'[r] = "done" /\ OverallPassed(r)
               /\ Recorded(r, [Judged(r) EXCEPT !.status = "succeeded"])
  <1>1. /\ up /\ cpu = r /\ pc[r] = "judge" /\ runs[r] # None /\ runs[r] \in RunRecords
    BY AtWork DEF Judge, Points
  <1>2. /\ Judged(r) \in RunRecords /\ Judged(r).status = runs[r].status
        /\ Judged(r).proposal = runs[r].proposal
    BY <1>1, JudgedData
  <1>3. /\ UNCHANGED << step, verdict, lost, content, backup, written, process >>
        /\ \/ /\ runs[r].proposal \in ManualReview
              /\ runs' = [runs EXCEPT ![r] = Judged(r)]
              /\ Save(r, Judged(r))
              /\ pc' = [pc EXCEPT ![r] = "done"] /\ cpu' = None
              /\ UNCHANGED << lock, cooling, used >>
           \/ /\ runs[r].proposal \notin ManualReview /\ ~OverallPassed(r)
              /\ Transition(r, [Judged(r) EXCEPT !.status = "failed_verification"])
              /\ pc' = [pc EXCEPT ![r] = "rollback"] /\ UNCHANGED cpu
           \/ /\ OverallPassed(r)
              /\ Transition(r, [Judged(r) EXCEPT !.status = "succeeded"])
              /\ pc' = [pc EXCEPT ![r] = "done"] /\ cpu' = None
    BY Zenon DEF Judge, Judged, Return, Goto
  <1>4. CASE /\ runs[r].proposal \in ManualReview
             /\ runs' = [runs EXCEPT ![r] = Judged(r)]
             /\ Save(r, Judged(r))
             /\ pc' = [pc EXCEPT ![r] = "done"] /\ cpu' = None
             /\ UNCHANGED << lock, cooling, used >>
    <2>1. Writes(r, Judged(r))
      BY <1>2, <1>4 DEF Writes
    <2>2. TypeOK' /\ Turn(r) /\ Advances(r) /\ Recorded(r, Judged(r)) /\ pc'[r] = "done"
      BY <1>1, <1>2, <1>3, <1>4, <2>1, RecordStep DEF Points, TypeOK
    <2>. QED  BY <1>1, <1>4, <2>2
  <1>5. CASE /\ Transition(r, [Judged(r) EXCEPT !.status = "failed_verification"])
             /\ pc' = [pc EXCEPT ![r] = "rollback"] /\ UNCHANGED cpu
    <2>. DEFINE run == [Judged(r) EXCEPT !.status = "failed_verification"]
    <2>1. run \in RunRecords /\ run.proposal = runs[r].proposal
      BY <1>2, RunUpdates DEF Statuses, ActiveStatuses
    <2>2. Writes(r, run)
      BY <1>5 DEF Writes
    <2>. HIDE DEF run
    <2>3. TypeOK' /\ Turn(r) /\ Advances(r) /\ Recorded(r, run) /\ pc'[r] = "rollback"
      BY <1>1, <1>3, <1>5, <2>1, <2>2, RecordStep DEF Points, TypeOK
    <2>. QED  BY <1>1, <2>3 DEF run
  <1>6. CASE /\ OverallPassed(r)
             /\ Transition(r, [Judged(r) EXCEPT !.status = "succeeded"])
             /\ pc' = [pc EXCEPT ![r] = "done"] /\ cpu' = None
    <2>. DEFINE run == [Judged(r) EXCEPT !.status = "succeeded"]
    <2>1. run \in RunRecords /\ run.proposal = runs[r].proposal
      BY <1>2, RunUpdates DEF Statuses, TerminalStatuses
    <2>2. Writes(r, run)
      BY <1>6 DEF Writes
    <2>. HIDE DEF run
    <2>3. TypeOK' /\ Turn(r) /\ Advances(r) /\ Recorded(r, run) /\ pc'[r] = "done"
      BY <1>1, <1>3, <1>6, <2>1, <2>2, RecordStep DEF Points, TypeOK
    <2>. QED  BY <1>1, <1>6, <2>3 DEF run
  <1>. QED  BY <1>3, <1>4, <1>5, <1>6

LEMMA BeginRollbackStep ==
  ASSUME TypeOK, Places, NEW r \in Runs, BeginRollback(r)
  PROVE  /\ TypeOK' /\ Turn(r) /\ Advances(r)
         /\ pc[r] = "rollback" /\ pc'[r] = "restore" /\ step'[r] = 1
         /\ Recorded(r, [runs[r] EXCEPT !.status = "rolling_back"])
  <1>1. /\ up /\ cpu = r /\ pc[r] = "rollback" /\ runs[r] # None /\ runs[r] \in RunRecords
    BY AtWork DEF BeginRollback, Points
  <1>. DEFINE run == [runs[r] EXCEPT !.status = "rolling_back"]
  <1>2. run \in RunRecords /\ run.proposal = runs[r].proposal
    BY <1>1, RunUpdates DEF Statuses, ActiveStatuses
  <1>3. Writes(r, run)
    BY DEF BeginRollback, Writes
  <1>4. /\ step' \in [Runs -> Nat \ {0}] /\ step'[r] = 1
        /\ \A q \in Runs \ {r} : step'[q] = step[q]
    BY DEF BeginRollback, TypeOK
  <1>. HIDE DEF run
  <1>5. TypeOK' /\ Turn(r) /\ Advances(r) /\ Recorded(r, run) /\ pc'[r] = "restore"
    BY <1>1, <1>2, <1>3, <1>4, RecordStep DEF BeginRollback, Goto, Points
  <1>. QED  BY <1>1, <1>4, <1>5 DEF run

\* A rollback step is at a unit of the plan.
LEMMA RollbackUnit ==
  ASSUME TypeOK, Places, NEW r \in Runs, At(r, "restore"), RollbackStepsLeft(r)
  PROVE  /\ step[r] \in DOMAIN UnitsOf(r) /\ step[r] \in UnitIndices
         /\ UnitAt(r).file \in Files
         /\ step[r] + 1 \in Nat \ {0}
  <1>1. runs[r] # None
    BY AtWork DEF Points
  <1>2. step[r] \in Nat \ {0}
    BY DEF TypeOK
  <1>3. step[r] \in DOMAIN UnitsOf(r)
    BY <1>1, <1>2, RunData DEF RollbackStepsLeft
  <1>. QED  BY <1>1, <1>2, <1>3, RunData

\* The next rollback step, whatever became of this one.
LEMMA RollbackOn ==
  ASSUME TypeOK, Places, NEW r \in Runs, At(r, "restore"), RollbackStepsLeft(r),
         content' \in Contents, used' \in [Runs -> [DOMAIN NoUsage -> Nat]],
         lost' \in [Runs -> SUBSET Files], step' = [step EXCEPT ![r] = step[r] + 1],
         UNCHANGED << runs, lock, cooling, pc, verdict, cpu, saved, backup, written, process >>
  PROVE  /\ TypeOK' /\ Turn(r) /\ Advances(r) /\ pc[r] = "restore" /\ pc'[r] = "restore"
  <1>1. /\ up /\ cpu = r /\ pc[r] = "restore" /\ runs[r] # None /\ runs[r] \in RunRecords
    BY AtWork DEF Points
  <1>2. /\ step' \in [Runs -> Nat \ {0}]
        /\ \A q \in Runs \ {r} : step'[q] = step[q]
    BY RollbackUnit DEF TypeOK
  <1>3. pc' = [pc EXCEPT ![r] = "restore"]
    BY <1>1 DEF TypeOK
  <1>4. TypeOK' /\ Turn(r) /\ Advances(r) /\ pc'[r] = "restore"
    BY <1>1, <1>2, <1>3, QuietStep DEF Points, TypeOK
  <1>. QED  BY <1>1, <1>4

LEMMA RestoreFileStep ==
  ASSUME TypeOK, Places, NEW r \in Runs, RestoreFile(r)
  PROVE  /\ TypeOK' /\ Turn(r) /\ Advances(r) /\ pc[r] = "restore" /\ pc'[r] = "restore"
  <1>1. At(r, "restore") /\ RollbackStepsLeft(r)
    BY DEF RestoreFile
  <1>2. Restored(r) \in SUBSET Marks
    BY <1>1, RollbackUnit DEF RestoreFile, Restorable, Restored, TypeOK
  <1>3. content' \in Contents
    BY <1>1, <1>2, RollbackUnit DEF RestoreFile, TypeOK, Contents
  <1>4. used' \in [Runs -> [DOMAIN NoUsage -> Nat]]
    BY CountedUse DEF RestoreFile, NoUsage
  <1>. QED  BY <1>1, <1>3, <1>4, RollbackOn DEF RestoreFile, TypeOK

LEMMA SkipRestoreStep ==
  ASSUME TypeOK, Places, NEW r \in Runs, SkipRestore(r)
  PROVE  /\ TypeOK' /\ Turn(r) /\ Advances(r) /\ pc[r] = "restore" /\ pc'[r] = "restore"
  <1>1. At(r, "restore") /\ RollbackStepsLeft(r)
    BY DEF SkipRestore
  <1>2. UNCHANGED content \/ HalfWriteFile(UnitAt(r).file)
    BY Zenon DEF SkipRestore
  <1>3. content' \in Contents
    <2>1. UnitAt(r).file \in Files /\ {Torn} \in SUBSET Marks
      BY <1>1, RollbackUnit, ExecutionAssumption
    <2>. QED  BY <1>2, <2>1 DEF HalfWriteFile, TypeOK, Contents
  <1>4. UNCHANGED used \/ Consume(r, "rollbackSteps")
    BY DEF SkipRestore
  <1>5. used' \in [Runs -> [DOMAIN NoUsage -> Nat]]
    BY <1>4, CountedUse DEF NoUsage, TypeOK
  <1>6. lost' \in [Runs -> SUBSET Files]
    BY <1>1, RollbackUnit DEF SkipRestore, TypeOK
  <1>. QED  BY <1>1, <1>3, <1>5, <1>6, RollbackOn DEF SkipRestore

LEMMA FinishRollbackStep ==
  ASSUME TypeOK, Places, NEW r \in Runs, FinishRollback(r)
  PROVE  /\ TypeOK' /\ Turn(r) /\ Advances(r)
         /\ pc[r] = "restore" /\ pc'[r] = "done"
         /\ \E st \in {"rolled_back", "aborted"} : Recorded(r, [runs[r] EXCEPT !.status = st])
  <1>1. /\ up /\ cpu = r /\ pc[r] = "restore" /\ runs[r] # None /\ runs[r] \in RunRecords
    BY AtWork DEF FinishRollback, Points
  <1>. DEFINE st == IF lost[r] = {} THEN "rolled_back" ELSE "aborted"
              run == [runs[r] EXCEPT !.status = st]
  <1>2. st \in {"rolled_back", "aborted"}
    OBVIOUS
  <1>3. run \in RunRecords /\ run.proposal = runs[r].proposal
    <2>1. st \in Statuses
      BY <1>2 DEF Statuses, TerminalStatuses
    <2>. HIDE DEF st
    <2>. QED  BY <1>1, <2>1, RunUpdates
  <1>4. Writes(r, run)
    BY DEF FinishRollback, Writes
  <1>. HIDE DEF run
  <1>5. TypeOK' /\ Turn(r) /\ Advances(r) /\ Recorded(r, run) /\ pc'[r] = "done"
    BY <1>1, <1>3, <1>4, RecordStep DEF FinishRollback, Return, Goto, Points, TypeOK
  <1>. QED  BY <1>1, <1>2, <1>5 DEF run

\* A call on a run that leaves its pipeline where it is.
LEMMA CallStep ==
  ASSUME TypeOK, Places, NEW r \in Runs, EventLoopFree, runs[r] # None,
         NEW run \in RunRecords, run.proposal = runs[r].proposal, Writes(r, run),
         UNCHANGED << pc, cpu, step, verdict, lost, content, backup, written, process >>
  PROVE  TypeOK' /\ Turn(r) /\ Advances(r) /\ Recorded(r, run)
  <1>1. /\ up /\ cpu = None /\ pc[r] \in {"running", "done"}
        /\ pc[r] = "running" => step[r] \in DOMAIN ChecksOf(r)
    BY Waiting
  <1>2. pc' = [pc EXCEPT ![r] = pc[r]] /\ pc[r] \in Points \ {"none"}
    BY <1>1 DEF TypeOK, Points
  <1>. QED  BY <1>1, <1>2, RecordStep DEF TypeOK

LEMMA UserAbortStep ==
  ASSUME TypeOK, Places, NEW r \in Runs, UserAbort(r)
  PROVE  /\ TypeOK' /\ Turn(r) /\ Advances(r) /\ "abort" \in Faults
         /\ pc' = pc /\ EventLoopFree /\ runs[r] \in RunRecords
         /\ Recorded(r, [runs[r] EXCEPT !.status = "aborted", !.abortReason = "user"])
  <1>1. EventLoopFree /\ runs[r] # None /\ runs[r] \in RunRecords
    BY DEF UserAbort, TypeOK
  <1>. DEFINE run == [runs[r] EXCEPT !.status = "aborted", !.abortReason = "user"]
  <1>2. run \in RunRecords /\ run.proposal = runs[r].proposal
    BY <1>1, RunUpdates DEF Statuses, TerminalStatuses
  <1>3. Writes(r, run)
    BY DEF UserAbort, Writes
  <1>. HIDE DEF run
  <1>4. TypeOK' /\ Turn(r) /\ Advances(r) /\ Recorded(r, run)
    BY <1>1, <1>2, <1>3, CallStep DEF UserAbort, pipeline
  <1>. QED  BY <1>1, <1>4 DEF run, UserAbort, pipeline

\* What recordManualCheck makes of the verification.
Overall(r, passed) ==
    /\ passed
    /\ runs[r].verification.verdict.failed = {}
    /\ ~runs[r].verification.verdict.blocked

Checked(r, passed) ==
    [runs[r] EXCEPT !.verification.manualCheckRecorded = TRUE,
                    !.verification.overallPassed = Overall(r, passed)]

LEMMA CheckedData ==
  ASSUME TypeOK, NEW r \in Runs, NEW passed \in BOOLEAN, runs[r] \in RunRecords
  PROVE  /\ Checked(r, passed) \in RunRecords /\ Checked(r, passed).status = runs[r].status
         /\ Checked(r, passed).proposal = runs[r].proposal
         /\ Checked(r, passed).snapshot = runs[r].snapshot
         /\ Checked(r, passed).dryRun = runs[r].dryRun
         /\ Checked(r, passed).allUnitsApplied = runs[r].allUnitsApplied
         /\ Checked(r, passed).verification.done = runs[r].verification.done
         /\ Checked(r, passed).verification.verdict = runs[r].verification.verdict
         /\ Checked(r, passed).verification.manualCheckRecorded = TRUE
  <1>. DEFINE o == Overall(r, passed)
              w == [runs[r].verification EXCEPT !.manualCheckRecorded = TRUE, !.overallPassed = o]
              y == Checked(r, passed)
  <1>1. o \in BOOLEAN
    BY Zenon DEF Overall
  <1>2. y = [[runs[r] EXCEPT !.verification.manualCheckRecorded = TRUE]
               EXCEPT !.verification.overallPassed = o]
    BY Zenon DEF Checked
  <1>. HIDE DEF o, y
  <1>3. y = [runs[r] EXCEPT !.verification = w]
    BY <1>1, <1>2 DEF RunRecords
  <1>4. /\ w \in [done : BOOLEAN, verdict : Verdicts, overallPassed : BOOLEAN,
                  manualCheckRecorded : BOOLEAN]
        /\ w.done = runs[r].verification.done /\ w.verdict = runs[r].verification.verdict
        /\ w.manualCheckRecorded = TRUE
    BY <1>1 DEF RunRecords
  <1>. HIDE DEF w
  <1>5. /\ y \in RunRecords /\ y.status = runs[r].status /\ y.proposal = runs[r].proposal
        /\ y.snapshot = runs[r].snapshot /\ y.dryRun = runs[r].dryRun
        /\ y.allUnitsApplied = runs[r].allUnitsApplied /\ y.verification = w
    BY <1>1, <1>3, <1>4 DEF RunRecords
  <1>. QED  BY <1>4, <1>5 DEF y

LEMMA ManualCheckStep ==
  ASSUME TypeOK, Places, NEW r \in Runs, NEW passed \in BOOLEAN, ManualCheck(r, passed)
  PROVE  /\ TypeOK' /\ Turn(r) /\ Advances(r)
         /\ EventLoopFree /\ runs[r] \in RunRecords /\ runs[r].verification.done
         /\ \/ /\ pc' = pc /\ runs[r].status = "verifying" /\ Overall(r, passed)
               /\ Recorded(r, [Checked(r, passed) EXCEPT !.status = "succeeded"])
            \/ /\ pc'[r] = "rollback" /\ runs[r].status = "verifying"
               /\ Recorded(r, [Checked(r, passed) EXCEPT !.status = "failed_verification"])
            \/ /\ pc' = pc /\ UNCHANGED << lock, cooling >>
               /\ Recorded(r, Checked(r, passed))
  <1>1. EventLoopFree /\ runs[r] # None /\ runs[r] \in RunRecords
    BY DEF ManualCheck, TypeOK
  <1>2. /\ Checked(r, passed) \in RunRecords /\ Checked(r, passed).status = runs[r].status
        /\ Checked(r, passed).proposal = runs[r].proposal
    BY <1>1, CheckedData
  <1>3. /\ runs[r].verification.done
        /\ UNCHANGED << step, verdict, lost, content, backup, written, process >>
        /\ \/ /\ runs[r].status = "verifying" /\ Overall(r, passed)
              /\ Transition(r, [Checked(r, passed) EXCEPT !.status = "succeeded"])
              /\ UNCHANGED << pc, cpu >>
           \/ /\ runs[r].status = "verifying"
              /\ Transition(r, [Checked(r, passed) EXCEPT !.status = "failed_verification"])
              /\ pc' = [pc EXCEPT ![r] = "rollback"]
              /\ cpu' = r
           \/ /\ runs' = [runs EXCEPT ![r] = Checked(r, passed)]
              /\ Save(r, Checked(r, passed))
              /\ UNCHANGED << lock, cooling, used, pc, cpu >>
    BY Zenon DEF ManualCheck, Checked, Overall, Goto
  <1>4. CASE /\ runs[r].status = "verifying" /\ Overall(r, passed)
             /\ Transition(r, [Checked(r, passed) EXCEPT !.status = "succeeded"])
             /\ UNCHANGED << pc, cpu >>
    <2>. DEFINE run == [Checked(r, passed) EXCEPT !.status = "succeeded"]
    <2>1. run \in RunRecords /\ run.proposal = runs[r].proposal
      BY <1>2, RunUpdates DEF Statuses, TerminalStatuses
    <2>2. Writes(r, run)
      BY <1>4 DEF Writes
    <2>. HIDE DEF run
    <2>3. TypeOK' /\ Turn(r) /\ Advances(r) /\ Recorded(r, run)
      BY <1>1, <1>3, <1>4, <2>1, <2>2, CallStep
    <2>. QED  BY <1>1, <1>3, <1>4, <2>3, Zenon DEF run
  <1>5. CASE /\ runs[r].status = "verifying"
             /\ Transition(r, [Checked(r, passed) EXCEPT !.status = "failed_verification"])
             /\ pc' = [pc EXCEPT ![r] = "rollback"]
             /\ cpu' = r
    <2>. DEFINE run == [Checked(r, passed) EXCEPT !.status = "failed_verification"]
    <2>1. run \in RunRecords /\ run.proposal = runs[r].proposal
      BY <1>2, RunUpdates DEF Statuses, ActiveStatuses
    <2>2. Writes(r, run)
      BY <1>5 DEF Writes
    <2>. HIDE DEF run
    <2>3. TypeOK' /\ Turn(r) /\ Advances(r) /\ Recorded(r, run) /\ pc'[r] = "rollback"
      BY <1>1, <1>3, <1>5, <2>1, <2>2, Waiting, RecordStep DEF Points, TypeOK
    <2>. QED  BY <1>1, <1>3, <1>5, <2>3, Zenon DEF run
  <1>6. CASE /\ runs' = [runs EXCEPT ![r] = Checked(r, passed)]
             /\ Save(r, Checked(r, passed))
             /\ UNCHANGED << lock, cooling, used, pc, cpu >>
    <2>1. Writes(r, Checked(r, passed))
      BY <1>2, <1>6 DEF Writes
    <2>2. TypeOK' /\ Turn(r) /\ Advances(r) /\ Recorded(r, Checked(r, passed))
      BY <1>1, <1>2, <1>3, <1>6, <2>1, CallStep
    <2>. QED  BY <1>1, <1>3, <1>6, <2>2
  <1>. QED  BY <1>3, <1>4, <1>5, <1>6

\* A new run has a record of its own.
LEMMA NewRunData ==
  ASSUME NEW p \in Proposals, NEW dryRun \in BOOLEAN
  PROVE  /\ NewRun(p, dryRun) \in RunRecords /\ NewRun(p, dryRun).proposal = p
         /\ NewRun(p, dryRun).status = "pending_execution"
         /\ NewRun(p, dryRun).snapshot = None
         /\ NewRun(p, dryRun).verification.done = FALSE
  BY DEF NewRun, RunRecords, NoResult, NoVerdict, Verdicts, Statuses, ActiveStatuses

LEMMA StartStep ==
  ASSUME TypeOK, Places, NEW r \in Runs, NEW p \in Proposals, NEW dryRun \in BOOLEAN,
         Start(r, p, dryRun)
  PROVE  /\ TypeOK' /\ Turn(r) /\ EventLoopFree /\ runs[r] = None
         /\ pc[r] = "none" /\ pc'[r] = "validate"
         /\ Recorded(r, NewRun(p, dryRun))
         /\ ~IsSubsystemLocked(Subsystem[p]) /\ Subsystem[p] \in Subsystems \ cooling
         /\ lock' = [lock EXCEPT ![Subsystem[p]] = r]
         /\ UNCHANGED << cooling, step, verdict, lost, content, backup, written, process >>
  <1>. DEFINE run == NewRun(p, dryRun)
  <1>1. run \in RunRecords /\ run # None
    BY NewRunData, RunFields
  <1>2. /\ EventLoopFree /\ pc[r] = "none" /\ ~IsSubsystemLocked(Subsystem[p])
        /\ Subsystem[p] \notin cooling
        /\ runs' = [runs EXCEPT ![r] = run] /\ Save(r, run)
        /\ lock' = [lock EXCEPT ![Subsystem[p]] = r]
        /\ used' = [used EXCEPT ![r] = NoUsage]
        /\ cpu' = r /\ pc' = [pc EXCEPT ![r] = "validate"]
        /\ UNCHANGED << cooling, step, verdict, lost, content, backup, written, process >>
    BY DEF Start, Goto
  <1>3. Subsystem[p] \in Subsystems /\ NoUsage \in [DOMAIN NoUsage -> Nat]
    BY ProposalData DEF NoUsage
  <1>. HIDE DEF run
  <1>4. /\ saved' \in [Runs -> RunRecords \cup {None, Unreadable}]
        /\ \A q \in Runs \ {r} : saved'[q] = saved[q]
        /\ saved'[r] = run \/ ("save" \in Faults /\ saved'[r] = saved[r])
    BY <1>1, <1>2, SaveEffect
  <1>5. /\ runs' \in [Runs -> RunRecords \cup {None}] /\ runs'[r] = run
        /\ \A q \in Runs \ {r} : runs'[q] = runs[q]
    BY <1>1, <1>2 DEF TypeOK
  <1>6. /\ pc' \in [Runs -> Points] /\ pc'[r] = "validate"
        /\ \A q \in Runs \ {r} : pc'[q] = pc[q]
    BY <1>2 DEF TypeOK, Points
  <1>7. TypeOK'
    BY <1>2, <1>3, <1>4, <1>5, <1>6 DEF TypeOK, process
  <1>8. runs[r] = None
    BY <1>2 DEF Places, PlaceOK
  <1>9. OthersKeep(r)
    BY <1>2, <1>4, <1>5, <1>6 DEF OthersKeep
  <1>10. PlaceOK(r)'
    BY <1>1, <1>2, <1>5, <1>6 DEF PlaceOK, PipelineLive, process, EventLoopFree
  <1>11. Turn(r)
    BY <1>2, <1>9, <1>10 DEF Turn, EventLoopFree, process
  <1>12. Recorded(r, run)
    BY <1>4, <1>5 DEF Recorded
  <1>. QED  BY <1>2, <1>3, <1>6, <1>7, <1>8, <1>11, <1>12 DEF run

LEMMA CooldownExpiresStep ==
  ASSUME TypeOK, Places, NEW s \in Subsystems, CooldownExpires(s)
  PROVE  TypeOK' /\ Places'
  <1>1. /\ cooling' = cooling \ {s}
        /\ UNCHANGED << runs, saved, lock, used, pipeline, content, backup, written, process >>
    BY DEF CooldownExpires
  <1>2. TypeOK'
    BY <1>1 DEF TypeOK, pipeline, process
  <1>3. Recovering'
    BY <1>1 DEF Places, Recovering, process
  <1>4. ASSUME NEW q \in Runs PROVE PlaceOK(q)'
    BY <1>1 DEF Places, PlaceOK, PipelineLive, UnitsOf, ChecksOf, pipeline, process
  <1>. QED  BY <1>2, <1>3, <1>4 DEF Places

\* A run that is recovered had begun, and has ended.
LEMMA Recoverable ==
  ASSUME TypeOK, Places, NEW r \in Runs, ~up, Unrecovered(r)
  PROVE  pc[r] = "done" /\ runs[r] = None /\ saved[r] \in RunRecords
  <1>1. saved[r] \notin {None, Unreadable} /\ runs[r] = None
    BY DEF Unrecovered, Stale
  <1>2. pc[r] # "none" /\ ~PipelineLive(r)
    BY <1>1 DEF Places, PlaceOK
  <1>. QED  BY <1>1, <1>2 DEF PipelineLive, TypeOK

LEMMA RecoverStep ==
  ASSUME TypeOK, Places, NEW r \in Runs, Recover(r)
  PROVE  /\ TypeOK' /\ Places' /\ ~up /\ OthersKeep(r)
         /\ runs[r] = None /\ saved[r] \in RunRecords
         /\ Recorded(r, [saved[r] EXCEPT !.status = "aborted", !.abortReason = "crash_recovery"])
         /\ Subsystem[saved[r].proposal] \in Subsystems
         /\ lock' = [lock EXCEPT ![Subsystem[saved[r].proposal]] = None]
         /\ UNCHANGED << pipeline, content, backup, written, process >>
  <1>. DEFINE run == [saved[r] EXCEPT !.status = "aborted", !.abortReason = "crash_recovery"]
              s == Subsystem[saved[r].proposal]
  <1>1. /\ ~up /\ Unrecovered(r)
        /\ runs' = [runs EXCEPT ![r] = run] /\ Save(r, run)
        /\ lock' = [lock EXCEPT ![s] = None] /\ cooling' = cooling \cup {s}
        /\ UNCHANGED << used, pipeline, content, backup, written, process >>
    BY DEF Recover
  <1>2. pc[r] = "done" /\ runs[r] = None /\ saved[r] \in RunRecords
    BY <1>1, Recoverable
  <1>3. run \in RunRecords /\ run # None /\ run.status = "aborted" /\ s \in Subsystems
    <2>1. run \in RunRecords /\ run.status = "aborted"
      BY <1>2, RunUpdates DEF Statuses, TerminalStatuses
    <2>2. s \in Subsystems
      BY <1>2, RunFields, ProposalData
    <2>. HIDE DEF run, s
    <2>. QED  BY <2>1, <2>2, RunFields
  <1>. HIDE DEF run, s
  <1>4. /\ saved' \in [Runs -> RunRecords \cup {None, Unreadable}]
        /\ \A q \in Runs \ {r} : saved'[q] = saved[q]
        /\ saved'[r] = run \/ ("save" \in Faults /\ saved'[r] = saved[r])
    BY <1>1, <1>3, SaveEffect
  <1>5. /\ runs' \in [Runs -> RunRecords \cup {None}] /\ runs'[r] = run
        /\ \A q \in Runs \ {r} : runs'[q] = runs[q]
    BY <1>1, <1>3 DEF TypeOK
  <1>6. TypeOK'
    BY <1>1, <1>3, <1>4, <1>5 DEF TypeOK, pipeline, process
  <1>7. Recovering'
    BY <1>1, <1>3, <1>5 DEF Places, Recovering, process
  <1>8. ASSUME NEW q \in Runs PROVE PlaceOK(q)'
    <2>1. ~PipelineLive(q) /\ pc'[q] = pc[q]
      BY <1>1 DEF Places, PlaceOK, pipeline
    <2>2. pc[q] \in {"none", "done"}
      BY <2>1 DEF PipelineLive
    <2>3. CASE pc[q] = "none"
      <3>1. q # r
        BY <1>2, <2>3
      <3>. QED  BY <1>1, <1>4, <1>5, <2>1, <2>3, <3>1 DEF Places, PlaceOK, PipelineLive
    <2>4. CASE pc[q] = "done"
      BY <2>1, <2>4 DEF PlaceOK, PipelineLive
    <2>. QED  BY <2>2, <2>3, <2>4
  <1>9. OthersKeep(r)
    BY <1>1, <1>4, <1>5 DEF OthersKeep, pipeline
  <1>10. Recorded(r, run)
    BY <1>4, <1>5 DEF Recorded
  <1>. QED  BY <1>1, <1>2, <1>3, <1>6, <1>7, <1>8, <1>9, <1>10 DEF Places, run, s

\* What the death of the process does to the disk.
LEMMA TornDisk ==
  ASSUME TypeOK, Places, TearWrite
  PROVE  /\ saved' \in [Runs -> RunRecords \cup {None, Unreadable}]
         /\ content' \in Contents
         /\ backup' \in [Runs -> [UnitIndices -> (SUBSET Marks) \cup {None}]]
         /\ written' \in [Runs -> SUBSET UnitIndices]
         /\ \A r \in Runs : /\ saved'[r] = saved[r] \/ (saved'[r] = Unreadable /\ pc[r] # "none")
                            /\ \/ backup'[r] = backup[r] /\ written'[r] = written[r]
                               \/ pc[r] \in {"backup", "write"}
  <1>1. CASE UNCHANGED disk
    BY <1>1 DEF disk, TypeOK
  <1>2. ASSUME NEW r \in Runs, Saving(r) \/ (~up /\ Unrecovered(r)),
               saved' = [saved EXCEPT ![r] = Unreadable],
               UNCHANGED << content, backup, written >>
        PROVE  pc[r] # "none"
    BY <1>2, Recoverable DEF Saving, At
  <1>3. CASE \E r \in Runs :
                /\ Saving(r) \/ (~up /\ Unrecovered(r))
                /\ saved' = [saved EXCEPT ![r] = Unreadable]
                /\ UNCHANGED << content, backup, written >>
    BY <1>2, <1>3 DEF TypeOK
  <1>4. ASSUME NEW r \in Runs, At(r, "backup"), HalfWriteBackup(r),
               UNCHANGED << saved, content, written >>
        PROVE  /\ pc[r] = "backup" /\ \A q \in Runs \ {r} : backup'[q] = backup[q]
               /\ backup' \in [Runs -> [UnitIndices -> (SUBSET Marks) \cup {None}]]
    <2>1. step[r] \in UnitIndices /\ pc[r] = "backup"
      BY <1>4, AtWork, RunData DEF Points, Places, PlaceOK
    <2>2. {Torn} \in (SUBSET Marks) \cup {None}
      BY ExecutionAssumption
    <2>. QED  BY <1>4, <2>1, <2>2 DEF HalfWriteBackup, TypeOK
  <1>5. ASSUME NEW r \in Runs, At(r, "write"), HalfWriteFile(UnitAt(r).file),
               written' = [written EXCEPT ![r] = @ \cup {step[r]}],
               UNCHANGED << saved, backup >>
        PROVE  /\ pc[r] = "write" /\ \A q \in Runs \ {r} : written'[q] = written[q]
               /\ written' \in [Runs -> SUBSET UnitIndices] /\ content' \in Contents
    <2>1. step[r] \in UnitIndices /\ pc[r] = "write" /\ UnitAt(r).file \in Files
      BY <1>5, AtWork, RunData DEF Points, Places, PlaceOK
    <2>2. {Torn} \in SUBSET Marks
      BY ExecutionAssumption
    <2>3. content' \in Contents
      BY <1>5, <2>1, <2>2 DEF HalfWriteFile, TypeOK, Contents
    <2>. QED  BY <1>5, <2>1, <2>3 DEF TypeOK
  <1>6. ASSUME NEW r \in Runs, At(r, "restore"), RollbackStepsLeft(r),
               HalfWriteFile(UnitAt(r).file)
        PROVE  content' \in Contents
    <2>1. UnitAt(r).file \in Files
      BY <1>6, RollbackUnit
    <2>2. {Torn} \in SUBSET Marks
      BY ExecutionAssumption
    <2>. QED  BY <1>6, <2>1, <2>2 DEF HalfWriteFile, TypeOK, Contents
  <1>7. CASE \E r \in Runs : /\ At(r, "backup") /\ HalfWriteBackup(r)
                             /\ UNCHANGED << saved, content, written >>
    BY <1>4, <1>7 DEF TypeOK
  <1>8. CASE \E r \in Runs : /\ At(r, "write") /\ HalfWriteFile(UnitAt(r).file)
                             /\ written' = [written EXCEPT ![r] = @ \cup {step[r]}]
                             /\ UNCHANGED << saved, backup >>
    BY <1>5, <1>8 DEF TypeOK
  <1>9. CASE \E r \in Runs : /\ At(r, "restore") /\ RollbackStepsLeft(r)
                             /\ HalfWriteFile(UnitAt(r).file)
                             /\ UNCHANGED << saved, backup, written >>
    BY <1>6, <1>9 DEF TypeOK
  <1>. QED  BY <1>1, <1>3, <1>7, <1>8, <1>9 DEF TearWrite

LEMMA CrashStep ==
  ASSUME TypeOK, Places, Crash
  PROVE  TypeOK' /\ Places' /\ ~up' /\ \A r \in Runs : runs'[r] = None
  <1>1. /\ crashes < MaxCrashes /\ crashes' = crashes + 1 /\ up' = FALSE /\ TearWrite
        /\ runs' = [r \in Runs |-> None]
        /\ lock' = [s \in Subsystems |-> None]
        /\ cooling' = {}
        /\ used' = [r \in Runs |-> NoUsage]
        /\ pc' = [r \in Runs |-> IF pc[r] = "none" THEN "none" ELSE "done"]
        /\ cpu' = None
        /\ UNCHANGED << step, verdict, lost >>
    BY DEF Crash
  <1>2. crashes' \in 0..MaxCrashes
    BY <1>1, ExecutionAssumption DEF TypeOK
  <1>3. pc' \in [Runs -> Points] /\ \A r \in Runs : pc'[r] \in {"none", "done"}
    BY <1>1 DEF Points
  <1>4. used' \in [Runs -> [DOMAIN NoUsage -> Nat]]
    BY <1>1 DEF NoUsage
  <1>5. TypeOK'
    BY <1>1, <1>2, <1>3, <1>4, TornDisk DEF TypeOK
  <1>6. ASSUME NEW q \in Runs PROVE PlaceOK(q)'
    <2>1. CASE pc[q] = "none"
      <3>1. /\ pc'[q] = "none" /\ runs'[q] = None
            /\ saved'[q] = saved[q] /\ written'[q] = written[q] /\ backup'[q] = backup[q]
        BY <1>1, <2>1, TornDisk
      <3>. QED  BY <2>1, <3>1 DEF Places, PlaceOK, PipelineLive
    <2>2. CASE pc[q] # "none"
      BY <1>1, <2>2 DEF PlaceOK, PipelineLive
    <2>. QED  BY <2>1, <2>2
  <1>7. Recovering'
    BY <1>1 DEF Recovering
  <1>. QED  BY <1>1, <1>5, <1>6, <1>7 DEF Places

LEMMA BootStep ==
  ASSUME TypeOK, Places, Boot
  PROVE  TypeOK' /\ Places'
  <1>1. ~up /\ up' = TRUE /\ UNCHANGED << memory, pipeline, disk, crashes >>
    BY DEF Boot
  <1>2. TypeOK'
    BY <1>1 DEF TypeOK, memory, pipeline, disk
  <1>3. Recovering'
    BY <1>1 DEF Recovering
  <1>4. ASSUME NEW q \in Runs PROVE PlaceOK(q)'
    BY <1>1 DEF Places, PlaceOK, PipelineLive, UnitsOf, ChecksOf, memory, pipeline, disk
  <1>. QED  BY <1>2, <1>3, <1>4 DEF Places

-----------------------------------------------------------------------------
\* A step of the pipeline of r: it was live, and when it ends the run it ends
\* the pipeline.
Works(r) == PipelineStep(r) \/ \E passed \in BOOLEAN : CommandReturns(r, passed)

LEMMA WorkStep ==
  ASSUME TypeOK, Places, NEW r \in Runs, Works(r)
  PROVE  /\ TypeOK' /\ Turn(r) /\ Advances(r) /\ PipelineLive(r)
         /\ \/ runs'[r].status = runs[r].status \/ runs'[r].status \in ActiveStatuses
            \/ pc'[r] = "done"
  <1>. DEFINE Goal == /\ TypeOK' /\ Turn(r) /\ Advances(r) /\ PipelineLive(r)
                      /\ \/ \/ runs'[r].status = runs[r].status
                            \/ runs'[r].status \in ActiveStatuses
                         \/ pc'[r] = "done"
  <1>1. runs[r] # None => runs[r] \in RunRecords
    BY DEF TypeOK
  <1>2. CASE Validate(r)
    <2>1. /\ runs[r] \in RunRecords
          /\ Recorded(r, [runs[r] EXCEPT !.status = "validating", !.snapshot = content])
      BY <1>1, <1>2, ValidateStep DEF Advances
    <2>2. runs'[r].status = "validating"
      BY <2>1 DEF Recorded, RunRecords
    <2>. QED  BY <1>2, <2>2, ValidateStep DEF PipelineLive, ActiveStatuses
  <1>3. CASE BuildPlan(r)
    <2>1. runs[r] \in RunRecords
      BY <1>1, <1>3, BuildPlanStep DEF Advances
    <2>2. runs'[r].status = "ready_to_apply" \/ pc'[r] = "done"
      BY <1>3, <2>1, BuildPlanStep DEF Recorded, RunRecords
    <2>. QED  BY <1>3, <2>2, BuildPlanStep DEF PipelineLive, ActiveStatuses
  <1>4. CASE BeginApply(r)
    <2>1. runs[r] \in RunRecords
      BY <1>1, <1>4, BeginApplyStep DEF Advances
    <2>2. runs'[r].status = "applying"
      BY <1>4, <2>1, BeginApplyStep DEF Recorded, RunRecords
    <2>. QED  BY <1>4, <2>2, BeginApplyStep DEF PipelineLive, ActiveStatuses
  <1>5. CASE BackupUnit(r)
    BY <1>5, BackupUnitStep DEF BackupUnit, PipelineLive
  <1>6. CASE WriteUnit(r)
    BY <1>6, WriteUnitStep DEF WriteUnit, PipelineLive, memory
  <1>7. CASE UnitRefused(r)
    <2>1. runs[r] # None /\ runs' = [runs EXCEPT ![r].allUnitsApplied = FALSE]
      BY <1>7, UnitRefusedStep DEF Advances, UnitRefused
    <2>. QED  BY <1>7, <2>1, FailedUnit, UnitRefusedStep DEF PipelineLive
  <1>8. CASE UnitThrows(r)
    <2>1. runs[r] # None /\ runs' = [runs EXCEPT ![r].allUnitsApplied = FALSE]
      BY <1>8, UnitThrowsStep DEF Advances, UnitThrows
    <2>. QED  BY <1>8, <2>1, FailedUnit, UnitThrowsStep DEF PipelineLive
  <1>9. CASE ApplyDone(r)
    <2>1. runs[r] \in RunRecords
      BY <1>1, <1>9, ApplyDoneStep DEF Advances
    <2>2. runs'[r].status \in {"rollback_pending", "verifying"} \/ pc'[r] = "done"
      BY <1>9, <2>1, ApplyDoneStep DEF Recorded, RunRecords
    <2>. QED  BY <1>9, <2>2, ApplyDoneStep DEF PipelineLive, ActiveStatuses
  <1>10. CASE EndChecks(r)
    BY <1>10, EndChecksStep DEF EndChecks, PipelineLive, memory
  <1>11. CASE RunCommand(r)
    BY <1>11, RunCommandStep DEF RunCommand, PipelineLive
  <1>12. CASE Judge(r)
    <2>1. runs[r] \in RunRecords
      BY <1>1, <1>12, JudgeStep DEF Advances
    <2>2. runs'[r].status = "failed_verification" \/ pc'[r] = "done"
      <3>1. Judged(r) \in RunRecords
        BY <2>1, JudgedData
      <3>. QED  BY <1>12, <3>1, JudgeStep DEF Recorded, RunRecords
    <2>. QED  BY <1>12, <2>2, JudgeStep DEF PipelineLive, ActiveStatuses
  <1>13. CASE BeginRollback(r)
    <2>1. runs[r] \in RunRecords
      BY <1>1, <1>13, BeginRollbackStep DEF Advances
    <2>2. runs'[r].status = "rolling_back"
      BY <1>13, <2>1, BeginRollbackStep DEF Recorded, RunRecords
    <2>. QED  BY <1>13, <2>2, BeginRollbackStep DEF PipelineLive, ActiveStatuses
  <1>14. CASE RestoreFile(r)
    BY <1>14, RestoreFileStep DEF RestoreFile, PipelineLive
  <1>15. CASE SkipRestore(r)
    BY <1>15, SkipRestoreStep DEF SkipRestore, PipelineLive
  <1>16. CASE FinishRollback(r)
    BY <1>16, FinishRollbackStep DEF PipelineLive
  <1>17. CASE \E passed \in BOOLEAN : CommandReturns(r, passed)
    <2>1. PICK passed \in BOOLEAN : CommandReturns(r, passed)
      BY <1>17
    <2>2. runs' = runs
      BY <2>1 DEF CommandReturns, memory
    <2>. QED  BY <2>1, <2>2, CommandReturnsStep DEF PipelineLive
  <1>. QED
    BY <1>2, <1>3, <1>4, <1>5, <1>6, <1>7, <1>8, <1>9, <1>10, <1>11, <1>12, <1>13,
       <1>14, <1>15, <1>16, <1>17, Zenon DEF Works, PipelineStep

\* A step that concerns a known run while the process is up.
Acts(r) == Works(r) \/ UserAbort(r) \/ \E passed \in BOOLEAN : ManualCheck(r, passed)

LEMMA ActStep ==
  ASSUME TypeOK, Places, NEW r \in Runs, Acts(r)
  PROVE  TypeOK' /\ Turn(r) /\ Advances(r)
  BY WorkStep, UserAbortStep, ManualCheckStep DEF Acts

\* The steps of the system.
LEMMA NextCases ==
  ASSUME [Next]_vars
  PROVE  \/ \E r \in Runs : \E p \in Proposals, dryRun \in BOOLEAN : Start(r, p, dryRun)
         \/ \E r \in Runs : Acts(r)
         \/ \E r \in Runs : Recover(r)
         \/ \E s \in Subsystems : CooldownExpires(s)
         \/ Crash
         \/ Boot
         \/ UNCHANGED vars
  BY Zenon DEF Next, Acts, Works

Base == TypeOK /\ Places

LEMMA InitBase == Init => Base
  <1>. SUFFICES ASSUME Init PROVE Base
    OBVIOUS
  <1>1. TypeOK
    BY ExecutionAssumption
    DEF Init, TypeOK, NoUsage, NoVerdict, Verdicts, Contents, Points
  <1>2. Places
    BY DEF Init, Places, Recovering, PlaceOK, PipelineLive
  <1>. QED  BY <1>1, <1>2 DEF Base

LEMMA StutterBase ==
  ASSUME Base, UNCHANGED vars
  PROVE  Base'
  <1>1. TypeOK'
    BY DEF Base, TypeOK, vars, memory, pipeline, disk, process
  <1>2. Places'
    BY DEF Base, Places, Recovering, PlaceOK, PipelineLive, UnitsOf, ChecksOf,
           vars, memory, pipeline, disk, process
  <1>. QED  BY <1>1, <1>2 DEF Base

LEMMA NextBase ==
  ASSUME Base, [Next]_vars
  PROVE  Base'
  <1>. TypeOK /\ Places
    BY DEF Base
  <1>1. ASSUME NEW r \in Runs, NEW p \in Proposals, NEW dryRun \in BOOLEAN, Start(r, p, dryRun)
        PROVE  Base'
    BY <1>1, StartStep, TurnPlaces DEF Base
  <1>2. ASSUME NEW r \in Runs, Acts(r) PROVE Base'
    BY <1>2, ActStep, TurnPlaces DEF Base
  <1>3. ASSUME NEW r \in Runs, Recover(r) PROVE Base'
    BY <1>3, RecoverStep DEF Base
  <1>4. ASSUME NEW s \in Subsystems, CooldownExpires(s) PROVE Base'
    BY <1>4, CooldownExpiresStep DEF Base
  <1>5. CASE Crash
    BY <1>5, CrashStep DEF Base
  <1>6. CASE Boot
    BY <1>6, BootStep DEF Base
  <1>7. CASE UNCHANGED vars
    BY <1>7, StutterBase
  <1>. QED  BY <1>1, <1>2, <1>3, <1>4, <1>5, <1>6, <1>7, NextCases

THEOREM BaseHolds == Spec => []Base
  <1>. QED  BY InitBase, NextBase, PTL DEF Spec

\* Every variable keeps its type: for any proposals, plans, commands, budgets
\* and faults, with the process dying at any point.
THEOREM TypeCorrect == Spec => []TypeOK
  <1>1. Base => TypeOK
    BY DEF Base
  <1>. QED  BY <1>1, BaseHolds, PTL

-----------------------------------------------------------------------------
(***************************************************************************)
(* The subsystem locks.                                                    *)
(***************************************************************************)
\* A lock has an active run of its own subsystem for an owner, in the middle
\* of a turn too.
LockOK == \A s \in Subsystems, r \in Runs : lock[s] = r => Active(r) /\ SubsystemOf(r) = s

LEMMA LockStep ==
  ASSUME Base, LockOK, [Next]_vars
  PROVE  LockOK'
  <1>. TypeOK /\ Places
    BY DEF Base
  <1>. SUFFICES ASSUME NEW s \in Subsystems, NEW q \in Runs, lock'[s] = q
                PROVE  Active(q)' /\ SubsystemOf(q)' = s
    BY DEF LockOK
  <1>. q # None
    BY NoneAssumption
  <1>1. ASSUME NEW r \in Runs, NEW p \in Proposals, NEW dryRun \in BOOLEAN, Start(r, p, dryRun)
        PROVE  Active(q)' /\ SubsystemOf(q)' = s
    <2>1. /\ runs[r] = None /\ runs'[r] = NewRun(p, dryRun) /\ Turn(r)
          /\ lock' = [lock EXCEPT ![Subsystem[p]] = r]
      BY <1>1, StartStep DEF Recorded
    <2>2. /\ NewRun(p, dryRun) # None /\ NewRun(p, dryRun).proposal = p
          /\ NewRun(p, dryRun).status \in ActiveStatuses
      BY NewRunData, RunFields DEF ActiveStatuses
    <2>3. CASE s = Subsystem[p]
      <3>1. q = r
        BY <2>1, <2>3 DEF TypeOK
      <3>. QED  BY <2>1, <2>2, <2>3, <3>1 DEF Active, SubsystemOf
    <2>4. CASE s # Subsystem[p]
      <3>1. lock[s] = q
        BY <2>1, <2>4 DEF TypeOK
      <3>2. Active(q) /\ SubsystemOf(q) = s
        BY <3>1 DEF LockOK
      <3>3. runs'[q] = runs[q]
        BY <2>1, <3>2 DEF Turn, OthersKeep, Active
      <3>. QED  BY <3>2, <3>3 DEF Active, SubsystemOf
    <2>. QED  BY <2>3, <2>4
  <1>2. ASSUME NEW r \in Runs, Acts(r) PROVE Active(q)' /\ SubsystemOf(q)' = s
    <2>1. TypeOK' /\ Turn(r) /\ Advances(r)
      BY <1>2, ActStep
    <2>2. lock[s] = q
      BY <2>1 DEF Advances, TypeOK
    <2>3. Active(q) /\ SubsystemOf(q) = s
      BY <2>2 DEF LockOK
    <2>4. CASE q # r
      BY <2>1, <2>3, <2>4 DEF Turn, OthersKeep, Active, SubsystemOf
    <2>5. CASE q = r
      <3>1. ~ lock' = [lock EXCEPT ![SubsystemOf(r)] = None]
        BY <2>3, <2>5 DEF TypeOK
      <3>2. /\ runs'[r] # None /\ runs'[r].status \in ActiveStatuses
            /\ runs'[r].proposal = runs[r].proposal
        BY <2>1, <2>3, <2>5, <3>1 DEF Advances, Active
      <3>. QED  BY <2>3, <2>5, <3>2 DEF Active, SubsystemOf
    <2>. QED  BY <2>4, <2>5
  <1>3. ASSUME NEW r \in Runs, Recover(r) PROVE Active(q)' /\ SubsystemOf(q)' = s
    <2>1. /\ runs[r] = None /\ OthersKeep(r)
          /\ lock' = [lock EXCEPT ![Subsystem[saved[r].proposal]] = None]
      BY <1>3, RecoverStep
    <2>2. lock[s] = q
      BY <2>1 DEF TypeOK
    <2>3. Active(q) /\ SubsystemOf(q) = s
      BY <2>2 DEF LockOK
    <2>4. runs'[q] = runs[q]
      BY <2>1, <2>3 DEF OthersKeep, Active
    <2>. QED  BY <2>3, <2>4 DEF Active, SubsystemOf
  <1>4. ASSUME UNCHANGED << runs, lock >> PROVE Active(q)' /\ SubsystemOf(q)' = s
    BY <1>4 DEF LockOK, Active, SubsystemOf
  <1>5. CASE Crash
    BY <1>5 DEF Crash
  <1>6. ASSUME NEW t \in Subsystems, CooldownExpires(t) PROVE UNCHANGED << runs, lock >>
    BY <1>6 DEF CooldownExpires
  <1>7. Boot \/ UNCHANGED vars => UNCHANGED << runs, lock >>
    BY DEF Boot, memory, vars
  <1>. QED  BY <1>1, <1>2, <1>3, <1>4, <1>5, <1>6, <1>7, NextCases

LEMMA InitLock == Init => LockOK
  BY NoneAssumption DEF Init, LockOK

THEOREM LockHolds == Spec => []LockOK
  <1>. QED  BY BaseHolds, InitLock, LockStep, PTL DEF Spec

\* Between two turns a lock has an active run of its subsystem for an owner,
\* whatever failed, was aborted or crashed before.
THEOREM LocksAreOwned == Spec => []LockOwnedByActiveRun
  <1>1. Base /\ LockOK => LockOwnedByActiveRun
    BY DEF Base, TypeOK, LockOK, LockOwnedByActiveRun
  <1>. QED  BY <1>1, BaseHolds, LockHolds, PTL

-----------------------------------------------------------------------------
(***************************************************************************)
(* What a run keeps.                                                       *)
(***************************************************************************)
BeforeVerdict == {"validate", "plan", "begin", "backup", "write", "applied", "check",
                  "running", "judge"}

\* The proposal and the kind of a run are for good; the snapshot is taken by
\* Validate, the verification is recorded by Judge, and the pipeline passes
\* its verdict once.
Keeps(r) ==
    /\ runs'[r].proposal = runs[r].proposal
    /\ runs'[r].dryRun = runs[r].dryRun
    /\ Validate(r) \/ runs'[r].snapshot = runs[r].snapshot
    /\ Judge(r) \/ runs'[r].verification = runs[r].verification
    /\ pc'[r] \in BeforeVerdict => pc[r] \in BeforeVerdict \ {"judge"}

LEMMA WorkKeeps ==
  ASSUME TypeOK, Places, NEW r \in Runs, Works(r)
  PROVE  Keeps(r)
  <1>1. runs[r] # None => runs[r] \in RunRecords
    BY DEF TypeOK
  <1>2. CASE Validate(r)
    <2>1. runs[r] \in RunRecords
      BY <1>1, <1>2, ValidateStep DEF Advances
    <2>2. runs'[r] = [runs[r] EXCEPT !.status = "validating", !.snapshot = content]
      BY <1>2, <2>1, ValidateStep, Zenon DEF Recorded
    <2>4. /\ runs'[r].proposal = runs[r].proposal
          /\ runs'[r].dryRun = runs[r].dryRun
          /\ runs'[r].verification = runs[r].verification
          /\ Validate(r) \/ runs'[r].snapshot = runs[r].snapshot
      BY <1>2, <2>1, <2>2 DEF RunRecords
    <2>3. pc'[r] \in BeforeVerdict => pc[r] \in BeforeVerdict \ {"judge"}
      BY <1>2, ValidateStep DEF BeforeVerdict
    <2>. QED  BY <2>3, <2>4 DEF Keeps
  <1>3. CASE BuildPlan(r)
    <2>1. runs[r] \in RunRecords
      BY <1>1, <1>3, BuildPlanStep DEF Advances
    <2>2. \/ runs'[r] = [runs[r] EXCEPT !.status = "ready_to_apply"]
          \/ runs'[r] = [runs[r] EXCEPT !.status = "aborted", !.abortReason = "pipeline"]
      BY <1>3, <2>1, BuildPlanStep, Zenon DEF Recorded
    <2>4. /\ runs'[r].proposal = runs[r].proposal
          /\ runs'[r].dryRun = runs[r].dryRun
          /\ runs'[r].verification = runs[r].verification
          /\ Validate(r) \/ runs'[r].snapshot = runs[r].snapshot
      BY <1>3, <2>1, <2>2 DEF RunRecords
    <2>3. pc'[r] \in BeforeVerdict => pc[r] \in BeforeVerdict \ {"judge"}
      BY <1>3, BuildPlanStep DEF BeforeVerdict
    <2>. QED  BY <2>3, <2>4 DEF Keeps
  <1>4. CASE BeginApply(r)
    <2>1. runs[r] \in RunRecords
      BY <1>1, <1>4, BeginApplyStep DEF Advances
    <2>2. runs'[r] = [runs[r] EXCEPT !.status = "applying"]
      BY <1>4, <2>1, BeginApplyStep, Zenon DEF Recorded
    <2>4. /\ runs'[r].proposal = runs[r].proposal
          /\ runs'[r].dryRun = runs[r].dryRun
          /\ runs'[r].verification = runs[r].verification
          /\ Validate(r) \/ runs'[r].snapshot = runs[r].snapshot
      BY <1>4, <2>1, <2>2 DEF RunRecords
    <2>3. pc'[r] \in BeforeVerdict => pc[r] \in BeforeVerdict \ {"judge"}
      BY <1>4, BeginApplyStep DEF BeforeVerdict
    <2>. QED  BY <2>3, <2>4 DEF Keeps
  <1>9. CASE ApplyDone(r)
    <2>1. runs[r] \in RunRecords
      BY <1>1, <1>9, ApplyDoneStep DEF Advances
    <2>2. \/ runs'[r] = [runs[r] EXCEPT !.status = "rollback_pending"]
          \/ runs'[r] = [runs[r] EXCEPT !.status = "succeeded"]
          \/ runs'[r] = [runs[r] EXCEPT !.status = "verifying"]
      BY <1>9, <2>1, ApplyDoneStep, Zenon DEF Recorded
    <2>4. /\ runs'[r].proposal = runs[r].proposal
          /\ runs'[r].dryRun = runs[r].dryRun
          /\ runs'[r].verification = runs[r].verification
          /\ Validate(r) \/ runs'[r].snapshot = runs[r].snapshot
      BY <1>9, <2>1, <2>2 DEF RunRecords
    <2>3. pc'[r] \in BeforeVerdict => pc[r] \in BeforeVerdict \ {"judge"}
      BY <1>9, ApplyDoneStep DEF BeforeVerdict
    <2>. QED  BY <2>3, <2>4 DEF Keeps
  <1>13. CASE BeginRollback(r)
    <2>1. runs[r] \in RunRecords
      BY <1>1, <1>13, BeginRollbackStep DEF Advances
    <2>2. runs'[r] = [runs[r] EXCEPT !.status = "rolling_back"]
      BY <1>13, <2>1, BeginRollbackStep, Zenon DEF Recorded
    <2>4. /\ runs'[r].proposal = runs[r].proposal
          /\ runs'[r].dryRun = runs[r].dryRun
          /\ runs'[r].verification = runs[r].verification
          /\ Validate(r) \/ runs'[r].snapshot = runs[r].snapshot
      BY <1>13, <2>1, <2>2 DEF RunRecords
    <2>3. pc'[r] \in BeforeVerdict => pc[r] \in BeforeVerdict \ {"judge"}
      BY <1>13, BeginRollbackStep DEF BeforeVerdict
    <2>. QED  BY <2>3, <2>4 DEF Keeps
  <1>16. CASE FinishRollback(r)
    <2>1. runs[r] \in RunRecords
      BY <1>1, <1>16, FinishRollbackStep DEF Advances
    <2>2. \E st \in {"rolled_back", "aborted"} : runs'[r] = [runs[r] EXCEPT !.status = st]
      BY <1>16, <2>1, FinishRollbackStep, Zenon DEF Recorded
    <2>4. /\ runs'[r].proposal = runs[r].proposal
          /\ runs'[r].dryRun = runs[r].dryRun
          /\ runs'[r].verification = runs[r].verification
          /\ Validate(r) \/ runs'[r].snapshot = runs[r].snapshot
      BY <1>16, <2>1, <2>2 DEF RunRecords
    <2>3. pc'[r] \in BeforeVerdict => pc[r] \in BeforeVerdict \ {"judge"}
      BY <1>16, FinishRollbackStep DEF BeforeVerdict
    <2>. QED  BY <2>3, <2>4 DEF Keeps
  <1>5. CASE BackupUnit(r)
    <2>1. runs' = runs
      BY <1>5 DEF BackupUnit
    <2>2. pc'[r] \in BeforeVerdict => pc[r] \in BeforeVerdict \ {"judge"}
      BY <1>5, BackupUnitStep DEF BeforeVerdict
    <2>. QED  BY <2>1, <2>2 DEF Keeps
  <1>6. CASE WriteUnit(r)
    <2>1. runs' = runs
      BY <1>6 DEF WriteUnit, memory
    <2>2. pc'[r] \in BeforeVerdict => pc[r] \in BeforeVerdict \ {"judge"}
      BY <1>6, WriteUnitStep DEF BeforeVerdict
    <2>. QED  BY <2>1, <2>2 DEF Keeps
  <1>10. CASE EndChecks(r)
    <2>1. runs' = runs
      BY <1>10 DEF EndChecks, memory
    <2>2. pc'[r] \in BeforeVerdict => pc[r] \in BeforeVerdict \ {"judge"}
      BY <1>10, EndChecksStep DEF BeforeVerdict
    <2>. QED  BY <2>1, <2>2 DEF Keeps
  <1>11. CASE RunCommand(r)
    <2>1. runs' = runs
      BY <1>11 DEF RunCommand
    <2>2. pc'[r] \in BeforeVerdict => pc[r] \in BeforeVerdict \ {"judge"}
      BY <1>11, RunCommandStep DEF BeforeVerdict
    <2>. QED  BY <2>1, <2>2 DEF Keeps
  <1>14. CASE RestoreFile(r)
    <2>1. runs' = runs
      BY <1>14 DEF RestoreFile
    <2>2. pc'[r] \in BeforeVerdict => pc[r] \in BeforeVerdict \ {"judge"}
      BY <1>14, RestoreFileStep DEF BeforeVerdict
    <2>. QED  BY <2>1, <2>2 DEF Keeps
  <1>15. CASE SkipRestore(r)
    <2>1. runs' = runs
      BY <1>15 DEF SkipRestore
    <2>2. pc'[r] \in BeforeVerdict => pc[r] \in BeforeVerdict \ {"judge"}
      BY <1>15, SkipRestoreStep DEF BeforeVerdict
    <2>. QED  BY <2>1, <2>2 DEF Keeps
  <1>7. CASE UnitRefused(r)
    <2>1. runs[r] # None /\ runs' = [runs EXCEPT ![r].allUnitsApplied = FALSE]
      BY <1>7, UnitRefusedStep DEF Advances, UnitRefused
    <2>2. pc'[r] \in BeforeVerdict => pc[r] \in BeforeVerdict \ {"judge"}
      BY <1>7, UnitRefusedStep DEF BeforeVerdict
    <2>. QED  BY <2>1, <2>2, FailedUnit DEF Keeps
  <1>8. CASE UnitThrows(r)
    <2>1. runs[r] # None /\ runs' = [runs EXCEPT ![r].allUnitsApplied = FALSE]
      BY <1>8, UnitThrowsStep DEF Advances, UnitThrows
    <2>2. pc'[r] \in BeforeVerdict => pc[r] \in BeforeVerdict \ {"judge"}
      BY <1>8, UnitThrowsStep DEF BeforeVerdict
    <2>. QED  BY <2>1, <2>2, FailedUnit DEF Keeps
  <1>12. CASE Judge(r)
    <2>1. runs[r] \in RunRecords
      BY <1>1, <1>12, JudgeStep DEF Advances
    <2>2. Judged(r) \in RunRecords /\ Judged(r).proposal = runs[r].proposal
          /\ Judged(r).dryRun = runs[r].dryRun /\ Judged(r).snapshot = runs[r].snapshot
      BY <2>1, JudgedData
    <2>5. \/ runs'[r] = Judged(r)
          \/ runs'[r] = [Judged(r) EXCEPT !.status = "failed_verification"]
          \/ runs'[r] = [Judged(r) EXCEPT !.status = "succeeded"]
      BY <1>12, JudgeStep, Zenon DEF Recorded
    <2>3. /\ runs'[r].proposal = runs[r].proposal
          /\ runs'[r].dryRun = runs[r].dryRun
          /\ Validate(r) \/ runs'[r].snapshot = runs[r].snapshot
      BY <2>2, <2>5 DEF RunRecords
    <2>4. pc'[r] \notin BeforeVerdict
      BY <1>12, JudgeStep DEF BeforeVerdict
    <2>. QED  BY <1>12, <2>3, <2>4 DEF Keeps
  <1>17. CASE \E passed \in BOOLEAN : CommandReturns(r, passed)
    <2>1. PICK passed \in BOOLEAN : CommandReturns(r, passed)
      BY <1>17
    <2>2. runs' = runs
      BY <2>1 DEF CommandReturns, memory
    <2>3. pc'[r] \in BeforeVerdict => pc[r] \in BeforeVerdict \ {"judge"}
      BY <2>1, CommandReturnsStep DEF BeforeVerdict
    <2>. QED  BY <2>2, <2>3 DEF Keeps
  <1>. QED
    BY <1>2, <1>3, <1>4, <1>5, <1>6, <1>7, <1>8, <1>9, <1>10, <1>11, <1>12, <1>13,
       <1>14, <1>15, <1>16, <1>17, Zenon DEF Works, PipelineStep

\* A run has no verdict while its pipeline is on the way to it.
Undecided ==
    \A r \in Runs : runs[r] # None /\ pc[r] \in BeforeVerdict
                        => runs[r].verification.done = FALSE

\* Nothing is said of a run whose record and place stay.
LEMMA UndecidedStep ==
  ASSUME Base, Undecided, [Next]_vars
  PROVE  Undecided'
  <1>. TypeOK /\ Places
    BY DEF Base
  <1>. SUFFICES ASSUME NEW q \in Runs, runs'[q] # None, pc'[q] \in BeforeVerdict
                PROVE  runs'[q].verification.done = FALSE
    BY DEF Undecided
  <1>1. ASSUME runs'[q] = runs[q], pc'[q] = pc[q]
        PROVE  runs'[q].verification.done = FALSE
    BY <1>1 DEF Undecided
  <1>2. ASSUME NEW r \in Runs, NEW p \in Proposals, NEW dryRun \in BOOLEAN, Start(r, p, dryRun)
        PROVE  runs'[q].verification.done = FALSE
    <2>1. Turn(r) /\ runs'[r] = NewRun(p, dryRun)
      BY <1>2, StartStep DEF Recorded
    <2>2. CASE q = r
      BY <2>1, <2>2, NewRunData
    <2>3. CASE q # r
      BY <1>1, <2>1, <2>3 DEF Turn, OthersKeep
    <2>. QED  BY <2>2, <2>3
  <1>3. ASSUME NEW r \in Runs, Acts(r) PROVE runs'[q].verification.done = FALSE
    <2>1. TypeOK' /\ Turn(r) /\ Advances(r)
      BY <1>3, ActStep
    <2>2. CASE q # r
      BY <1>1, <2>1, <2>2 DEF Turn, OthersKeep
    <2>3. CASE q = r /\ Works(r)
      <3>1. Keeps(r) /\ ~Judge(r) /\ runs[r] # None
        BY <2>1, <2>3, WorkKeeps, JudgeStep DEF Advances, BeforeVerdict
      <3>. QED  BY <2>3, <3>1 DEF Keeps, Undecided
    <2>4. CASE q = r /\ UserAbort(r)
      <3>1. /\ runs[r] \in RunRecords /\ pc' = pc /\ runs[r] # None
            /\ runs'[r] = [runs[r] EXCEPT !.status = "aborted", !.abortReason = "user"]
        BY <2>1, <2>4, UserAbortStep DEF Recorded, Advances
      <3>2. runs'[r].verification = runs[r].verification
        BY <3>1 DEF RunRecords
      <3>. QED  BY <2>4, <3>1, <3>2 DEF Undecided
    <2>5. ASSUME NEW passed \in BOOLEAN, ManualCheck(r, passed), q = r
          PROVE  runs'[q].verification.done = FALSE
      <3>1. /\ runs[r].verification.done /\ runs[r] # None
            /\ pc'[r] = pc[r] \/ pc'[r] = "rollback"
        BY <2>1, <2>5, ManualCheckStep DEF Advances
      <3>2. pc[r] \in BeforeVerdict
        BY <2>5, <3>1 DEF BeforeVerdict
      <3>. QED  BY <3>1, <3>2 DEF Undecided
    <2>. QED  BY <1>3, <2>2, <2>3, <2>4, <2>5 DEF Acts
  <1>4. ASSUME NEW r \in Runs, Recover(r) PROVE runs'[q].verification.done = FALSE
    <2>1. ~up /\ UNCHANGED << pc, up >>
      BY <1>4, RecoverStep DEF pipeline, process
    <2>2. ~PipelineLive(q)
      BY <2>1 DEF Places, PlaceOK
    <2>. QED  BY <2>1, <2>2 DEF PipelineLive, BeforeVerdict
  <1>5. ASSUME NEW t \in Subsystems, CooldownExpires(t) PROVE UNCHANGED << runs, pc >>
    BY <1>5 DEF CooldownExpires, pipeline
  <1>6. Boot \/ UNCHANGED vars => UNCHANGED << runs, pc >>
    BY DEF Boot, memory, pipeline, vars
  <1>7. CASE Crash
    BY <1>7 DEF Crash
  <1>. QED  BY <1>1, <1>2, <1>3, <1>4, <1>5, <1>6, <1>7, NextCases

LEMMA InitUndecided == Init => Undecided
  BY DEF Init, Undecided

THEOREM UndecidedHolds == Spec => []Undecided
  <1>. QED  BY BaseHolds, InitUndecided, UndecidedStep, PTL DEF Spec

-----------------------------------------------------------------------------
(***************************************************************************)
(* One active run per subsystem, as long as no user aborts a run: a user   *)
(* abort takes the lock away from a pipeline that is still going.          *)
(***************************************************************************)
\* A pipeline works on an active run, and an active run holds the lock of its
\* subsystem.
Busy ==
    \A r \in Runs : /\ runs[r] # None /\ PipelineLive(r) => Active(r)
                    /\ Active(r) => lock[SubsystemOf(r)] = r

LEMMA ManualCheckWaits ==
  ASSUME Base, Undecided, NEW r \in Runs, NEW passed \in BOOLEAN, ManualCheck(r, passed)
  PROVE  pc[r] = "done" /\ runs[r] # None
  <1>1. /\ EventLoopFree /\ runs[r] # None /\ runs[r].verification.done
    BY ManualCheckStep DEF Base, Advances
  <1>2. pc[r] \in {"running", "done"}
    BY <1>1, Waiting DEF Base
  <1>. QED  BY <1>1, <1>2 DEF Undecided, BeforeVerdict

\* An act on an active run, or one that only adds to its record.
LEMMA BusyAct ==
  ASSUME Base, Undecided, Busy, "abort" \notin Faults, NEW r \in Runs, Acts(r)
  PROVE  \/ /\ Active(r)
            /\ runs'[r].status \in ActiveStatuses \/ ~PipelineLive(r)'
         \/ /\ pc' = pc /\ UNCHANGED << lock, cooling >>
            /\ runs'[r].status = runs[r].status
  <1>. TypeOK /\ Places
    BY DEF Base
  <1>1. CASE Works(r)
    <2>1. /\ PipelineLive(r) /\ runs[r] # None
          /\ \/ runs'[r].status = runs[r].status \/ runs'[r].status \in ActiveStatuses
             \/ pc'[r] = "done"
      BY <1>1, WorkStep DEF Advances
    <2>2. Active(r)
      BY <2>1 DEF Busy
    <2>. QED  BY <2>1, <2>2 DEF Active, PipelineLive
  <1>2. ASSUME NEW passed \in BOOLEAN, ManualCheck(r, passed)
        PROVE  \/ /\ Active(r)
                  /\ runs'[r].status \in ActiveStatuses \/ ~PipelineLive(r)'
               \/ /\ pc' = pc /\ UNCHANGED << lock, cooling >>
                  /\ runs'[r].status = runs[r].status
    <2>1. pc[r] = "done" /\ runs[r] # None /\ runs[r] \in RunRecords
      BY <1>2, ManualCheckWaits, ManualCheckStep
    <2>2. /\ Checked(r, passed) \in RunRecords
          /\ Checked(r, passed).status = runs[r].status
      BY <2>1, CheckedData
    <2>3. \/ pc' = pc /\ runs[r].status = "verifying"
          \/ /\ runs[r].status = "verifying"
             /\ runs'[r] = [Checked(r, passed) EXCEPT !.status = "failed_verification"]
          \/ /\ pc' = pc /\ UNCHANGED << lock, cooling >>
             /\ runs'[r] = Checked(r, passed)
      BY <1>2, ManualCheckStep, Zenon DEF Recorded
    <2>4. CASE pc' = pc /\ runs[r].status = "verifying"
      BY <2>1, <2>4 DEF Active, ActiveStatuses, PipelineLive
    <2>5. CASE /\ runs[r].status = "verifying"
               /\ runs'[r] = [Checked(r, passed) EXCEPT !.status = "failed_verification"]
      <3>1. runs'[r].status = "failed_verification"
        BY <2>2, <2>5 DEF RunRecords
      <3>. QED  BY <2>1, <2>5, <3>1 DEF Active, ActiveStatuses
    <2>6. CASE /\ pc' = pc /\ UNCHANGED << lock, cooling >>
               /\ runs'[r] = Checked(r, passed)
      BY <2>2, <2>6
    <2>. QED  BY <2>3, <2>4, <2>5, <2>6
  <1>3. ~UserAbort(r)
    BY DEF UserAbort
  <1>. QED  BY <1>1, <1>2, <1>3 DEF Acts

LEMMA BusyStep ==
  ASSUME Base, Undecided, Busy, "abort" \notin Faults, [Next]_vars
  PROVE  Busy'
  <1>. TypeOK /\ Places
    BY DEF Base
  <1>. SUFFICES ASSUME NEW q \in Runs
                PROVE  /\ runs'[q] # None /\ PipelineLive(q)' => Active(q)'
                       /\ Active(q)' => lock'[SubsystemOf(q)'] = q
    BY DEF Busy
  <1>. DEFINE Goal == /\ runs'[q] # None /\ PipelineLive(q)' => Active(q)'
                      /\ Active(q)' => lock'[SubsystemOf(q)'] = q
  <1>1. ASSUME NEW r \in Runs, NEW p \in Proposals, NEW dryRun \in BOOLEAN, Start(r, p, dryRun)
        PROVE  Goal
    <2>1. /\ Turn(r) /\ runs'[r] = NewRun(p, dryRun) /\ ~IsSubsystemLocked(Subsystem[p])
          /\ lock' = [lock EXCEPT ![Subsystem[p]] = r] /\ Subsystem[p] \in Subsystems
      BY <1>1, StartStep DEF Recorded
    <2>2. /\ NewRun(p, dryRun).proposal = p /\ NewRun(p, dryRun).status \in ActiveStatuses
      BY NewRunData DEF ActiveStatuses
    <2>3. CASE q = r
      BY <2>1, <2>2, <2>3 DEF Active, SubsystemOf, TypeOK
    <2>4. CASE q # r
      <3>1. runs'[q] = runs[q] /\ (PipelineLive(q)' <=> PipelineLive(q))
        BY <2>1, <2>4 DEF Turn, OthersKeep, PipelineLive
      <3>2. (Active(q)' <=> Active(q)) /\ SubsystemOf(q)' = SubsystemOf(q)
        BY <3>1 DEF Active, SubsystemOf
      <3>3. Active(q) => SubsystemOf(q) # Subsystem[p]
        BY <2>1, NoneAssumption DEF Busy, IsSubsystemLocked, Active
      <3>4. Active(q) => lock'[SubsystemOf(q)] = q
        BY <2>1, <3>3, RunData DEF Busy, Active, TypeOK
      <3>. QED  BY <3>1, <3>2, <3>4 DEF Busy
    <2>. QED  BY <2>3, <2>4
  <1>2. ASSUME NEW r \in Runs, Acts(r) PROVE Goal
    <2>1. TypeOK' /\ Turn(r) /\ Advances(r)
      BY <1>2, ActStep
    <2>2. \/ /\ Active(r)
             /\ runs'[r].status \in ActiveStatuses \/ ~PipelineLive(r)'
          \/ /\ pc' = pc /\ UNCHANGED << lock, cooling >>
             /\ runs'[r].status = runs[r].status
      BY <1>2, BusyAct
    <2>3. CASE q = r
      <3>1. runs[r] # None /\ runs'[r] # None /\ SubsystemOf(r)' = SubsystemOf(r)
        BY <2>1 DEF Advances, SubsystemOf
      <3>2. CASE pc' = pc /\ UNCHANGED lock /\ runs'[r].status = runs[r].status
        BY <2>3, <3>1, <3>2 DEF Busy, Active, PipelineLive
      <3>3. CASE /\ Active(r)
                 /\ runs'[r].status \in ActiveStatuses \/ ~PipelineLive(r)'
        <4>1. runs'[r].status \in ActiveStatuses => lock' = lock
          BY <2>1 DEF Advances, ActiveStatuses, TerminalStatuses
        <4>. QED  BY <2>3, <3>1, <3>3, <4>1 DEF Busy, Active
      <3>. QED  BY <2>2, <3>2, <3>3
    <2>4. CASE q # r
      <3>1. runs'[q] = runs[q] /\ (PipelineLive(q)' <=> PipelineLive(q))
        BY <2>1, <2>4 DEF Turn, OthersKeep, PipelineLive
      <3>2. (Active(q)' <=> Active(q)) /\ SubsystemOf(q)' = SubsystemOf(q)
        BY <3>1 DEF Active, SubsystemOf
      <3>3. Active(q) /\ Active(r) => SubsystemOf(q) # SubsystemOf(r)
        BY <2>4 DEF Busy
      <3>4. Active(q) => SubsystemOf(q) \in Subsystems
        BY RunData DEF Active
      <3>5. Active(q) => lock'[SubsystemOf(q)] = q
        BY <2>1, <2>2, <3>3, <3>4 DEF Busy, Advances, TypeOK
      <3>. QED  BY <3>1, <3>2, <3>5 DEF Busy
    <2>. QED  BY <2>3, <2>4
  <1>3. ASSUME Recovering', ~up', Places' PROVE Goal
    <2>1. ~PipelineLive(q)' /\ ~Active(q)'
      BY <1>3 DEF Recovering, Places, PlaceOK, Active, ActiveStatuses
    <2>. QED  BY <2>1
  <1>4. ASSUME NEW r \in Runs, Recover(r) PROVE Goal
    BY <1>3, <1>4, RecoverStep DEF Places, process
  <1>5. CASE Crash
    BY <1>3, <1>5, CrashStep DEF Places
  <1>6. ASSUME UNCHANGED << runs, lock, pc >> PROVE Goal
    BY <1>6 DEF Busy, Active, SubsystemOf, PipelineLive
  <1>7. ASSUME NEW t \in Subsystems, CooldownExpires(t) PROVE UNCHANGED << runs, lock, pc >>
    BY <1>7 DEF CooldownExpires, pipeline
  <1>8. Boot \/ UNCHANGED vars => UNCHANGED << runs, lock, pc >>
    BY DEF Boot, memory, pipeline, vars
  <1>. QED  BY <1>1, <1>2, <1>4, <1>5, <1>6, <1>7, <1>8, NextCases

LEMMA InitBusy == Init => Busy
  BY DEF Init, Busy, Active

\* Two active runs are never of the same subsystem, when no user aborts.
THEOREM OneActive == "abort" \notin Faults => (Spec => []OneActivePerSubsystem)
  <1>. SUFFICES ASSUME "abort" \notin Faults PROVE Spec => []OneActivePerSubsystem
    OBVIOUS
  <1>1. Base /\ Undecided /\ Busy /\ [Next]_vars => Busy'
    BY BusyStep
  <1>2. Busy => OneActivePerSubsystem
    BY DEF Busy, OneActivePerSubsystem
  <1>. QED  BY <1>1, <1>2, InitBusy, BaseHolds, UndecidedHolds, PTL DEF Spec

\* What TerminalIsFinal says of one step.
FinalStep ==
    \A r \in Runs :
        up /\ runs[r] # None /\ runs[r].status \in TerminalStatuses /\ runs'[r] # None
            => runs'[r].status = runs[r].status

LEMMA NextFinal ==
  ASSUME Base, Undecided, Busy, "abort" \notin Faults, [Next]_vars
  PROVE  FinalStep
  <1>. TypeOK /\ Places
    BY DEF Base
  <1>. SUFFICES ASSUME NEW q \in Runs, up, runs[q] # None, runs[q].status \in TerminalStatuses,
                       runs'[q] # None
                PROVE  runs'[q].status = runs[q].status
    BY DEF FinalStep
  <1>1. ASSUME NEW r \in Runs, NEW p \in Proposals, NEW dryRun \in BOOLEAN, Start(r, p, dryRun)
        PROVE  runs'[q].status = runs[q].status
    BY <1>1, StartStep DEF Turn, OthersKeep
  <1>2. ASSUME NEW r \in Runs, Acts(r) PROVE runs'[q].status = runs[q].status
    <2>1. Turn(r)
      BY <1>2, ActStep
    <2>2. CASE q # r
      BY <2>1, <2>2 DEF Turn, OthersKeep
    <2>3. CASE q = r
      <3>1. ~Active(r)
        BY <2>3 DEF Active, ActiveStatuses, TerminalStatuses
      <3>. QED  BY <1>2, <2>3, <3>1, BusyAct
    <2>. QED  BY <2>2, <2>3
  <1>3. ASSUME NEW r \in Runs, Recover(r) PROVE FALSE
    BY <1>3, RecoverStep
  <1>4. CASE Crash
    BY <1>4, CrashStep
  <1>5. ASSUME NEW t \in Subsystems, CooldownExpires(t) PROVE UNCHANGED runs
    BY <1>5 DEF CooldownExpires
  <1>6. Boot \/ UNCHANGED vars => UNCHANGED runs
    BY DEF Boot, memory, vars
  <1>. QED  BY <1>1, <1>2, <1>3, <1>4, <1>5, <1>6, NextCases

\* A run that has ended keeps its status, when no user aborts.
THEOREM EndedIsEnded == "abort" \notin Faults => (Spec => TerminalIsFinal)
  <1>. SUFFICES ASSUME "abort" \notin Faults PROVE Spec => TerminalIsFinal
    OBVIOUS
  <1>1. Base /\ Undecided /\ Busy /\ [Next]_vars => Busy'
    BY BusyStep
  <1>2. Base /\ Undecided /\ Busy /\ [Next]_vars => [FinalStep]_vars
    BY NextFinal
  <1>3. Spec => [][FinalStep]_vars
    BY <1>1, <1>2, InitBusy, BaseHolds, UndecidedHolds, PTL DEF Spec
  <1>. QED  BY <1>3, PTL DEF TerminalIsFinal, FinalStep

-----------------------------------------------------------------------------
(***************************************************************************)
(* Verification.                                                           *)
(***************************************************************************)
\* Which steps make a run 'verifying' or 'succeeded'.
Settles(r) ==
    \/ runs'[r].status = runs[r].status
    \/ runs'[r].status \notin {"verifying", "succeeded"}
    \/ Judge(r)
    \/ pc[r] = "applied" /\ (runs'[r].status = "succeeded" => runs[r].dryRun)

LEMMA WorkSettles ==
  ASSUME TypeOK, Places, NEW r \in Runs, Works(r)
  PROVE  Settles(r)
  <1>1. runs[r] # None => runs[r] \in RunRecords
    BY DEF TypeOK
  <1>2. CASE Validate(r)
    <2>1. runs[r] \in RunRecords
      BY <1>1, <1>2, ValidateStep DEF Advances
    <2>2. runs'[r] = [runs[r] EXCEPT !.status = "validating", !.snapshot = content]
      BY <1>2, ValidateStep, Zenon DEF Recorded
    <2>3. runs'[r].status \notin {"verifying", "succeeded"}
      BY <2>1, <2>2 DEF RunRecords
    <2>. QED  BY <2>3 DEF Settles
  <1>3. CASE BuildPlan(r)
    <2>1. runs[r] \in RunRecords
      BY <1>1, <1>3, BuildPlanStep DEF Advances
    <2>2. \/ runs'[r] = [runs[r] EXCEPT !.status = "ready_to_apply"]
          \/ runs'[r] = [runs[r] EXCEPT !.status = "aborted", !.abortReason = "pipeline"]
      BY <1>3, BuildPlanStep, Zenon DEF Recorded
    <2>3. runs'[r].status \notin {"verifying", "succeeded"}
      BY <2>1, <2>2 DEF RunRecords
    <2>. QED  BY <2>3 DEF Settles
  <1>4. CASE BeginApply(r)
    <2>1. runs[r] \in RunRecords
      BY <1>1, <1>4, BeginApplyStep DEF Advances
    <2>2. runs'[r] = [runs[r] EXCEPT !.status = "applying"]
      BY <1>4, BeginApplyStep, Zenon DEF Recorded
    <2>3. runs'[r].status \notin {"verifying", "succeeded"}
      BY <2>1, <2>2 DEF RunRecords
    <2>. QED  BY <2>3 DEF Settles
  <1>13. CASE BeginRollback(r)
    <2>1. runs[r] \in RunRecords
      BY <1>1, <1>13, BeginRollbackStep DEF Advances
    <2>2. runs'[r] = [runs[r] EXCEPT !.status = "rolling_back"]
      BY <1>13, BeginRollbackStep, Zenon DEF Recorded
    <2>3. runs'[r].status \notin {"verifying", "succeeded"}
      BY <2>1, <2>2 DEF RunRecords
    <2>. QED  BY <2>3 DEF Settles
  <1>16. CASE FinishRollback(r)
    <2>1. runs[r] \in RunRecords
      BY <1>1, <1>16, FinishRollbackStep DEF Advances
    <2>2. \E st \in {"rolled_back", "aborted"} : runs'[r] = [runs[r] EXCEPT !.status = st]
      BY <1>16, FinishRollbackStep, Zenon DEF Recorded
    <2>3. runs'[r].status \notin {"verifying", "succeeded"}
      BY <2>1, <2>2 DEF RunRecords
    <2>. QED  BY <2>3 DEF Settles
  <1>9. CASE ApplyDone(r)
    <2>1. runs[r] \in RunRecords /\ pc[r] = "applied"
      BY <1>1, <1>9, ApplyDoneStep DEF Advances
    <2>2. \/ runs'[r] = [runs[r] EXCEPT !.status = "rollback_pending"]
          \/ runs[r].dryRun /\ runs'[r] = [runs[r] EXCEPT !.status = "succeeded"]
          \/ runs'[r] = [runs[r] EXCEPT !.status = "verifying"]
      BY <1>9, ApplyDoneStep, Zenon DEF Recorded
    <2>3. CASE runs[r].dryRun
      BY <2>1, <2>3, Zenon DEF Settles
    <2>4. CASE ~runs[r].dryRun
      <3>1. \/ runs'[r] = [runs[r] EXCEPT !.status = "rollback_pending"]
            \/ runs'[r] = [runs[r] EXCEPT !.status = "verifying"]
        BY <2>2, <2>4, Zenon
      <3>2. runs'[r].status # "succeeded"
        BY <2>1, <3>1 DEF RunRecords
      <3>. QED  BY <2>1, <3>2, Zenon DEF Settles
    <2>. QED  BY <2>3, <2>4
  <1>5. CASE BackupUnit(r)
    BY <1>5 DEF BackupUnit, Settles
  <1>6. CASE WriteUnit(r)
    BY <1>6 DEF WriteUnit, memory, Settles
  <1>10. CASE EndChecks(r)
    BY <1>10 DEF EndChecks, memory, Settles
  <1>11. CASE RunCommand(r)
    BY <1>11 DEF RunCommand, Settles
  <1>14. CASE RestoreFile(r)
    BY <1>14 DEF RestoreFile, Settles
  <1>15. CASE SkipRestore(r)
    BY <1>15 DEF SkipRestore, Settles
  <1>7. CASE UnitRefused(r)
    <2>1. runs[r] # None /\ runs' = [runs EXCEPT ![r].allUnitsApplied = FALSE]
      BY <1>7, UnitRefusedStep DEF Advances, UnitRefused
    <2>. QED  BY <2>1, FailedUnit DEF Settles
  <1>8. CASE UnitThrows(r)
    <2>1. runs[r] # None /\ runs' = [runs EXCEPT ![r].allUnitsApplied = FALSE]
      BY <1>8, UnitThrowsStep DEF Advances, UnitThrows
    <2>. QED  BY <2>1, FailedUnit DEF Settles
  <1>12. CASE Judge(r)
    BY <1>12 DEF Settles
  <1>17. CASE \E passed \in BOOLEAN : CommandReturns(r, passed)
    BY <1>17 DEF CommandReturns, memory, Settles
  <1>. QED
    BY <1>2, <1>3, <1>4, <1>5, <1>6, <1>7, <1>8, <1>9, <1>10, <1>11, <1>12, <1>13,
       <1>14, <1>15, <1>16, <1>17, Zenon DEF Works, PipelineStep

\* The verification v cannot pass any more.
Failing(v) == v.blocked \/ v.timedOut

\* It has heard every command of proposal p before the n-th.
Heard(v, p, n) ==
    \/ Failing(v)
    \/ \A i \in DOMAIN Checks[p] : i < n => i \in v.passed \cup v.failed

Complete(v, p) ==
    \/ Failing(v)
    \/ \A i \in DOMAIN Checks[p] : i \in v.passed \cup v.failed

\* A run whose commands are being run, or are to be judged.
Listening(r) ==
    /\ runs[r] # None /\ pc[r] \in {"check", "running"}
           => Heard(verdict[r], runs[r].proposal, step[r])
    /\ runs[r] # None /\ pc[r] = "judge" => Complete(verdict[r], runs[r].proposal)
    /\ "timeout" \notin Faults => verdict[r].timedOut = FALSE

LEMMA HeardOn ==
  ASSUME NEW v \in Verdicts, NEW p \in Proposals, NEW n \in DOMAIN Checks[p], Heard(v, p, n)
  PROVE  /\ Heard([v EXCEPT !.passed = @ \cup {n}], p, n + 1)
         /\ [v EXCEPT !.passed = @ \cup {n}].timedOut = v.timedOut
         /\ [v EXCEPT !.blocked = TRUE].blocked = TRUE
         /\ [v EXCEPT !.blocked = TRUE].timedOut = v.timedOut
         /\ [v EXCEPT !.timedOut = TRUE].timedOut = TRUE
  <1>. DEFINE w == [v EXCEPT !.passed = v.passed \cup {n}]
  <1>1. /\ w.passed = v.passed \cup {n} /\ w.failed = v.failed
        /\ w.blocked = v.blocked /\ w.timedOut = v.timedOut
    BY DEF Verdicts
  <1>2. \A i \in DOMAIN Checks[p] : i < n + 1 => i < n \/ i = n
    BY ProposalData
  <1>3. [v EXCEPT !.passed = @ \cup {n}] = w
    OBVIOUS
  <1>. HIDE DEF w
  <1>4. ASSUME Failing(v) PROVE Heard(w, p, n + 1)
    <2>1. Failing(w)
      BY <1>1, <1>4 DEF Failing
    <2>. QED  BY <2>1 DEF Heard
  <1>5. ASSUME \A i \in DOMAIN Checks[p] : i < n => i \in v.passed \cup v.failed
        PROVE  Heard(w, p, n + 1)
    <2>1. \A i \in DOMAIN Checks[p] : i < n + 1 => i \in w.passed \cup w.failed
      BY <1>1, <1>2, <1>5
    <2>. QED  BY <2>1 DEF Heard
  <1>6. Heard(w, p, n + 1)
    BY <1>4, <1>5, Zenon DEF Heard
  <1>7. /\ [v EXCEPT !.blocked = TRUE].blocked = TRUE
        /\ [v EXCEPT !.blocked = TRUE].timedOut = v.timedOut
        /\ [v EXCEPT !.timedOut = TRUE].timedOut = TRUE
    BY DEF Verdicts
  <1>. QED  BY <1>1, <1>3, <1>6, <1>7

\* Where nothing is heard and nothing is to be judged.
LEMMA NotListening ==
  ASSUME NEW r \in Runs, Listening(r), UNCHANGED verdict,
         pc'[r] \notin {"check", "running", "judge"}
  PROVE  Listening(r)'
  BY DEF Listening

LEMMA WorkListens ==
  ASSUME TypeOK, Places, NEW r \in Runs, Works(r), Listening(r)
  PROVE  Listening(r)'
  <1>0. TypeOK' /\ Turn(r) /\ runs[r] # None /\ runs'[r] # None
        /\ runs'[r].proposal = runs[r].proposal /\ runs[r].proposal \in Proposals
        /\ verdict[r] \in Verdicts
    BY WorkStep, RunFields DEF Advances, TypeOK
  <1>2. CASE Validate(r)
    <2>1. UNCHANGED verdict
      BY <1>2 DEF Validate
    <2>. QED  BY <1>2, <2>1, ValidateStep, NotListening
  <1>3. CASE BuildPlan(r)
    <2>1. UNCHANGED verdict
      BY <1>3 DEF BuildPlan
    <2>. QED  BY <1>3, <2>1, BuildPlanStep, NotListening
  <1>4. CASE BeginApply(r)
    <2>1. UNCHANGED verdict
      BY <1>4 DEF BeginApply
    <2>. QED  BY <1>4, <2>1, BeginApplyStep, NotListening
  <1>5. CASE BackupUnit(r)
    <2>1. UNCHANGED verdict
      BY <1>5 DEF BackupUnit
    <2>. QED  BY <1>5, <2>1, BackupUnitStep, NotListening
  <1>6. CASE WriteUnit(r)
    <2>1. UNCHANGED verdict
      BY <1>6 DEF WriteUnit
    <2>. QED  BY <1>6, <2>1, WriteUnitStep, NotListening
  <1>7. CASE UnitRefused(r)
    <2>1. UNCHANGED verdict
      BY <1>7 DEF UnitRefused
    <2>. QED  BY <1>7, <2>1, UnitRefusedStep, NotListening
  <1>8. CASE UnitThrows(r)
    <2>1. UNCHANGED verdict
      BY <1>8 DEF UnitThrows
    <2>. QED  BY <1>8, <2>1, UnitThrowsStep, NotListening
  <1>12. CASE Judge(r)
    <2>1. UNCHANGED verdict
      BY <1>12 DEF Judge
    <2>. QED  BY <1>12, <2>1, JudgeStep, NotListening
  <1>13. CASE BeginRollback(r)
    <2>1. UNCHANGED verdict
      BY <1>13 DEF BeginRollback
    <2>. QED  BY <1>13, <2>1, BeginRollbackStep, NotListening
  <1>14. CASE RestoreFile(r)
    <2>1. UNCHANGED verdict
      BY <1>14 DEF RestoreFile
    <2>. QED  BY <1>14, <2>1, RestoreFileStep, NotListening
  <1>15. CASE SkipRestore(r)
    <2>1. UNCHANGED verdict
      BY <1>15 DEF SkipRestore
    <2>. QED  BY <1>15, <2>1, SkipRestoreStep, NotListening
  <1>16. CASE FinishRollback(r)
    <2>1. UNCHANGED verdict
      BY <1>16 DEF FinishRollback
    <2>. QED  BY <1>16, <2>1, FinishRollbackStep, NotListening
  <1>9. CASE ApplyDone(r)
    <2>1. UNCHANGED verdict
      BY <1>9 DEF ApplyDone
    <2>2. CASE pc'[r] = "check" /\ step'[r] = 1
      <3>1. \A i \in DOMAIN Checks[runs[r].proposal] : ~(i < 1)
        BY <1>0, ProposalData
      <3>2. Heard(verdict[r], runs[r].proposal, 1)
        BY <3>1 DEF Heard
      <3>. QED  BY <1>0, <2>1, <2>2, <3>2 DEF Listening
    <2>. QED  BY <1>9, <2>1, <2>2, ApplyDoneStep, NotListening
  <1>10. CASE EndChecks(r)
    <2>1. pc[r] = "check" /\ pc'[r] = "judge"
      BY <1>10, EndChecksStep
    <2>2. Heard(verdict[r], runs[r].proposal, step[r])
      BY <1>0, <2>1 DEF Listening
    <2>3. \/ ~CommandsLeft(r) /\ UNCHANGED verdict
          \/ "timeout" \in Faults /\ verdict' = [verdict EXCEPT ![r].timedOut = TRUE]
          \/ verdict' = [verdict EXCEPT ![r].blocked = TRUE]
      BY <1>10 DEF EndChecks
    <2>4. CASE ~CommandsLeft(r) /\ UNCHANGED verdict
      <3>1. \A i \in DOMAIN Checks[runs[r].proposal] : i < step[r]
        BY <1>0, <2>4, ProposalData DEF CommandsLeft, ChecksOf, TypeOK
      <3>2. Complete(verdict[r], runs[r].proposal)
        BY <2>2, <3>1 DEF Heard, Complete
      <3>. QED  BY <1>0, <2>1, <2>4, <3>2 DEF Listening
    <2>5. CASE "timeout" \in Faults /\ verdict' = [verdict EXCEPT ![r].timedOut = TRUE]
      <3>1. verdict'[r].timedOut = TRUE
        BY <1>0, <2>5 DEF TypeOK, Verdicts
      <3>2. Complete(verdict'[r], runs[r].proposal)
        BY <3>1 DEF Complete, Failing
      <3>. QED  BY <1>0, <2>1, <2>5, <3>2 DEF Listening
    <2>6. CASE verdict' = [verdict EXCEPT ![r].blocked = TRUE]
      <3>1. verdict'[r].blocked = TRUE /\ verdict'[r].timedOut = verdict[r].timedOut
        BY <1>0, <2>6 DEF TypeOK, Verdicts
      <3>2. Complete(verdict'[r], runs[r].proposal)
        BY <3>1 DEF Complete, Failing
      <3>. QED  BY <1>0, <2>1, <3>1, <3>2 DEF Listening
    <2>. QED  BY <2>3, <2>4, <2>5, <2>6
  <1>11. CASE RunCommand(r)
    <2>1. pc[r] = "check"
      BY <1>11, RunCommandStep
    <2>2. CASE pc'[r] = "running" /\ UNCHANGED << step, verdict >>
      BY <1>0, <2>1, <2>2 DEF Listening
    <2>3. CASE pc'[r] = "check" /\ verdict' = [verdict EXCEPT ![r].blocked = TRUE]
      <3>1. verdict'[r].blocked = TRUE /\ verdict'[r].timedOut = verdict[r].timedOut
        BY <1>0, <2>3 DEF TypeOK, Verdicts
      <3>2. Heard(verdict'[r], runs[r].proposal, step'[r])
        BY <3>1 DEF Heard, Failing
      <3>. QED  BY <1>0, <2>3, <3>1, <3>2 DEF Listening
    <2>. QED  BY <1>11, <2>2, <2>3, RunCommandStep
  <1>17. CASE \E passed \in BOOLEAN : CommandReturns(r, passed)
    <2>1. PICK passed \in BOOLEAN : CommandReturns(r, passed)
      BY <1>17
    <2>. DEFINE p == runs[r].proposal
    <2>2. /\ pc[r] = "running" /\ pc'[r] \in {"check", "judge"}
          /\ step'[r] = step[r] + 1 /\ step[r] \in DOMAIN Checks[p]
          /\ verdict'[r].timedOut = verdict[r].timedOut
      BY <2>1, CommandReturnsStep DEF ChecksOf
    <2>3. Heard(verdict[r], p, step[r])
      BY <1>0, <2>2 DEF Listening
    <2>4. \/ /\ pc'[r] = "check"
             /\ verdict' = [verdict EXCEPT ![r].passed = @ \cup {step[r]}]
          \/ /\ pc'[r] = "check"
             /\ verdict'[r].failed = verdict[r].failed \cup {step[r]}
             /\ verdict'[r].passed = verdict[r].passed
          \/ verdict'[r].blocked
      BY <2>1, CommandReturnsStep
    <2>5. CASE /\ pc'[r] = "check"
               /\ verdict' = [verdict EXCEPT ![r].passed = @ \cup {step[r]}]
      <3>1. verdict'[r] = [verdict[r] EXCEPT !.passed = @ \cup {step[r]}]
        BY <2>5 DEF TypeOK
      <3>2. Heard(verdict'[r], p, step'[r])
        BY <1>0, <2>2, <2>3, <3>1, HeardOn
      <3>. QED  BY <1>0, <2>2, <2>5, <3>2 DEF Listening
    <2>6. CASE /\ pc'[r] = "check"
               /\ verdict'[r].failed = verdict[r].failed \cup {step[r]}
               /\ verdict'[r].passed = verdict[r].passed
      <3>1. \A i \in DOMAIN Checks[p] : i < step[r] + 1 => i < step[r] \/ i = step[r]
        BY <1>0, <2>2, ProposalData
      <3>2. ASSUME Failing(verdict[r]) PROVE Heard(verdict'[r], p, step'[r])
        <4>1. verdict'[r].blocked = verdict[r].blocked \/ verdict'[r].blocked = TRUE
          BY <2>1, <2>6, <1>0 DEF CommandReturns, TypeOK, Verdicts
        <4>2. Failing(verdict'[r])
          BY <2>2, <3>2, <4>1 DEF Failing
        <4>. QED  BY <4>2 DEF Heard
      <3>3. ASSUME \A i \in DOMAIN Checks[p] : i < step[r] => i \in verdict[r].passed \cup verdict[r].failed
            PROVE  Heard(verdict'[r], p, step'[r])
        <4>1. \A i \in DOMAIN Checks[p] :
                  i < step'[r] => i \in verdict'[r].passed \cup verdict'[r].failed
          BY <2>2, <2>6, <3>1, <3>3
        <4>. QED  BY <4>1 DEF Heard
      <3>4. Heard(verdict'[r], p, step'[r])
        BY <2>3, <3>2, <3>3 DEF Heard
      <3>. QED  BY <1>0, <2>2, <2>6, <3>4 DEF Listening
    <2>7. CASE verdict'[r].blocked
      <3>1. Heard(verdict'[r], p, step'[r]) /\ Complete(verdict'[r], p)
        BY <2>7 DEF Heard, Complete, Failing
      <3>. QED  BY <1>0, <2>2, <3>1 DEF Listening
    <2>. QED  BY <2>4, <2>5, <2>6, <2>7
  <1>. QED
    BY <1>2, <1>3, <1>4, <1>5, <1>6, <1>7, <1>8, <1>9, <1>10, <1>11, <1>12, <1>13,
       <1>14, <1>15, <1>16, <1>17, Zenon DEF Works, PipelineStep

\* A run that waits for its manual check.
Awaiting(r) ==
    runs[r] # None /\ runs[r].status = "verifying" /\ runs[r].verification.done = TRUE =>
        /\ runs[r].proposal \in ManualReview
        /\ Complete(runs[r].verification.verdict, runs[r].proposal)
        /\ "timeout" \notin Faults => runs[r].verification.verdict.timedOut = FALSE

\* A verdict that a run of proposal p may succeed with: only a manual check lets
\* one through that ran out of time.
Sufficient(v, p) ==
    /\ ~v.blocked /\ v.failed = {}
    /\ v.timedOut => p \in ManualReview /\ "timeout" \in Faults
    /\ v.timedOut \/ \A i \in DOMAIN Checks[p] : i \in v.passed

\* The pipeline of a successful run is over, and so are its commands.
Succeeded(r) ==
    runs[r] # None /\ runs[r].status = "succeeded" =>
        /\ ~PipelineLive(r)
        /\ ~runs[r].dryRun =>
              /\ runs[r].verification.done
              /\ Sufficient(runs[r].verification.verdict, runs[r].proposal)
              /\ runs[r].proposal \in ManualReview => runs[r].verification.manualCheckRecorded

Outcome(r) == Listening(r) /\ Awaiting(r) /\ Succeeded(r)

LEMMA WorkAwaits ==
  ASSUME TypeOK, Places, Undecided, NEW r \in Runs, Works(r), Listening(r), Awaiting(r)
  PROVE  Awaiting(r)'
  <1>. SUFFICES ASSUME runs'[r].status = "verifying", runs'[r].verification.done = TRUE
                PROVE  /\ runs'[r].proposal \in ManualReview
                       /\ Complete(runs'[r].verification.verdict, runs'[r].proposal)
                       /\ "timeout" \notin Faults
                              => runs'[r].verification.verdict.timedOut = FALSE
    BY DEF Awaiting
  <1>1. /\ runs[r] \in RunRecords /\ runs[r] # None /\ runs'[r].proposal = runs[r].proposal
    BY WorkStep DEF Advances, TypeOK
  <1>2. CASE Judge(r)
    <2>1. /\ Judged(r) \in RunRecords /\ Judged(r).proposal = runs[r].proposal
          /\ Judged(r).verification.verdict = verdict[r]
      BY <1>1, JudgedData
    <2>2. /\ pc[r] = "judge"
          /\ \/ runs[r].proposal \in ManualReview /\ runs'[r] = Judged(r)
             \/ runs'[r] = [Judged(r) EXCEPT !.status = "failed_verification"]
             \/ runs'[r] = [Judged(r) EXCEPT !.status = "succeeded"]
      BY <1>2, JudgeStep, Zenon DEF Recorded
    <2>3. runs[r].proposal \in ManualReview /\ runs'[r] = Judged(r)
      BY <2>1, <2>2 DEF RunRecords
    <2>4. /\ Complete(verdict[r], runs[r].proposal)
          /\ "timeout" \notin Faults => verdict[r].timedOut = FALSE
      BY <1>1, <2>2 DEF Listening
    <2>. QED  BY <2>1, <2>3, <2>4
  <1>3. CASE ~Judge(r)
    <2>1. runs'[r].verification = runs[r].verification
      BY <1>3, WorkKeeps DEF Keeps
    <2>2. pc[r] \notin BeforeVerdict
      BY <1>1, <2>1 DEF Undecided
    <2>3. runs[r].status = "verifying"
      BY <1>3, <2>2, WorkSettles DEF Settles, BeforeVerdict
    <2>. QED  BY <1>1, <2>1, <2>3 DEF Awaiting
  <1>. QED  BY <1>2, <1>3

LEMMA WorkSucceeds ==
  ASSUME TypeOK, Places, NEW r \in Runs, Works(r), Listening(r), Succeeded(r)
  PROVE  Succeeded(r)'
  <1>. SUFFICES ASSUME runs'[r].status = "succeeded"
                PROVE  /\ ~PipelineLive(r)'
                       /\ ~runs'[r].dryRun =>
                            /\ runs'[r].verification.done
                            /\ Sufficient(runs'[r].verification.verdict, runs'[r].proposal)
                            /\ runs'[r].proposal \in ManualReview
                                 => runs'[r].verification.manualCheckRecorded
    BY Zenon DEF Succeeded, Sufficient
  <1>1. /\ runs[r] \in RunRecords /\ runs[r] # None /\ runs'[r].proposal = runs[r].proposal
        /\ PipelineLive(r)
        /\ \/ runs'[r].status = runs[r].status \/ runs'[r].status \in ActiveStatuses
           \/ pc'[r] = "done"
    BY WorkStep DEF Advances, TypeOK
  <1>2. runs[r].status # "succeeded"
    BY <1>1 DEF Succeeded
  <1>3. ~PipelineLive(r)'
    BY <1>1, <1>2 DEF PipelineLive, ActiveStatuses
  <1>4. Judge(r) \/ runs[r].dryRun
    BY <1>2, WorkSettles DEF Settles
  <1>5. CASE runs[r].dryRun
    <2>1. runs'[r].dryRun = runs[r].dryRun
      BY WorkKeeps DEF Keeps
    <2>. QED  BY <1>3, <1>5, <2>1, Zenon
  <1>6. CASE Judge(r)
    <2>1. /\ Judged(r) \in RunRecords /\ Judged(r).proposal = runs[r].proposal
          /\ Judged(r).status = runs[r].status
          /\ Judged(r).verification.done = TRUE
          /\ Judged(r).verification.verdict = verdict[r]
      BY <1>1, JudgedData
    <2>2. /\ pc[r] = "judge"
          /\ \/ runs'[r] = Judged(r)
             \/ runs'[r] = [Judged(r) EXCEPT !.status = "failed_verification"]
             \/ OverallPassed(r) /\ runs'[r] = [Judged(r) EXCEPT !.status = "succeeded"]
      BY <1>6, JudgeStep, Zenon DEF Recorded
    <2>3. runs'[r] # Judged(r)
      BY <1>2, <2>1
    <2>4. runs'[r] # [Judged(r) EXCEPT !.status = "failed_verification"]
      BY <2>1 DEF RunRecords
    <2>5. OverallPassed(r) /\ runs'[r] = [Judged(r) EXCEPT !.status = "succeeded"]
      BY <2>2, <2>3, <2>4, Zenon
    <2>6. runs'[r].verification = Judged(r).verification
      BY <2>1, <2>5 DEF RunRecords
    <2>7. /\ verdict[r].failed = {} /\ ~verdict[r].blocked /\ ~verdict[r].timedOut
          /\ runs[r].proposal \notin ManualReview
      BY <2>5, Zenon DEF OverallPassed
    <2>8. Complete(verdict[r], runs[r].proposal)
      BY <1>1, <2>2 DEF Listening
    <2>9. \A i \in DOMAIN Checks[runs[r].proposal] : i \in verdict[r].passed
      BY <2>7, <2>8 DEF Complete, Failing
    <2>10. /\ runs'[r].verification.done = TRUE
           /\ runs'[r].verification.verdict = verdict[r]
      BY <2>1, <2>6
    <2>11. Sufficient(verdict[r], runs[r].proposal)
      BY <2>7, <2>9, Zenon DEF Sufficient
    <2>. QED  BY <1>1, <1>3, <2>7, <2>10, <2>11, Zenon
  <1>. QED  BY <1>4, <1>5, <1>6, Zenon

LEMMA ManualCheckOutcome ==
  ASSUME Base, Undecided, NEW r \in Runs, Outcome(r),
         NEW passed \in BOOLEAN, ManualCheck(r, passed)
  PROVE  Outcome(r)'
  <1>. TypeOK /\ Places
    BY DEF Base
  <1>1. pc[r] = "done" /\ runs[r] # None /\ runs[r] \in RunRecords
    BY ManualCheckWaits, ManualCheckStep
  <1>2. /\ Checked(r, passed) \in RunRecords
        /\ Checked(r, passed).status = runs[r].status
        /\ Checked(r, passed).proposal = runs[r].proposal
        /\ Checked(r, passed).dryRun = runs[r].dryRun
        /\ Checked(r, passed).verification.done = runs[r].verification.done
        /\ Checked(r, passed).verification.verdict = runs[r].verification.verdict
        /\ Checked(r, passed).verification.manualCheckRecorded = TRUE
    BY <1>1, CheckedData
  <1>3. /\ pc'[r] \in {"done", "rollback"} /\ runs[r].verification.done = TRUE
        /\ UNCHANGED verdict
    <2>1. runs[r].verification.done \in BOOLEAN
      BY <1>1 DEF RunRecords
    <2>. QED  BY <1>1, <2>1, ManualCheckStep DEF ManualCheck
  <1>4. Listening(r)'
    BY <1>3, NotListening DEF Outcome
  <1>5. \/ /\ pc' = pc /\ runs[r].status = "verifying" /\ Overall(r, passed)
           /\ runs'[r] = [Checked(r, passed) EXCEPT !.status = "succeeded"]
        \/ runs'[r] = [Checked(r, passed) EXCEPT !.status = "failed_verification"]
        \/ pc' = pc /\ runs'[r] = Checked(r, passed)
    BY ManualCheckStep, Zenon DEF Recorded
  <1>6. CASE /\ pc' = pc /\ runs[r].status = "verifying" /\ Overall(r, passed)
             /\ runs'[r] = [Checked(r, passed) EXCEPT !.status = "succeeded"]
    <2>1. /\ runs'[r].status = "succeeded" /\ runs'[r].proposal = runs[r].proposal
          /\ runs'[r].verification = Checked(r, passed).verification
      BY <1>2, <1>6 DEF RunRecords
    <2>2. /\ runs[r].proposal \in ManualReview
          /\ Complete(runs[r].verification.verdict, runs[r].proposal)
          /\ "timeout" \notin Faults => runs[r].verification.verdict.timedOut = FALSE
      BY <1>1, <1>3, <1>6 DEF Outcome, Awaiting
    <2>3. runs[r].verification.verdict.timedOut \in BOOLEAN
      BY <1>1 DEF RunRecords, Verdicts
    <2>4. /\ runs[r].verification.verdict.failed = {}
          /\ ~runs[r].verification.verdict.blocked
      BY <1>6, Zenon DEF Overall
    <2>5. Sufficient(runs[r].verification.verdict, runs[r].proposal)
      BY <2>2, <2>3, <2>4 DEF Complete, Failing, Sufficient
    <2>6. ~PipelineLive(r)'
      BY <1>1, <1>6 DEF PipelineLive
    <2>7. /\ runs'[r].verification.done = TRUE
          /\ runs'[r].verification.verdict = runs[r].verification.verdict
          /\ runs'[r].verification.manualCheckRecorded = TRUE
      BY <1>2, <1>3, <2>1
    <2>8. Succeeded(r)'
      BY <2>1, <2>5, <2>6, <2>7, Zenon DEF Succeeded
    <2>9. Awaiting(r)'
      BY <2>1 DEF Awaiting
    <2>. QED  BY <1>4, <2>8, <2>9 DEF Outcome
  <1>7. CASE runs'[r] = [Checked(r, passed) EXCEPT !.status = "failed_verification"]
    <2>1. runs'[r].status = "failed_verification"
      BY <1>2, <1>7 DEF RunRecords
    <2>. QED  BY <1>4, <2>1 DEF Outcome, Succeeded, Awaiting
  <1>8. CASE pc' = pc /\ runs'[r] = Checked(r, passed)
    <2>1. Awaiting(r)'
      BY <1>1, <1>2, <1>3, <1>8 DEF Outcome, Awaiting
    <2>2. runs[r].status = "succeeded" =>
             /\ ~PipelineLive(r)'
             /\ ~runs'[r].dryRun =>
                  /\ runs'[r].verification.done = TRUE
                  /\ Sufficient(runs'[r].verification.verdict, runs'[r].proposal)
      <3>1. PipelineLive(r)' <=> PipelineLive(r)
        BY <1>8 DEF PipelineLive
      <3>. QED  BY <1>1, <1>2, <1>3, <1>8, <3>1, Zenon DEF Outcome, Succeeded
    <2>3. Succeeded(r)'
      BY <1>2, <1>8, <2>2, Zenon DEF Succeeded
    <2>. QED  BY <1>4, <2>1, <2>3 DEF Outcome
  <1>. QED  BY <1>5, <1>6, <1>7, <1>8

Outcomes == \A r \in Runs : Outcome(r)

LEMMA OutcomeStep ==
  ASSUME Base, Undecided, Outcomes, [Next]_vars
  PROVE  Outcomes'
  <1>. TypeOK /\ Places
    BY DEF Base
  <1>. SUFFICES ASSUME NEW q \in Runs PROVE Outcome(q)'
    BY DEF Outcomes
  <1>1. ASSUME runs'[q] = runs[q], pc'[q] = pc[q], step'[q] = step[q], verdict'[q] = verdict[q]
        PROVE  Outcome(q)'
    <2>1. Outcome(q)
      BY DEF Outcomes
    <2>2. Listening(q)'
      BY <1>1, <2>1 DEF Outcome, Listening
    <2>3. Awaiting(q)'
      BY <1>1, <2>1 DEF Outcome, Awaiting
    <2>4. Succeeded(q)'
      BY <1>1, <2>1, Zenon DEF Outcome, Succeeded, PipelineLive
    <2>. QED  BY <2>2, <2>3, <2>4 DEF Outcome
  <1>2. ASSUME UNCHANGED verdict, pc'[q] \notin {"check", "running", "judge"},
               runs'[q] # None => runs'[q].status \notin {"verifying", "succeeded"}
        PROVE  Outcome(q)'
    BY <1>2, NotListening DEF Outcomes, Outcome, Awaiting, Succeeded
  <1>3. ASSUME NEW r \in Runs, NEW p \in Proposals, NEW dryRun \in BOOLEAN, Start(r, p, dryRun)
        PROVE  Outcome(q)'
    <2>1. Turn(r) /\ runs'[r] = NewRun(p, dryRun) /\ pc'[r] = "validate" /\ UNCHANGED verdict
      BY <1>3, StartStep DEF Recorded
    <2>2. CASE q = r
      BY <1>2, <2>1, <2>2, NewRunData
    <2>3. CASE q # r
      BY <1>1, <2>1, <2>3 DEF Turn, OthersKeep
    <2>. QED  BY <2>2, <2>3
  <1>4. ASSUME NEW r \in Runs, Acts(r) PROVE Outcome(q)'
    <2>1. TypeOK' /\ Turn(r) /\ Advances(r)
      BY <1>4, ActStep
    <2>2. CASE q # r
      BY <1>1, <2>1, <2>2 DEF Turn, OthersKeep
    <2>3. CASE q = r /\ Works(r)
      BY <2>3, WorkListens, WorkAwaits, WorkSucceeds DEF Outcomes, Outcome
    <2>4. CASE q = r /\ UserAbort(r)
      <3>1. /\ runs[r] \in RunRecords /\ pc' = pc /\ runs[r] # None
            /\ runs'[r] = [runs[r] EXCEPT !.status = "aborted", !.abortReason = "user"]
            /\ UNCHANGED << step, verdict >>
        BY <2>1, <2>4, UserAbortStep DEF Recorded, Advances, UserAbort, pipeline
      <3>2. runs'[r].status = "aborted" /\ runs'[r].proposal = runs[r].proposal
        BY <3>1 DEF RunRecords
      <3>3. Listening(r)'
        BY <3>1, <3>2 DEF Outcomes, Outcome, Listening
      <3>. QED  BY <2>4, <3>2, <3>3 DEF Outcome, Awaiting, Succeeded
    <2>5. ASSUME NEW passed \in BOOLEAN, ManualCheck(r, passed), q = r PROVE Outcome(q)'
      BY <2>5, ManualCheckOutcome DEF Outcomes
    <2>. QED  BY <1>4, <2>2, <2>3, <2>4, <2>5 DEF Acts
  <1>5. ASSUME NEW r \in Runs, Recover(r) PROVE Outcome(q)'
    <2>1. /\ ~up /\ UNCHANGED << pc, step, verdict >> /\ OthersKeep(r) /\ saved[r] \in RunRecords
          /\ runs'[r] = [saved[r] EXCEPT !.status = "aborted", !.abortReason = "crash_recovery"]
      BY <1>5, RecoverStep DEF pipeline, Recorded
    <2>2. CASE q = r
      <3>1. runs'[r].status = "aborted"
        BY <2>1 DEF RunRecords
      <3>2. ~PipelineLive(q) /\ pc'[q] \notin {"check", "running", "judge"}
        BY <2>1 DEF Places, PlaceOK, PipelineLive
      <3>. QED  BY <1>2, <2>1, <2>2, <3>1, <3>2
    <2>3. CASE q # r
      BY <1>1, <2>1, <2>3 DEF OthersKeep
    <2>. QED  BY <2>2, <2>3
  <1>6. CASE Crash
    <2>1. UNCHANGED verdict /\ pc'[q] \in {"none", "done"} /\ runs'[q] = None
      BY <1>6 DEF Crash
    <2>. QED  BY <1>2, <2>1
  <1>7. ASSUME NEW t \in Subsystems, CooldownExpires(t)
        PROVE  UNCHANGED << runs, pc, step, verdict >>
    BY <1>7 DEF CooldownExpires, pipeline
  <1>8. Boot \/ UNCHANGED vars => UNCHANGED << runs, pc, step, verdict >>
    BY DEF Boot, memory, pipeline, vars
  <1>. QED  BY <1>1, <1>3, <1>4, <1>5, <1>6, <1>7, <1>8, NextCases

LEMMA InitOutcomes == Init => Outcomes
  BY DEF Init, Outcomes, Outcome, Listening, Awaiting, Succeeded, NoVerdict

\* A run succeeds only with a verification in which nothing failed and nothing
\* was blocked, with its manual check, and with its critical commands passed
\* unless a person let a verification through that ran out of time.
THEOREM SuccessIsEarned == Spec => []SuccessEarned
  <1>1. Base /\ Undecided /\ Outcomes /\ [Next]_vars => Outcomes'
    BY OutcomeStep
  <1>2. Outcomes => SuccessEarned
    <2>. SUFFICES ASSUME Outcomes, NEW r \in Runs, runs[r] # None,
                         runs[r].status = "succeeded", ~runs[r].dryRun
                  PROVE  LET result == runs[r].verification
                         IN  /\ result.done /\ ~result.verdict.blocked
                             /\ result.verdict.failed = {}
                             /\ runs[r].proposal \in ManualReview => result.manualCheckRecorded
                             /\ result.verdict.timedOut => runs[r].proposal \in ManualReview
                             /\ result.verdict.timedOut \/ CriticalPassed(r)
      BY Zenon DEF SuccessEarned
    <2>. QED  BY Zenon DEF Outcomes, Outcome, Succeeded, Sufficient, CriticalPassed, ChecksOf
  <1>. QED  BY <1>1, <1>2, InitOutcomes, BaseHolds, UndecidedHolds, PTL DEF Spec

\* What VerificationRunner promises, where it keeps it: as long as no
\* verification that ran out of time can wait for a manual check, every
\* critical command of a successful run has passed.
THEOREM SuccessIsVerified ==
    "timeout" \notin Faults \/ ManualReview = {} => (Spec => []SuccessVerified)
  <1>. SUFFICES ASSUME "timeout" \notin Faults \/ ManualReview = {}
                PROVE  Spec => []SuccessVerified
    OBVIOUS
  <1>1. Base /\ Undecided /\ Outcomes /\ [Next]_vars => Outcomes'
    BY OutcomeStep
  <1>2. Outcomes => SuccessVerified
    <2>. SUFFICES ASSUME Outcomes, NEW r \in Runs, runs[r] # None,
                         runs[r].status = "succeeded", ~runs[r].dryRun
                  PROVE  LET result == runs[r].verification
                         IN  /\ result.done /\ ~result.verdict.blocked
                             /\ CriticalPassed(r)
                             /\ runs[r].proposal \in ManualReview => result.manualCheckRecorded
      BY Zenon DEF SuccessVerified
    <2>1. /\ runs[r].verification.done
          /\ Sufficient(runs[r].verification.verdict, runs[r].proposal)
          /\ runs[r].proposal \in ManualReview => runs[r].verification.manualCheckRecorded
      BY Zenon DEF Outcomes, Outcome, Succeeded
    <2>2. ~runs[r].verification.verdict.timedOut
      BY <2>1 DEF Sufficient
    <2>. QED  BY <2>1, <2>2, Zenon DEF Sufficient, CriticalPassed, ChecksOf
  <1>. QED  BY <1>1, <1>2, InitOutcomes, BaseHolds, UndecidedHolds, PTL DEF Spec

-----------------------------------------------------------------------------
(***************************************************************************)
(* One pipeline per subsystem.  Without user aborts it is the lock; with   *)
(* them it is the cooldown, as long as no manual check can start a         *)
(* pipeline again after its cooldown.                                      *)
(***************************************************************************)
\* A pipeline that has lost its lock is covered by the cooldown.
Covered ==
    \A r \in Runs : runs[r] # None /\ PipelineLive(r)
                        => SubsystemOf(r) \in cooling \/ lock[SubsystemOf(r)] = r

LEMMA NoSecondWind ==
  ASSUME Base, Undecided, Outcomes, ManualReview = {}, NEW r \in Runs, Acts(r),
         PipelineLive(r)'
  PROVE  PipelineLive(r)
  <1>1. CASE Works(r)
    BY <1>1, WorkStep DEF Base
  <1>2. CASE UserAbort(r)
    BY <1>2, UserAbortStep DEF Base, PipelineLive
  <1>3. ASSUME NEW passed \in BOOLEAN, ManualCheck(r, passed) PROVE PipelineLive(r)
    <2>1. pc' = pc \/ runs[r].status = "verifying"
      BY <1>3, ManualCheckStep DEF Base
    <2>2. runs[r].status # "verifying"
      <3>1. runs[r] # None /\ runs[r] \in RunRecords /\ runs[r].verification.done
        BY <1>3, ManualCheckWaits, ManualCheckStep DEF Base
      <3>2. runs[r].verification.done = TRUE
        BY <3>1 DEF RunRecords
      <3>. QED  BY <3>1, <3>2 DEF Outcomes, Outcome, Awaiting
    <2>. QED  BY <2>1, <2>2 DEF PipelineLive
  <1>. QED  BY <1>1, <1>2, <1>3 DEF Acts

LEMMA CoveredStep ==
  ASSUME Base, Undecided, Outcomes, LockOK, Covered, OnePipelinePerSubsystem,
         ManualReview = {}, [Next]_vars
  PROVE  Covered' /\ OnePipelinePerSubsystem'
  <1>. TypeOK /\ Places
    BY DEF Base
  <1>1. ASSUME NEW r \in Runs, NEW p \in Proposals, NEW dryRun \in BOOLEAN, Start(r, p, dryRun)
        PROVE  Covered' /\ OnePipelinePerSubsystem'
    <2>1. /\ Turn(r) /\ runs[r] = None /\ runs'[r] = NewRun(p, dryRun)
          /\ ~IsSubsystemLocked(Subsystem[p]) /\ Subsystem[p] \in Subsystems \ cooling
          /\ lock' = [lock EXCEPT ![Subsystem[p]] = r] /\ UNCHANGED cooling
      BY <1>1, StartStep DEF Recorded
    <2>2. SubsystemOf(r)' = Subsystem[p]
      <3>1. NewRun(p, dryRun).proposal = p
        BY NewRunData
      <3>. QED  BY <2>1, <3>1 DEF SubsystemOf
    <2>3. ASSUME NEW q \in Runs \ {r}
          PROVE  /\ runs'[q] = runs[q] /\ SubsystemOf(q)' = SubsystemOf(q)
                 /\ PipelineLive(q)' <=> PipelineLive(q)
      BY <2>1 DEF Turn, OthersKeep, SubsystemOf, PipelineLive
    <2>4. ASSUME NEW q \in Runs, runs[q] # None, PipelineLive(q)
          PROVE  SubsystemOf(q) # Subsystem[p] /\ SubsystemOf(q) \in Subsystems
      <3>1. lock[Subsystem[p]] = q => Active(q)
        BY <2>1, <2>4 DEF LockOK
      <3>2. lock[Subsystem[p]] # q
        BY <2>1, <3>1, NoneAssumption DEF IsSubsystemLocked, Active
      <3>. QED  BY <2>1, <2>4, <3>2, RunData DEF Covered
    <2>5. Covered'
      <3>. SUFFICES ASSUME NEW q \in Runs, runs'[q] # None, PipelineLive(q)'
                    PROVE  SubsystemOf(q)' \in cooling' \/ lock'[SubsystemOf(q)'] = q
        BY DEF Covered
      <3>1. CASE q = r
        BY <2>1, <2>2, <3>1 DEF TypeOK
      <3>2. CASE q # r
        BY <2>1, <2>3, <2>4, <3>2 DEF Covered, TypeOK
      <3>. QED  BY <3>1, <3>2
    <2>6. OnePipelinePerSubsystem'
      <3>. SUFFICES ASSUME NEW q \in Runs, NEW t \in Runs,
                           runs'[q] # None, PipelineLive(q)',
                           runs'[t] # None, PipelineLive(t)',
                           SubsystemOf(q)' = SubsystemOf(t)'
                    PROVE  q = t
        BY DEF OnePipelinePerSubsystem
      <3>1. CASE q # r /\ t # r
        BY <2>3, <3>1 DEF OnePipelinePerSubsystem
      <3>2. CASE q = r \/ t = r
        BY <2>2, <2>3, <2>4, <3>2
      <3>. QED  BY <3>1, <3>2
    <2>. QED  BY <2>5, <2>6
  <1>2. ASSUME NEW r \in Runs, Acts(r)
        PROVE  Covered' /\ OnePipelinePerSubsystem'
    <2>1. TypeOK' /\ Turn(r) /\ Advances(r) /\ (PipelineLive(r)' => PipelineLive(r))
      BY <1>2, ActStep, NoSecondWind
    <2>2. ASSUME NEW q \in Runs, runs'[q] # None, PipelineLive(q)'
          PROVE  /\ runs[q] # None /\ PipelineLive(q) /\ SubsystemOf(q)' = SubsystemOf(q)
                 /\ SubsystemOf(q) \in Subsystems
      <3>1. /\ runs[q] # None /\ PipelineLive(q) /\ SubsystemOf(q)' = SubsystemOf(q)
        BY <2>1, <2>2 DEF Turn, OthersKeep, Advances, SubsystemOf, PipelineLive
      <3>. QED  BY <3>1, RunData
    <2>3. Covered'
      <3>. SUFFICES ASSUME NEW q \in Runs, runs'[q] # None, PipelineLive(q)'
                    PROVE  SubsystemOf(q)' \in cooling' \/ lock'[SubsystemOf(q)'] = q
        BY DEF Covered
      <3>1. SubsystemOf(q) \in cooling \/ lock[SubsystemOf(q)] = q
        BY <2>2 DEF Covered
      <3>2. SubsystemOf(r) \in Subsystems
        BY <2>1, RunData DEF Advances
      <3>3. CASE UNCHANGED << lock, cooling >>
        BY <2>2, <3>1, <3>3
      <3>4. CASE /\ lock' = [lock EXCEPT ![SubsystemOf(r)] = None]
                 /\ cooling' = cooling \cup {SubsystemOf(r)}
        BY <2>2, <3>1, <3>2, <3>4 DEF TypeOK
      <3>. QED  BY <2>1, <3>3, <3>4 DEF Advances
    <2>4. OnePipelinePerSubsystem'
      BY <2>2 DEF OnePipelinePerSubsystem
    <2>. QED  BY <2>3, <2>4
  <1>3. ASSUME NEW t \in Subsystems, CooldownExpires(t)
        PROVE  Covered' /\ OnePipelinePerSubsystem'
    <2>1. /\ cooling' = cooling \ {t} /\ UNCHANGED << runs, lock, pc >>
          /\ \A r \in Runs : runs[r] # None /\ PipelineLive(r) => SubsystemOf(r) # t
      BY <1>3 DEF CooldownExpires, pipeline
    <2>. QED  BY <2>1 DEF Covered, OnePipelinePerSubsystem, PipelineLive, SubsystemOf
  <1>4. ASSUME ~up', Places' PROVE Covered' /\ OnePipelinePerSubsystem'
    <2>1. \A q \in Runs : ~PipelineLive(q)'
      BY <1>4 DEF Places, PlaceOK
    <2>. QED  BY <2>1 DEF Covered, OnePipelinePerSubsystem
  <1>5. ASSUME NEW r \in Runs, Recover(r) PROVE Covered' /\ OnePipelinePerSubsystem'
    BY <1>4, <1>5, RecoverStep DEF process
  <1>6. CASE Crash
    BY <1>4, <1>6, CrashStep
  <1>7. Boot \/ UNCHANGED vars => UNCHANGED << runs, lock, pc, cooling >>
    BY DEF Boot, memory, pipeline, vars
  <1>8. ASSUME UNCHANGED << runs, lock, pc, cooling >>
        PROVE  Covered' /\ OnePipelinePerSubsystem'
    BY <1>8 DEF Covered, OnePipelinePerSubsystem, PipelineLive, SubsystemOf
  <1>. QED  BY <1>1, <1>2, <1>3, <1>5, <1>6, <1>7, <1>8, NextCases

LEMMA InitCovered == Init => Covered /\ OnePipelinePerSubsystem
  BY DEF Init, Covered, OnePipelinePerSubsystem

\* Two pipelines never work on the same subsystem, unless a user abort and a
\* manual check come together.
THEOREM OnePipeline ==
    "abort" \notin Faults \/ ManualReview = {} => (Spec => []OnePipelinePerSubsystem)
  <1>1. ASSUME "abort" \notin Faults PROVE Spec => []OnePipelinePerSubsystem
    <2>1. Base /\ Undecided /\ Busy /\ [Next]_vars => Busy'
      BY <1>1, BusyStep
    <2>2. Busy => OnePipelinePerSubsystem
      BY DEF Busy, OnePipelinePerSubsystem
    <2>. QED  BY <2>1, <2>2, InitBusy, BaseHolds, UndecidedHolds, PTL DEF Spec
  <1>2. ASSUME ManualReview = {} PROVE Spec => []OnePipelinePerSubsystem
    <2>1. Base /\ Undecided /\ Outcomes /\ [Next]_vars => Outcomes'
      BY <1>2, OutcomeStep
    <2>2. Base /\ Undecided /\ Outcomes /\ LockOK /\ Covered /\ OnePipelinePerSubsystem
              /\ [Next]_vars => Covered' /\ OnePipelinePerSubsystem'
      BY <1>2, CoveredStep
    <2>. QED  BY <2>1, <2>2, InitOutcomes, InitCovered, BaseHolds, UndecidedHolds, LockHolds,
                 PTL DEF Spec
  <1>. QED  BY <1>1, <1>2

-----------------------------------------------------------------------------
(***************************************************************************)
(* The run files, as long as the file system takes them.                   *)
(***************************************************************************)
EarlyStatuses == {"pending_execution", "validating", "ready_to_apply"}

\* The places before the apply phase.
EarlyPlaces == {"none", "validate", "plan", "begin"}

\* A step of run r leaves its status and its run file alone, or writes both.
\* Past the early places the status is not an early one either, and there is
\* no way back.
Saves(r) ==
    /\ \/ runs'[r].status = runs[r].status /\ saved'[r] = saved[r]
       \/ saved'[r] = runs'[r]
    /\ \/ pc'[r] \in EarlyPlaces
       \/ runs'[r].status \notin EarlyStatuses
       \/ runs'[r].status = runs[r].status /\ pc[r] \notin EarlyPlaces
    /\ pc'[r] \in EarlyPlaces
           => pc[r] \in EarlyPlaces /\ written'[r] = written[r] /\ backup'[r] = backup[r]

LEMMA WorkSaves ==
  ASSUME TypeOK, Places, NEW r \in Runs, Works(r), "save" \notin Faults
  PROVE  Saves(r)
  <1>1. runs[r] # None => runs[r] \in RunRecords
    BY DEF TypeOK
  <1>2. CASE Validate(r)
    <2>1. runs[r] \in RunRecords /\ saved'[r] = runs'[r]
      BY <1>1, <1>2, ValidateStep DEF Advances, Recorded
    <2>2. pc[r] = "validate" /\ pc'[r] = "plan" /\ UNCHANGED << written, backup >>
      BY <1>2, ValidateStep DEF Validate
    <2>. QED  BY <2>1, <2>2 DEF Saves, EarlyPlaces
  <1>3. CASE BuildPlan(r)
    <2>1. runs[r] \in RunRecords /\ saved'[r] = runs'[r]
      BY <1>1, <1>3, BuildPlanStep DEF Advances, Recorded
    <2>2. /\ pc[r] = "plan" /\ UNCHANGED << written, backup >>
          /\ \/ pc'[r] = "begin"
             \/ runs'[r] = [runs[r] EXCEPT !.status = "aborted", !.abortReason = "pipeline"]
      BY <1>3, BuildPlanStep, Zenon DEF BuildPlan, Recorded
    <2>3. pc'[r] = "begin" \/ runs'[r].status = "aborted"
      BY <2>1, <2>2 DEF RunRecords
    <2>. QED  BY <2>1, <2>2, <2>3 DEF Saves, EarlyPlaces, EarlyStatuses
  <1>4. CASE BeginApply(r)
    <2>1. runs[r] \in RunRecords /\ saved'[r] = runs'[r]
      BY <1>1, <1>4, BeginApplyStep DEF Advances, Recorded
    <2>2. runs'[r] = [runs[r] EXCEPT !.status = "applying"]
      BY <1>4, BeginApplyStep, Zenon DEF Recorded
    <2>3. runs'[r].status \notin EarlyStatuses
      BY <2>1, <2>2 DEF RunRecords, EarlyStatuses
    <2>4. pc'[r] \notin EarlyPlaces
      BY <1>4, BeginApplyStep DEF EarlyPlaces
    <2>. QED  BY <2>1, <2>3, <2>4 DEF Saves
  <1>9. CASE ApplyDone(r)
    <2>0. runs[r] \in RunRecords
      BY <1>1, <1>9, ApplyDoneStep DEF Advances
    <2>5. saved'[r] = runs'[r]
      BY <1>9, ApplyDoneStep, Zenon DEF Recorded
    <2>1. runs[r] \in RunRecords /\ saved'[r] = runs'[r]
      BY <2>0, <2>5
    <2>2. \/ runs'[r] = [runs[r] EXCEPT !.status = "rollback_pending"]
          \/ runs'[r] = [runs[r] EXCEPT !.status = "succeeded"]
          \/ runs'[r] = [runs[r] EXCEPT !.status = "verifying"]
      BY <1>9, ApplyDoneStep, Zenon DEF Recorded
    <2>3. runs'[r].status \notin EarlyStatuses
      BY <2>1, <2>2 DEF RunRecords, EarlyStatuses
    <2>4. pc'[r] \notin EarlyPlaces
      BY <1>9, ApplyDoneStep DEF EarlyPlaces
    <2>. QED  BY <2>1, <2>3, <2>4 DEF Saves
  <1>13. CASE BeginRollback(r)
    <2>1. runs[r] \in RunRecords /\ saved'[r] = runs'[r]
      BY <1>1, <1>13, BeginRollbackStep DEF Advances, Recorded
    <2>2. runs'[r] = [runs[r] EXCEPT !.status = "rolling_back"]
      BY <1>13, BeginRollbackStep, Zenon DEF Recorded
    <2>3. runs'[r].status \notin EarlyStatuses
      BY <2>1, <2>2 DEF RunRecords, EarlyStatuses
    <2>4. pc'[r] \notin EarlyPlaces
      BY <1>13, BeginRollbackStep DEF EarlyPlaces
    <2>. QED  BY <2>1, <2>3, <2>4 DEF Saves
  <1>16. CASE FinishRollback(r)
    <2>1. runs[r] \in RunRecords /\ saved'[r] = runs'[r]
      BY <1>1, <1>16, FinishRollbackStep DEF Advances, Recorded
    <2>2. \E st \in {"rolled_back", "aborted"} : runs'[r] = [runs[r] EXCEPT !.status = st]
      BY <1>16, FinishRollbackStep, Zenon DEF Recorded
    <2>3. runs'[r].status \notin EarlyStatuses
      BY <2>1, <2>2 DEF RunRecords, EarlyStatuses
    <2>4. pc'[r] \notin EarlyPlaces
      BY <1>16, FinishRollbackStep DEF EarlyPlaces
    <2>. QED  BY <2>1, <2>3, <2>4 DEF Saves
  <1>5. CASE BackupUnit(r)
    <2>1. UNCHANGED << runs, saved >>
      BY <1>5 DEF BackupUnit
    <2>2. pc[r] \notin EarlyPlaces /\ pc'[r] \notin EarlyPlaces
      BY <1>5, BackupUnitStep DEF EarlyPlaces
    <2>. QED  BY <2>1, <2>2 DEF Saves
  <1>6. CASE WriteUnit(r)
    <2>1. UNCHANGED << runs, saved >>
      BY <1>6 DEF WriteUnit, memory
    <2>2. pc[r] \notin EarlyPlaces /\ pc'[r] \notin EarlyPlaces
      BY <1>6, WriteUnitStep DEF EarlyPlaces
    <2>. QED  BY <2>1, <2>2 DEF Saves
  <1>10. CASE EndChecks(r)
    <2>1. UNCHANGED << runs, saved >>
      BY <1>10 DEF EndChecks, memory, disk
    <2>2. pc[r] \notin EarlyPlaces /\ pc'[r] \notin EarlyPlaces
      BY <1>10, EndChecksStep DEF EarlyPlaces
    <2>. QED  BY <2>1, <2>2 DEF Saves
  <1>11. CASE RunCommand(r)
    <2>1. UNCHANGED << runs, saved >>
      BY <1>11 DEF RunCommand, disk
    <2>2. pc[r] \notin EarlyPlaces /\ pc'[r] \notin EarlyPlaces
      BY <1>11, RunCommandStep DEF EarlyPlaces
    <2>. QED  BY <2>1, <2>2 DEF Saves
  <1>14. CASE RestoreFile(r)
    <2>1. UNCHANGED << runs, saved >>
      BY <1>14 DEF RestoreFile
    <2>2. pc[r] \notin EarlyPlaces /\ pc'[r] \notin EarlyPlaces
      BY <1>14, RestoreFileStep DEF EarlyPlaces
    <2>. QED  BY <2>1, <2>2 DEF Saves
  <1>15. CASE SkipRestore(r)
    <2>1. UNCHANGED << runs, saved >>
      BY <1>15 DEF SkipRestore
    <2>2. pc[r] \notin EarlyPlaces /\ pc'[r] \notin EarlyPlaces
      BY <1>15, SkipRestoreStep DEF EarlyPlaces
    <2>. QED  BY <2>1, <2>2 DEF Saves
  <1>7. CASE UnitRefused(r)
    <2>1. runs[r] # None /\ runs' = [runs EXCEPT ![r].allUnitsApplied = FALSE] /\ UNCHANGED saved
      BY <1>7, UnitRefusedStep, Zenon DEF Advances, UnitRefused, disk
    <2>2. pc[r] \notin EarlyPlaces /\ pc'[r] \notin EarlyPlaces
      BY <1>7, UnitRefusedStep DEF EarlyPlaces
    <2>. QED  BY <2>1, <2>2, FailedUnit DEF Saves
  <1>8. CASE UnitThrows(r)
    <2>1. runs[r] # None /\ runs' = [runs EXCEPT ![r].allUnitsApplied = FALSE] /\ UNCHANGED saved
      BY <1>8, UnitThrowsStep, Zenon DEF Advances, UnitThrows
    <2>2. pc[r] \notin EarlyPlaces /\ pc'[r] \notin EarlyPlaces
      BY <1>8, UnitThrowsStep DEF EarlyPlaces
    <2>. QED  BY <2>1, <2>2, FailedUnit DEF Saves
  <1>12. CASE Judge(r)
    <2>1. runs[r] \in RunRecords /\ saved'[r] = runs'[r]
      BY <1>1, <1>12, JudgeStep DEF Advances, Recorded
    <2>2. /\ pc[r] = "judge" /\ pc'[r] \in {"done", "rollback"}
          /\ \/ runs'[r] = Judged(r)
             \/ runs'[r] = [Judged(r) EXCEPT !.status = "failed_verification"]
             \/ runs'[r] = [Judged(r) EXCEPT !.status = "succeeded"]
      BY <1>12, JudgeStep, Zenon DEF Recorded
    <2>3. Judged(r) \in RunRecords /\ Judged(r).status = runs[r].status
      BY <2>1, JudgedData
    <2>4. \/ runs'[r].status = runs[r].status
          \/ runs'[r].status \in {"failed_verification", "succeeded"}
      BY <2>2, <2>3 DEF RunRecords
    <2>. QED  BY <2>1, <2>2, <2>4 DEF Saves, EarlyPlaces, EarlyStatuses
  <1>17. CASE \E passed \in BOOLEAN : CommandReturns(r, passed)
    <2>1. PICK passed \in BOOLEAN : CommandReturns(r, passed)
      BY <1>17
    <2>2. UNCHANGED << runs, saved >>
      BY <2>1 DEF CommandReturns, memory, disk
    <2>3. pc[r] \notin EarlyPlaces /\ pc'[r] \notin EarlyPlaces
      BY <2>1, CommandReturnsStep DEF EarlyPlaces
    <2>. QED  BY <2>2, <2>3 DEF Saves
  <1>. QED
    BY <1>2, <1>3, <1>4, <1>5, <1>6, <1>7, <1>8, <1>9, <1>10, <1>11, <1>12, <1>13,
       <1>14, <1>15, <1>16, <1>17, Zenon DEF Works, PipelineStep

LEMMA CallSaves ==
  ASSUME Base, Undecided, NEW r \in Runs, "save" \notin Faults,
         UserAbort(r) \/ \E passed \in BOOLEAN : ManualCheck(r, passed)
  PROVE  Saves(r)
  <1>. TypeOK /\ Places
    BY DEF Base
  <1>1. CASE UserAbort(r)
    <2>1. /\ pc' = pc /\ runs[r] \in RunRecords /\ saved'[r] = runs'[r]
          /\ runs'[r] = [runs[r] EXCEPT !.status = "aborted", !.abortReason = "user"]
          /\ UNCHANGED << written, backup >>
      BY <1>1, UserAbortStep DEF Recorded, UserAbort
    <2>2. runs'[r].status = "aborted"
      BY <2>1 DEF RunRecords
    <2>. QED  BY <2>1, <2>2 DEF Saves, EarlyStatuses
  <1>2. ASSUME NEW passed \in BOOLEAN, ManualCheck(r, passed) PROVE Saves(r)
    <2>1. pc[r] = "done" /\ runs[r] \in RunRecords /\ saved'[r] = runs'[r]
      BY <1>2, ManualCheckWaits, ManualCheckStep DEF Recorded
    <2>2. /\ pc'[r] \in {"done", "rollback"}
          /\ \/ runs'[r] = [Checked(r, passed) EXCEPT !.status = "succeeded"]
             \/ runs'[r] = [Checked(r, passed) EXCEPT !.status = "failed_verification"]
             \/ runs'[r] = Checked(r, passed)
      BY <1>2, <2>1, ManualCheckStep, Zenon DEF Recorded
    <2>3. Checked(r, passed) \in RunRecords /\ Checked(r, passed).status = runs[r].status
      BY <2>1, CheckedData
    <2>4. \/ runs'[r].status = runs[r].status
          \/ runs'[r].status \in {"failed_verification", "succeeded"}
      BY <2>2, <2>3 DEF RunRecords
    <2>. QED  BY <2>1, <2>2, <2>4 DEF Saves, EarlyPlaces, EarlyStatuses
  <1>. QED  BY <1>1, <1>2

\* Run r has changed a file or made a backup.
Footprint(r) == written[r] # {} \/ \E i \in UnitIndices : backup[r][i] # None

\* What the run file of r says of it.
FileOK(r) ==
    /\ runs[r] # None => saved[r] \in RunRecords /\ saved[r].status = runs[r].status
    /\ up /\ runs[r] = None => ~Stale(r)
    /\ runs[r] # None /\ pc[r] \notin EarlyPlaces => runs[r].status \notin EarlyStatuses
    /\ pc[r] \in EarlyPlaces => ~Footprint(r)
    /\ Footprint(r) => /\ saved[r] # None
                       /\ saved[r] # Unreadable => saved[r].status \notin EarlyStatuses

FilesOK == \A r \in Runs : FileOK(r)

LEMMA FilesStep ==
  ASSUME Base, Undecided, FilesOK, "save" \notin Faults, [Next]_vars
  PROVE  FilesOK'
  <1>. TypeOK /\ Places
    BY DEF Base
  <1>. SUFFICES ASSUME NEW q \in Runs PROVE FileOK(q)'
    BY DEF FilesOK
  <1>0. FileOK(q)
    BY DEF FilesOK
  <1>1. ASSUME runs'[q] = runs[q], saved'[q] = saved[q], pc'[q] = pc[q],
               backup'[q] = backup[q], written'[q] = written[q], up' = up
        PROVE  FileOK(q)'
    BY <1>0, <1>1 DEF FileOK, Footprint, Stale
  <1>2. ASSUME NEW r \in Runs, NEW p \in Proposals, NEW dryRun \in BOOLEAN, Start(r, p, dryRun)
        PROVE  FileOK(q)'
    <2>1. /\ Turn(r) /\ runs'[r] = NewRun(p, dryRun) /\ saved'[r] = NewRun(p, dryRun)
          /\ pc[r] = "none" /\ pc'[r] = "validate" /\ UNCHANGED << backup, written >>
      BY <1>2, StartStep DEF Recorded
    <2>2. CASE q = r
      <3>1. NewRun(p, dryRun) \in RunRecords /\ NewRun(p, dryRun) # None
        BY NewRunData, RunFields
      <3>2. ~Footprint(q)'
        BY <1>0, <2>1, <2>2 DEF FileOK, Footprint, EarlyPlaces
      <3>. QED  BY <2>1, <2>2, <3>1, <3>2 DEF FileOK, EarlyPlaces
    <2>3. CASE q # r
      BY <1>1, <2>1, <2>3 DEF Turn, OthersKeep
    <2>. QED  BY <2>2, <2>3
  <1>3. ASSUME NEW r \in Runs, Acts(r) PROVE FileOK(q)'
    <2>1. TypeOK' /\ Turn(r) /\ Advances(r) /\ Saves(r)
      BY <1>3, ActStep, WorkSaves, CallSaves DEF Acts
    <2>2. CASE q = r
      <3>1. runs[r] # None /\ runs'[r] # None /\ runs'[r] \in RunRecords
        BY <2>1 DEF Advances, TypeOK
      <3>2. saved'[r] \in RunRecords /\ saved'[r].status = runs'[r].status
        BY <1>0, <2>1, <2>2, <3>1 DEF FileOK, Saves
      <3>3. pc'[r] \notin EarlyPlaces => runs'[r].status \notin EarlyStatuses
        BY <1>0, <2>1, <2>2, <3>1 DEF FileOK, Saves
      <3>4. pc'[r] \in EarlyPlaces => ~Footprint(r)'
        BY <1>0, <2>1, <2>2 DEF FileOK, Saves, Footprint
      <3>5. saved'[r] # None /\ saved'[r] # Unreadable
        BY <3>2, RunFields
      <3>. QED  BY <2>2, <3>1, <3>2, <3>3, <3>4, <3>5 DEF FileOK
    <2>3. CASE q # r
      BY <1>1, <2>1, <2>3 DEF Turn, OthersKeep
    <2>. QED  BY <2>2, <2>3
  <1>4. ASSUME NEW r \in Runs, Recover(r) PROVE FileOK(q)'
    <2>1. /\ ~up /\ UNCHANGED << pc, backup, written, up >> /\ OthersKeep(r)
          /\ saved[r] \in RunRecords /\ saved'[r] = runs'[r] /\ pc[r] = "done"
          /\ runs'[r] = [saved[r] EXCEPT !.status = "aborted", !.abortReason = "crash_recovery"]
      BY <1>4, RecoverStep, Recoverable DEF Recover, pipeline, process, Recorded
    <2>2. CASE q = r
      <3>1. runs'[r].status = "aborted" /\ runs'[r] \in RunRecords
        BY <2>1 DEF RunRecords, Statuses, TerminalStatuses
      <3>2. runs'[r] # None
        BY <3>1, RunFields
      <3>. QED  BY <2>1, <2>2, <3>1, <3>2 DEF FileOK, EarlyPlaces, EarlyStatuses
    <2>3. CASE q # r
      BY <1>1, <2>1, <2>3 DEF OthersKeep
    <2>. QED  BY <2>2, <2>3
  <1>5. CASE Crash
    <2>1. /\ up' = FALSE /\ runs'[q] = None
          /\ pc'[q] = IF pc[q] = "none" THEN "none" ELSE "done"
          /\ saved'[q] = saved[q] \/ saved'[q] = Unreadable
          /\ \/ backup'[q] = backup[q] /\ written'[q] = written[q]
             \/ pc[q] \in {"backup", "write"}
      BY <1>5, TornDisk DEF Crash
    <2>2. CASE backup'[q] = backup[q] /\ written'[q] = written[q]
      <3>1. Footprint(q)' <=> Footprint(q)
        BY <2>2 DEF Footprint
      <3>2. pc'[q] \in EarlyPlaces => pc[q] \in EarlyPlaces
        BY <2>1 DEF EarlyPlaces
      <3>. QED  BY <1>0, <2>1, <3>1, <3>2, NoneAssumption DEF FileOK
    <2>3. CASE pc[q] \in {"backup", "write"}
      <3>1. runs[q] # None /\ pc[q] \notin EarlyPlaces /\ pc'[q] \notin EarlyPlaces
        BY <2>1, <2>3 DEF Places, PlaceOK, PipelineLive, EarlyPlaces
      <3>2. saved[q] \in RunRecords /\ saved[q].status \notin EarlyStatuses
        BY <1>0, <3>1 DEF FileOK
      <3>. QED  BY <2>1, <3>1, <3>2, NoneAssumption DEF FileOK
    <2>. QED  BY <2>1, <2>2, <2>3
  <1>6. CASE Boot
    <2>1. /\ UNCHANGED << runs, saved, pc, backup, written >>
          /\ Stale(q) => runs[q] # None
      BY <1>6 DEF Boot, memory, pipeline, disk, Unrecovered
    <2>. QED  BY <1>0, <2>1 DEF FileOK, Footprint, Stale
  <1>7. ASSUME NEW t \in Subsystems, CooldownExpires(t)
        PROVE  UNCHANGED << runs, saved, pc, backup, written, up >>
    BY <1>7 DEF CooldownExpires, pipeline, process
  <1>8. UNCHANGED vars => UNCHANGED << runs, saved, pc, backup, written, up >>
    BY DEF vars, memory, pipeline, disk, process
  <1>. QED  BY <1>1, <1>2, <1>3, <1>4, <1>5, <1>6, <1>7, <1>8, NextCases

LEMMA InitFiles == Init => FilesOK
  <1>. SUFFICES ASSUME Init, NEW r \in Runs PROVE FileOK(r)
    BY DEF FilesOK
  <1>1. ~Footprint(r) /\ ~Stale(r) /\ runs[r] = None
    BY DEF Init, Footprint, Stale
  <1>. QED  BY <1>1 DEF FileOK

THEOREM FilesHold == "save" \notin Faults => (Spec => []FilesOK)
  <1>. SUFFICES ASSUME "save" \notin Faults PROVE Spec => []FilesOK
    OBVIOUS
  <1>1. Base /\ Undecided /\ FilesOK /\ [Next]_vars => FilesOK'
    BY FilesStep
  <1>. QED  BY <1>1, InitFiles, BaseHolds, UndecidedHolds, PTL DEF Spec

\* No footprint is left under a status from before the apply phase, wherever
\* the process dies: "applying" is on disk before the first backup is.
THEOREM FootprintsAreSaved == "save" \notin Faults => (Spec => []FootprintIsSaved)
  <1>. SUFFICES ASSUME "save" \notin Faults PROVE Spec => []FootprintIsSaved
    OBVIOUS
  <1>1. FilesOK => FootprintIsSaved
    BY DEF FilesOK, FileOK, FootprintIsSaved, Footprint, EarlyStatuses
  <1>2. Spec => []FilesOK
    BY FilesHold
  <1>. QED  BY <1>1, <1>2, PTL

\* After a restart no run file tells of a pipeline that there is not.
THEOREM NoStaleFiles == "save" \notin Faults => (Spec => []NoStaleRunFile)
  <1>. SUFFICES ASSUME "save" \notin Faults PROVE Spec => []NoStaleRunFile
    OBVIOUS
  <1>1. FilesOK => NoStaleRunFile
    BY DEF FilesOK, FileOK, NoStaleRunFile, EventLoopFree, Stale, StaleStatuses, Active,
           ActiveStatuses
  <1>2. Spec => []FilesOK
    BY FilesHold
  <1>. QED  BY <1>1, <1>2, PTL

-----------------------------------------------------------------------------
(***************************************************************************)
(* The backups, whatever fails.  While a run applies its units, the files  *)
(* it has not come to are as they were in its snapshot, because nobody     *)
(* else has the turn; so the backup of the first unit of a file is the     *)
(* snapshot's.  The run file and the record agree on the snapshot, so that *)
(* a recovered run has the same backups.                                   *)
(***************************************************************************)
\* The backups B of a run with record x that has written the units W.
Kept(x, W, B) ==
    x.snapshot # None =>
        \A i \in W :
            /\ \A j \in W : Units[x.proposal][j].file = Units[x.proposal][i].file => i <= j
            /\ Units[x.proposal][i].type # "create"
            => B[i] = x.snapshot[Units[x.proposal][i].file]

\* A run file is the record of the run, or an earlier one.
Agree(x, y) == x.proposal = y.proposal /\ (x.snapshot = None \/ x.snapshot = y.snapshot)

BackedUp(r) ==
    /\ runs[r] # None => Kept(runs[r], written[r], backup[r])
    /\ saved[r] \in RunRecords => Kept(saved[r], written[r], backup[r])
    /\ runs[r] # None /\ saved[r] \in RunRecords => Agree(saved[r], runs[r])

\* The files that r has not written yet are those of its snapshot.
Untouched(r) ==
    \A f \in Files :
        (\A j \in written[r] : UnitsOf(r)[j].file # f) => content[f] = runs[r].snapshot[f]

Ready(r) ==
    /\ pc[r] \in {"validate", "plan", "begin"} => written[r] = {}
    /\ pc[r] = "validate" => runs[r].snapshot = None
    /\ pc[r] \in {"plan", "begin", "backup", "write"} => Untouched(r)
    /\ pc[r] \in {"backup", "write"} => \A j \in written[r] : j < step[r]
    /\ pc[r] = "write" /\ UnitAt(r).type # "create"
           => backup[r][step[r]] = content[UnitAt(r).file]

Originals == \A r \in Runs : BackedUp(r) /\ Ready(r)

\* A step of r leaves the snapshot alone, and writes the record or no record.
Carries(r) ==
    /\ runs[r] # None /\ runs'[r] # None
    /\ runs'[r].proposal = runs[r].proposal
    /\ runs'[r].snapshot = runs[r].snapshot
    /\ saved'[r] = saved[r] \/ saved'[r] = runs'[r]

\* Places where no unit of r is to come.
LatePlaces == {"applied", "check", "running", "judge", "rollback", "restore", "done"}

Late(r) == pc'[r] \in LatePlaces /\ UNCHANGED << backup[r], written[r] >>

LEMMA WorkCarries ==
  ASSUME TypeOK, Places, NEW r \in Runs, Works(r), ~Validate(r)
  PROVE  Carries(r)
  <1>1. runs[r] \in RunRecords /\ Advances(r)
    BY WorkStep DEF Advances, TypeOK
  <1>3. CASE BuildPlan(r)
    <2>1. saved'[r] = runs'[r] \/ saved'[r] = saved[r]
      BY <1>3, BuildPlanStep, Zenon DEF Recorded
    <2>2. \/ runs'[r] = [runs[r] EXCEPT !.status = "ready_to_apply"]
          \/ runs'[r] = [runs[r] EXCEPT !.status = "aborted", !.abortReason = "pipeline"]
      BY <1>3, BuildPlanStep, Zenon DEF Recorded
    <2>3. runs'[r].snapshot = runs[r].snapshot
      BY <1>1, <2>2 DEF RunRecords
    <2>. QED  BY <1>1, <2>1, <2>3 DEF Carries, Advances
  <1>4. CASE BeginApply(r)
    <2>1. saved'[r] = runs'[r] \/ saved'[r] = saved[r]
      BY <1>4, BeginApplyStep, Zenon DEF Recorded
    <2>2. runs'[r] = [runs[r] EXCEPT !.status = "applying"]
      BY <1>4, BeginApplyStep, Zenon DEF Recorded
    <2>3. runs'[r].snapshot = runs[r].snapshot
      BY <1>1, <2>2 DEF RunRecords
    <2>. QED  BY <1>1, <2>1, <2>3 DEF Carries, Advances
  <1>9. CASE ApplyDone(r)
    <2>1. saved'[r] = runs'[r] \/ saved'[r] = saved[r]
      BY <1>9, ApplyDoneStep, Zenon DEF Recorded
    <2>2. \/ runs'[r] = [runs[r] EXCEPT !.status = "rollback_pending"]
          \/ runs'[r] = [runs[r] EXCEPT !.status = "succeeded"]
          \/ runs'[r] = [runs[r] EXCEPT !.status = "verifying"]
      BY <1>9, ApplyDoneStep, Zenon DEF Recorded
    <2>3. runs'[r].snapshot = runs[r].snapshot
      BY <1>1, <2>2 DEF RunRecords
    <2>. QED  BY <1>1, <2>1, <2>3 DEF Carries, Advances
  <1>13. CASE BeginRollback(r)
    <2>1. saved'[r] = runs'[r] \/ saved'[r] = saved[r]
      BY <1>13, BeginRollbackStep, Zenon DEF Recorded
    <2>2. runs'[r] = [runs[r] EXCEPT !.status = "rolling_back"]
      BY <1>13, BeginRollbackStep, Zenon DEF Recorded
    <2>3. runs'[r].snapshot = runs[r].snapshot
      BY <1>1, <2>2 DEF RunRecords
    <2>. QED  BY <1>1, <2>1, <2>3 DEF Carries, Advances
  <1>16. CASE FinishRollback(r)
    <2>1. saved'[r] = runs'[r] \/ saved'[r] = saved[r]
      BY <1>16, FinishRollbackStep, Zenon DEF Recorded
    <2>2. \E st \in {"rolled_back", "aborted"} : runs'[r] = [runs[r] EXCEPT !.status = st]
      BY <1>16, FinishRollbackStep, Zenon DEF Recorded
    <2>3. runs'[r].snapshot = runs[r].snapshot
      BY <1>1, <2>2 DEF RunRecords
    <2>. QED  BY <1>1, <2>1, <2>3 DEF Carries, Advances
  <1>5. CASE BackupUnit(r)
    <2>1. UNCHANGED << runs, saved >>
      BY <1>5 DEF BackupUnit
    <2>. QED  BY <1>1, <2>1 DEF Carries, Advances
  <1>6. CASE WriteUnit(r)
    <2>1. UNCHANGED << runs, saved >>
      BY <1>6 DEF WriteUnit, memory
    <2>. QED  BY <1>1, <2>1 DEF Carries, Advances
  <1>10. CASE EndChecks(r)
    <2>1. UNCHANGED << runs, saved >>
      BY <1>10 DEF EndChecks, memory, disk
    <2>. QED  BY <1>1, <2>1 DEF Carries, Advances
  <1>11. CASE RunCommand(r)
    <2>1. UNCHANGED << runs, saved >>
      BY <1>11 DEF RunCommand, disk
    <2>. QED  BY <1>1, <2>1 DEF Carries, Advances
  <1>14. CASE RestoreFile(r)
    <2>1. UNCHANGED << runs, saved >>
      BY <1>14 DEF RestoreFile
    <2>. QED  BY <1>1, <2>1 DEF Carries, Advances
  <1>15. CASE SkipRestore(r)
    <2>1. UNCHANGED << runs, saved >>
      BY <1>15 DEF SkipRestore
    <2>. QED  BY <1>1, <2>1 DEF Carries, Advances
  <1>7. CASE UnitRefused(r)
    <2>1. runs[r] # None /\ runs' = [runs EXCEPT ![r].allUnitsApplied = FALSE] /\ UNCHANGED saved
      BY <1>1, <1>7, Zenon DEF Advances, UnitRefused, disk
    <2>. QED  BY <1>1, <2>1, FailedUnit DEF Carries
  <1>8. CASE UnitThrows(r)
    <2>1. runs[r] # None /\ runs' = [runs EXCEPT ![r].allUnitsApplied = FALSE] /\ UNCHANGED saved
      BY <1>1, <1>8, Zenon DEF Advances, UnitThrows
    <2>. QED  BY <1>1, <2>1, FailedUnit DEF Carries
  <1>12. CASE Judge(r)
    <2>1. saved'[r] = runs'[r] \/ saved'[r] = saved[r]
      BY <1>12, JudgeStep, Zenon DEF Recorded
    <2>2. \/ runs'[r] = Judged(r)
          \/ runs'[r] = [Judged(r) EXCEPT !.status = "failed_verification"]
          \/ runs'[r] = [Judged(r) EXCEPT !.status = "succeeded"]
      BY <1>12, JudgeStep, Zenon DEF Recorded
    <2>3. Judged(r) \in RunRecords /\ Judged(r).snapshot = runs[r].snapshot
      BY <1>1, JudgedData
    <2>4. runs'[r].snapshot = runs[r].snapshot
      BY <2>2, <2>3 DEF RunRecords
    <2>. QED  BY <1>1, <2>1, <2>4 DEF Carries, Advances
  <1>17. CASE \E passed \in BOOLEAN : CommandReturns(r, passed)
    <2>1. UNCHANGED << runs, saved >>
      BY <1>17 DEF CommandReturns, memory, disk
    <2>. QED  BY <1>1, <2>1 DEF Carries, Advances
  <1>. QED
    BY <1>3, <1>4, <1>5, <1>6, <1>7, <1>8, <1>9, <1>10, <1>11, <1>12, <1>13,
       <1>14, <1>15, <1>16, <1>17, Zenon DEF Works, PipelineStep

LEMMA CallCarries ==
  ASSUME TypeOK, Places, NEW r \in Runs,
         UserAbort(r) \/ \E passed \in BOOLEAN : ManualCheck(r, passed)
  PROVE  Carries(r) /\ Late(r)
  <1>1. ASSUME EventLoopFree, runs[r] # None PROVE pc[r] \in {"running", "done"}
    BY <1>1, Waiting
  <1>2. CASE UserAbort(r)
    <2>1. /\ pc' = pc /\ runs[r] \in RunRecords /\ Advances(r)
          /\ runs'[r] = [runs[r] EXCEPT !.status = "aborted", !.abortReason = "user"]
          /\ saved'[r] = runs'[r] \/ saved'[r] = saved[r]
      BY <1>2, UserAbortStep, Zenon DEF Recorded
    <2>2. runs'[r].snapshot = runs[r].snapshot
      BY <2>1 DEF RunRecords
    <2>3. UNCHANGED << backup, written >> /\ pc[r] \in {"running", "done"}
      BY <1>1, <1>2 DEF UserAbort
    <2>. QED  BY <2>1, <2>2, <2>3 DEF Carries, Late, LatePlaces, Advances
  <1>3. ASSUME NEW passed \in BOOLEAN, ManualCheck(r, passed) PROVE Carries(r) /\ Late(r)
    <2>1. /\ runs[r] \in RunRecords /\ Advances(r)
          /\ saved'[r] = runs'[r] \/ saved'[r] = saved[r]
      BY <1>3, ManualCheckStep, Zenon DEF Recorded
    <2>2. /\ pc' = pc \/ pc'[r] = "rollback"
          /\ \/ runs'[r] = [Checked(r, passed) EXCEPT !.status = "succeeded"]
             \/ runs'[r] = [Checked(r, passed) EXCEPT !.status = "failed_verification"]
             \/ runs'[r] = Checked(r, passed)
      BY <1>3, ManualCheckStep, Zenon DEF Recorded
    <2>3. Checked(r, passed) \in RunRecords /\ Checked(r, passed).snapshot = runs[r].snapshot
      BY <2>1, CheckedData
    <2>4. runs'[r].snapshot = runs[r].snapshot
      BY <2>2, <2>3 DEF RunRecords
    <2>5. UNCHANGED << backup, written >> /\ pc[r] \in {"running", "done"}
      BY <1>1, <1>3 DEF ManualCheck
    <2>. QED  BY <2>1, <2>2, <2>4, <2>5 DEF Carries, Late, LatePlaces, Advances
  <1>. QED  BY <1>2, <1>3

\* The steps of the apply phase, and the others.
LEMMA WorkLate ==
  ASSUME TypeOK, Places, NEW r \in Runs, Works(r)
  PROVE  \/ Validate(r) \/ BuildPlan(r) \/ BeginApply(r) \/ BackupUnit(r) \/ WriteUnit(r)
         \/ UnitRefused(r) \/ UnitThrows(r)
         \/ Late(r)
  <1>9. CASE ApplyDone(r)
    <2>1. UNCHANGED << backup, written >>
      BY <1>9, Zenon DEF ApplyDone
    <2>. QED  BY <1>9, <2>1, ApplyDoneStep DEF Late, LatePlaces
  <1>13. CASE BeginRollback(r)
    <2>1. UNCHANGED << backup, written >>
      BY <1>13, Zenon DEF BeginRollback
    <2>. QED  BY <1>13, <2>1, BeginRollbackStep DEF Late, LatePlaces
  <1>16. CASE FinishRollback(r)
    <2>1. UNCHANGED << backup, written >>
      BY <1>16, Zenon DEF FinishRollback
    <2>. QED  BY <1>16, <2>1, FinishRollbackStep DEF Late, LatePlaces
  <1>12. CASE Judge(r)
    <2>1. UNCHANGED << backup, written >>
      BY <1>12, Zenon DEF Judge
    <2>. QED  BY <1>12, <2>1, JudgeStep DEF Late, LatePlaces
  <1>10. CASE EndChecks(r)
    <2>1. UNCHANGED << backup, written >>
      BY <1>10, Zenon DEF EndChecks, disk
    <2>. QED  BY <1>10, <2>1, EndChecksStep DEF Late, LatePlaces
  <1>11. CASE RunCommand(r)
    <2>1. UNCHANGED << backup, written >>
      BY <1>11, Zenon DEF RunCommand, disk
    <2>. QED  BY <1>11, <2>1, RunCommandStep DEF Late, LatePlaces
  <1>14. CASE RestoreFile(r)
    <2>1. UNCHANGED << backup, written >>
      BY <1>14, Zenon DEF RestoreFile
    <2>. QED  BY <1>14, <2>1, RestoreFileStep DEF Late, LatePlaces
  <1>15. CASE SkipRestore(r)
    <2>1. UNCHANGED << backup, written >>
      BY <1>15, Zenon DEF SkipRestore
    <2>. QED  BY <1>15, <2>1, SkipRestoreStep DEF Late, LatePlaces
  <1>17. CASE \E passed \in BOOLEAN : CommandReturns(r, passed)
    <2>1. UNCHANGED << backup, written >>
      BY <1>17 DEF CommandReturns, disk
    <2>. QED  BY <1>17, <2>1, CommandReturnsStep DEF Late, LatePlaces
  <1>. QED
    BY <1>9, <1>10, <1>11, <1>12, <1>13, <1>14, <1>15, <1>16, <1>17, Zenon
    DEF Works, PipelineStep

-----------------------------------------------------------------------------
LEMMA AgreeKeeps ==
  ASSUME NEW x, NEW y, NEW W, NEW B, Agree(x, y), Kept(y, W, B)
  PROVE  Kept(x, W, B)
  BY DEF Agree, Kept

\* What a step may do to the files and backups a run has made.
DataStep(r) ==
    \/ UNCHANGED << backup[r], written[r] >>
    \/ /\ pc[r] = "backup" /\ written'[r] = written[r]
       /\ \A i \in UnitIndices \ {step[r]} : backup'[r][i] = backup[r][i]
    \/ /\ pc[r] = "write" /\ written'[r] = written[r] \cup {step[r]}
       /\ backup'[r] = backup[r]

\* The backups stay those of the snapshot: a backup is made for a unit that is
\* not written, and a unit that is the first to write its file has a backup of
\* what the snapshot says of that file.
LEMMA DataKept ==
  ASSUME TypeOK, Places, NEW r \in Runs, runs[r] # None, BackedUp(r), Ready(r), DataStep(r)
  PROVE  Kept(runs[r], written'[r], backup'[r])
  <1>1. Kept(runs[r], written[r], backup[r])
    BY DEF BackedUp
  <1>2. UnitIndices \subseteq Nat
    BY ProposalData DEF UnitIndices
  <1>3. written[r] \subseteq UnitIndices /\ step[r] \in Nat
    BY DEF TypeOK
  <1>4. CASE UNCHANGED << backup[r], written[r] >>
    BY <1>1, <1>4
  <1>5. CASE /\ pc[r] = "backup" /\ written'[r] = written[r]
             /\ \A i \in UnitIndices \ {step[r]} : backup'[r][i] = backup[r][i]
    <2>1. \A i \in written[r] : i < step[r]
      BY <1>5 DEF Ready
    <2>2. \A i \in written[r] : backup'[r][i] = backup[r][i]
      BY <1>2, <1>3, <1>5, <2>1
    <2>. QED  BY <1>1, <1>5, <2>2 DEF Kept
  <1>6. CASE /\ pc[r] = "write" /\ written'[r] = written[r] \cup {step[r]}
             /\ backup'[r] = backup[r]
    <2>. DEFINE us == UnitsOf(r)
    <2>1. /\ \A i \in written[r] : i < step[r]
          /\ Untouched(r)
          /\ us[step[r]].type # "create" => backup[r][step[r]] = content[us[step[r]].file]
      BY <1>6 DEF Ready, UnitAt
    <2>2. us[step[r]].file \in Files
      BY <1>6, RunData DEF Places, PlaceOK, UnitAt
    <2>3. us = Units[runs[r].proposal]
      BY DEF UnitsOf
    <2>4. \A f \in Files : (\A j \in written[r] : us[j].file # f) => content[f] = runs[r].snapshot[f]
      BY <2>1 DEF Untouched
    <2>. HIDE DEF us
    <2>5. SUFFICES ASSUME runs[r].snapshot # None, NEW i \in written[r] \cup {step[r]},
                          \A j \in written[r] \cup {step[r]} : us[j].file = us[i].file => i <= j,
                          us[i].type # "create"
                   PROVE  backup[r][i] = runs[r].snapshot[us[i].file]
      BY <1>6, <2>3 DEF Kept
    <2>6. CASE i \in written[r]
      BY <1>1, <2>3, <2>5, <2>6 DEF Kept
    <2>7. CASE i = step[r]
      <3>1. ASSUME NEW j \in written[r], us[j].file = us[i].file PROVE FALSE
        <4>1. step[r] <= j
          BY <2>5, <2>7, <3>1
        <4>2. j < step[r] /\ j \in Nat
          BY <1>2, <1>3, <2>1
        <4>. QED  BY <1>3, <4>1, <4>2
      <3>2. i = step[r] /\ us[i].file \in Files
        BY <2>2, <2>7
      <3>3. content[us[i].file] = runs[r].snapshot[us[i].file]
        BY <2>4, <3>1, <3>2
      <3>4. backup[r][i] = content[us[i].file]
        BY <2>1, <2>5, <3>2
      <3>. QED  BY <3>3, <3>4
    <2>. QED  BY <2>5, <2>6, <2>7
  <1>. QED  BY <1>4, <1>5, <1>6 DEF DataStep

LEMMA CarriedBackups ==
  ASSUME TypeOK, NEW r \in Runs, BackedUp(r), Carries(r),
         Kept(runs[r], written'[r], backup'[r])
  PROVE  BackedUp(r)'
  <1>1. Agree(runs'[r], runs[r])
    BY DEF Carries, Agree
  <1>2. saved'[r] \in RunRecords => Agree(saved'[r], runs'[r])
    BY DEF Carries, BackedUp, Agree
  <1>3. Kept(runs'[r], written'[r], backup'[r])
    BY <1>1, AgreeKeeps
  <1>4. saved'[r] \in RunRecords => Kept(saved'[r], written'[r], backup'[r])
    BY <1>2, <1>3, AgreeKeeps
  <1>. QED  BY <1>2, <1>3, <1>4 DEF BackedUp

LEMMA ValidateReady ==
  ASSUME TypeOK, Places, NEW r \in Runs, BackedUp(r), Ready(r), Validate(r)
  PROVE  BackedUp(r)' /\ Ready(r)'
  <1>1. /\ pc[r] = "validate" /\ pc'[r] = "plan" /\ runs[r] \in RunRecords
        /\ runs[r] # None
        /\ runs'[r] = [runs[r] EXCEPT !.status = "validating", !.snapshot = content]
        /\ saved'[r] = runs'[r] \/ saved'[r] = saved[r]
    BY ValidateStep DEF Recorded, Advances, TypeOK
  <1>2. UNCHANGED << content, written, backup >>
    BY DEF Validate
  <1>3. /\ runs'[r].snapshot = content /\ runs'[r].proposal = runs[r].proposal
        /\ written[r] = {} /\ runs[r].snapshot = None
    BY <1>1 DEF RunRecords, Ready
  <1>4. saved'[r] \in RunRecords => Agree(saved'[r], runs'[r])
    BY <1>1, <1>3 DEF BackedUp, Agree
  <1>5. \A x : Kept(x, written'[r], backup'[r])
    BY <1>2, <1>3 DEF Kept
  <1>6. BackedUp(r)'
    BY <1>4, <1>5 DEF BackedUp
  <1>7. Untouched(r)'
    BY <1>2, <1>3 DEF Untouched
  <1>8. Ready(r)'
    BY <1>1, <1>2, <1>3, <1>7 DEF Ready
  <1>. QED  BY <1>6, <1>8

LEMMA ActReady ==
  ASSUME TypeOK, Places, NEW r \in Runs, BackedUp(r), Ready(r), Acts(r)
  PROVE  BackedUp(r)' /\ Ready(r)'
  <1>0. runs[r] # None /\ Advances(r) /\ step[r] \in Nat
    BY ActStep DEF Advances, TypeOK
  <1>1. ASSUME Carries(r), DataStep(r) PROVE BackedUp(r)'
    BY <1>0, <1>1, DataKept, CarriedBackups
  <1>2. ASSUME pc'[r] \in LatePlaces PROVE Ready(r)'
    BY <1>2 DEF Ready, LatePlaces
  <1>3. CASE Late(r) /\ Carries(r)
    <2>1. DataStep(r) /\ pc'[r] \in LatePlaces
      BY <1>3 DEF Late, DataStep
    <2>. QED  BY <1>1, <1>2, <1>3, <2>1
  <1>4. CASE Validate(r)
    BY <1>4, ValidateReady
  <1>5. CASE BuildPlan(r)
    <2>1. /\ Carries(r) /\ pc[r] = "plan" /\ pc'[r] \in {"begin", "done"}
          /\ UNCHANGED << content, written, backup >>
      BY <1>5, WorkCarries, BuildPlanStep DEF Works, PipelineStep, BuildPlan, Validate, At
    <2>2. written[r] = {} /\ Untouched(r)
      BY <2>1 DEF Ready
    <2>3. Untouched(r)'
      BY <2>1, <2>2 DEF Untouched, Carries
    <2>4. Ready(r)'
      BY <2>1, <2>2, <2>3 DEF Ready
    <2>5. DataStep(r)
      BY <2>1 DEF DataStep
    <2>. QED  BY <1>1, <2>1, <2>4, <2>5
  <1>6. CASE BeginApply(r)
    <2>1. /\ Carries(r) /\ pc[r] = "begin" /\ pc'[r] \in {"backup", "applied"}
          /\ UNCHANGED << content, written, backup >>
      BY <1>6, WorkCarries, BeginApplyStep DEF Works, PipelineStep, BeginApply, Validate, At
    <2>2. written[r] = {} /\ Untouched(r)
      BY <2>1 DEF Ready
    <2>3. Untouched(r)'
      BY <2>1, <2>2 DEF Untouched, Carries
    <2>4. Ready(r)'
      BY <2>1, <2>2, <2>3 DEF Ready
    <2>5. DataStep(r)
      BY <2>1 DEF DataStep
    <2>. QED  BY <1>1, <2>1, <2>4, <2>5
  <1>7. CASE BackupUnit(r)
    <2>1. /\ Carries(r) /\ pc[r] = "backup" /\ pc'[r] = "write"
          /\ UNCHANGED << runs, content, written, step >>
      BY <1>7, WorkCarries, BackupUnitStep DEF Works, PipelineStep, BackupUnit, Validate, At
    <2>2. /\ step[r] \in UnitIndices /\ Untouched(r)
          /\ \A j \in written[r] : j < step[r]
      BY <1>0, <2>1, RunData DEF Ready, Places, PlaceOK
    <2>3. \/ UnitAt(r).type = "create" /\ backup' = backup
          \/ backup' = [backup EXCEPT ![r][step[r]] = content[UnitAt(r).file]]
      BY <1>7 DEF BackupUnit
    <2>4. /\ \A i \in UnitIndices \ {step[r]} : backup'[r][i] = backup[r][i]
          /\ UnitAt(r).type # "create" => backup'[r][step[r]] = content[UnitAt(r).file]
      BY <2>2, <2>3 DEF TypeOK
    <2>5. UnitAt(r)' = UnitAt(r) /\ Untouched(r)'
      BY <2>1, <2>2 DEF UnitAt, UnitsOf, Untouched
    <2>6. Ready(r)'
      BY <2>1, <2>2, <2>4, <2>5 DEF Ready
    <2>7. DataStep(r)
      BY <2>1, <2>4 DEF DataStep
    <2>. QED  BY <1>1, <2>1, <2>6, <2>7
  <1>8. CASE WriteUnit(r)
    <2>1. /\ Carries(r) /\ pc[r] = "write" /\ pc'[r] \in {"applied", "backup"}
          /\ step'[r] = step[r] + 1 /\ UNCHANGED << runs, backup >>
          /\ content' = [content EXCEPT ![UnitAt(r).file] = AfterUnit(UnitAt(r))]
          /\ written' = [written EXCEPT ![r] = @ \cup {step[r]}]
      BY <1>8, WorkCarries, WriteUnitStep
      DEF Works, PipelineStep, WriteUnit, Validate, At, memory
    <2>2. /\ Untouched(r) /\ \A j \in written[r] : j < step[r]
          /\ written'[r] = written[r] \cup {step[r]}
      BY <2>1 DEF Ready, TypeOK
    <2>3. \A j \in written'[r] : j < step'[r]
      <3>1. UnitIndices \subseteq Nat /\ written[r] \subseteq UnitIndices
        BY ProposalData DEF UnitIndices, TypeOK
      <3>. QED  BY <1>0, <2>1, <2>2, <3>1
    <2>4. Untouched(r)'
      <3>1. \A f \in Files : f # UnitAt(r).file => content'[f] = content[f]
        BY <2>1 DEF TypeOK, Contents
      <3>. QED  BY <2>1, <2>2, <3>1 DEF Untouched, UnitsOf, UnitAt
    <2>5. Ready(r)'
      BY <2>1, <2>3, <2>4 DEF Ready
    <2>6. DataStep(r)
      BY <2>1, <2>2 DEF DataStep
    <2>. QED  BY <1>1, <2>1, <2>5, <2>6
  <1>9. CASE UnitRefused(r)
    <2>1. Carries(r) /\ pc'[r] = "applied" /\ UNCHANGED << backup, written >>
      BY <1>9, WorkCarries, UnitRefusedStep DEF Works, PipelineStep, UnitRefused, Validate, At, disk
    <2>2. DataStep(r) /\ pc'[r] \in LatePlaces
      BY <2>1 DEF DataStep, LatePlaces
    <2>. QED  BY <1>1, <1>2, <2>1, <2>2
  <1>10. CASE UnitThrows(r)
    <2>1. pc[r] \in {"backup", "write"} /\ pc'[r] = "applied"
      BY <1>10, UnitThrowsStep
    <2>2. Carries(r)
      BY <1>10, <2>1, WorkCarries DEF Works, PipelineStep, Validate, At
    <2>3. step[r] \in UnitIndices
      BY <1>0, <2>1, RunData DEF Places, PlaceOK
    <2>4. \/ UNCHANGED << backup, written >>
          \/ pc[r] = "backup" /\ HalfWriteBackup(r) /\ UNCHANGED written
          \/ /\ pc[r] = "write" /\ UNCHANGED backup
             /\ written' = [written EXCEPT ![r] = @ \cup {step[r]}]
      BY <1>10, Zenon DEF UnitThrows, At
    <2>5. DataStep(r) /\ pc'[r] \in LatePlaces
      BY <2>1, <2>3, <2>4 DEF DataStep, LatePlaces, HalfWriteBackup, TypeOK
    <2>. QED  BY <1>1, <1>2, <2>2, <2>5
  <1>. QED
    BY <1>3, <1>4, <1>5, <1>6, <1>7, <1>8, <1>9, <1>10, WorkLate, WorkCarries, CallCarries
    DEF Acts

LEMMA OthersReady ==
  ASSUME Places, NEW r \in Runs, Turn(r), NEW q \in Runs \ {r}, BackedUp(q), Ready(q)
  PROVE  BackedUp(q)' /\ Ready(q)'
  <1>1. /\ runs'[q] = runs[q] /\ saved'[q] = saved[q] /\ pc'[q] = pc[q] /\ step'[q] = step[q]
        /\ backup'[q] = backup[q] /\ written'[q] = written[q]
    BY DEF Turn, OthersKeep
  <1>2. BackedUp(q)'
    BY <1>1 DEF BackedUp
  <1>3. cpu # q
    BY NoneAssumption DEF Turn
  <1>4. pc[q] \in {"none", "done", "running"}
            \/ pc[q] \notin {"validate", "plan", "begin", "backup", "write"}
    BY <1>3 DEF Places, PlaceOK, PipelineLive
  <1>5. Ready(q)'
    BY <1>1, <1>4 DEF Ready
  <1>. QED  BY <1>2, <1>5

\* The death of the process tears one write: a backup of a unit that is not
\* written, or a file of one that is written from then on.
LEMMA TornData ==
  ASSUME TypeOK, Places, TearWrite, NEW q \in Runs
  PROVE  DataStep(q)
  <1>1. CASE UNCHANGED << backup, written >>
    BY <1>1 DEF DataStep
  <1>2. ASSUME NEW r \in Runs, At(r, "backup"), HalfWriteBackup(r), UNCHANGED written
        PROVE  DataStep(q)
    <2>1. step[r] \in UnitIndices /\ pc[r] = "backup"
      BY <1>2, AtWork, RunData DEF Points, Places, PlaceOK
    <2>. QED  BY <1>2, <2>1 DEF HalfWriteBackup, TypeOK, DataStep
  <1>3. ASSUME NEW r \in Runs, At(r, "write"), UNCHANGED backup,
               written' = [written EXCEPT ![r] = @ \cup {step[r]}]
        PROVE  DataStep(q)
    <2>1. pc[r] = "write"
      BY <1>3, AtWork DEF Points
    <2>. QED  BY <1>3, <2>1 DEF TypeOK, DataStep
  <1>. QED  BY <1>1, <1>2, <1>3 DEF TearWrite, disk

LEMMA CrashReady ==
  ASSUME TypeOK, Places, NEW q \in Runs, BackedUp(q), Ready(q), Crash
  PROVE  BackedUp(q)' /\ Ready(q)'
  <1>1. /\ runs'[q] = None /\ pc'[q] \in {"none", "done"} /\ TearWrite
        /\ saved'[q] = saved[q] \/ saved'[q] = Unreadable
    BY TornDisk DEF Crash
  <1>2. DataStep(q)
    BY <1>1, TornData
  <1>3. ASSUME saved[q] \in RunRecords PROVE Kept(saved[q], written'[q], backup'[q])
    <2>1. CASE runs[q] # None
      <3>1. Agree(saved[q], runs[q])
        BY <1>3, <2>1 DEF BackedUp
      <3>2. Kept(runs[q], written'[q], backup'[q])
        BY <1>2, <2>1, DataKept
      <3>. QED  BY <3>1, <3>2, AgreeKeeps
    <2>2. CASE runs[q] = None
      <3>1. pc[q] \notin {"backup", "write"}
        BY <2>2 DEF Places, PlaceOK, PipelineLive
      <3>2. UNCHANGED << backup[q], written[q] >>
        BY <1>2, <3>1 DEF DataStep
      <3>. QED  BY <1>3, <3>2 DEF BackedUp
    <2>. QED  BY <2>1, <2>2
  <1>4. BackedUp(q)'
    BY <1>1, <1>3, NoneAssumption DEF BackedUp
  <1>5. Ready(q)'
    BY <1>1 DEF Ready
  <1>. QED  BY <1>4, <1>5

LEMMA OriginalStep ==
  ASSUME Base, Originals, [Next]_vars
  PROVE  Originals'
  <1>. TypeOK /\ Places
    BY DEF Base
  <1>. SUFFICES ASSUME NEW q \in Runs PROVE BackedUp(q)' /\ Ready(q)'
    BY DEF Originals
  <1>0. BackedUp(q) /\ Ready(q)
    BY DEF Originals
  <1>1. ASSUME NEW r \in Runs, NEW p \in Proposals, NEW dryRun \in BOOLEAN, Start(r, p, dryRun)
        PROVE  BackedUp(q)' /\ Ready(q)'
    <2>1. /\ Turn(r) /\ runs'[r] = NewRun(p, dryRun) /\ pc[r] = "none" /\ pc'[r] = "validate"
          /\ saved'[r] = runs'[r] \/ saved'[r] = saved[r]
          /\ UNCHANGED << backup, written >>
      BY <1>1, StartStep DEF Recorded
    <2>2. CASE q = r
      <3>1. written'[r] = {} /\ runs'[r].snapshot = None /\ saved[r] = None
        BY <2>1 DEF Places, PlaceOK, NewRun
      <3>2. saved'[r] \in RunRecords => saved'[r] = runs'[r]
        BY <2>1, <3>1, NoneAssumption
      <3>3. \A x : Kept(x, written'[r], backup'[r])
        BY <3>1 DEF Kept
      <3>4. saved'[r] \in RunRecords => Agree(saved'[r], runs'[r])
        BY <3>2 DEF Agree
      <3>5. BackedUp(r)'
        BY <3>3, <3>4 DEF BackedUp
      <3>6. Ready(r)'
        BY <2>1, <3>1 DEF Ready
      <3>. QED  BY <2>2, <3>5, <3>6
    <2>3. CASE q # r
      BY <1>0, <2>1, <2>3, OthersReady
    <2>. QED  BY <2>2, <2>3
  <1>2. ASSUME NEW r \in Runs, Acts(r) PROVE BackedUp(q)' /\ Ready(q)'
    <2>1. CASE q = r
      BY <1>0, <1>2, <2>1, ActReady
    <2>2. CASE q # r
      BY <1>0, <1>2, <2>2, ActStep, OthersReady
    <2>. QED  BY <2>1, <2>2
  <1>3. ASSUME NEW r \in Runs, Recover(r) PROVE BackedUp(q)' /\ Ready(q)'
    <2>1. /\ ~up /\ UNCHANGED << pc, step, content, backup, written >> /\ OthersKeep(r)
          /\ saved[r] \in RunRecords
          /\ saved'[r] = runs'[r] \/ saved'[r] = saved[r]
          /\ runs'[r] = [saved[r] EXCEPT !.status = "aborted", !.abortReason = "crash_recovery"]
      BY <1>3, RecoverStep DEF pipeline, Recorded
    <2>2. pc[q] \in {"none", "done"}
      BY <2>1 DEF Places, PlaceOK, PipelineLive, TypeOK
    <2>3. Ready(q)'
      BY <2>1, <2>2 DEF Ready
    <2>4. CASE q = r
      <3>1. runs'[r].snapshot = saved[r].snapshot /\ runs'[r].proposal = saved[r].proposal
        BY <2>1 DEF RunRecords
      <3>2. Agree(saved'[r], runs'[r]) /\ Agree(runs'[r], saved[r]) /\ Agree(saved'[r], saved[r])
        BY <2>1, <3>1 DEF Agree
      <3>3. Kept(saved[r], written[r], backup[r])
        BY <1>0, <2>1, <2>4 DEF BackedUp
      <3>4. Kept(runs'[r], written[r], backup[r]) /\ Kept(saved'[r], written[r], backup[r])
        BY <3>2, <3>3, AgreeKeeps
      <3>5. BackedUp(r)'
        BY <2>1, <3>2, <3>4 DEF BackedUp
      <3>. QED  BY <2>3, <2>4, <3>5
    <2>5. CASE q # r
      <3>1. BackedUp(q)'
        BY <1>0, <2>1, <2>5 DEF OthersKeep, BackedUp
      <3>. QED  BY <2>3, <3>1
    <2>. QED  BY <2>4, <2>5
  <1>4. CASE Crash
    BY <1>0, <1>4, CrashReady
  <1>5. ASSUME UNCHANGED << runs, saved, pc, step, content, backup, written >>
        PROVE  BackedUp(q)' /\ Ready(q)'
    BY <1>0, <1>5 DEF BackedUp, Ready, Untouched, UnitAt, UnitsOf
  <1>6. ASSUME NEW s \in Subsystems, CooldownExpires(s)
        PROVE  UNCHANGED << runs, saved, pc, step, content, backup, written >>
    BY <1>6 DEF CooldownExpires, pipeline
  <1>7. Boot => UNCHANGED << runs, saved, pc, step, content, backup, written >>
    BY DEF Boot, memory, pipeline, disk
  <1>8. UNCHANGED vars => UNCHANGED << runs, saved, pc, step, content, backup, written >>
    BY DEF vars, memory, pipeline, disk
  <1>. QED  BY <1>1, <1>2, <1>3, <1>4, <1>5, <1>6, <1>7, <1>8, NextCases

LEMMA InitOriginals == Init => Originals
  <1>. SUFFICES ASSUME Init, NEW r \in Runs PROVE BackedUp(r) /\ Ready(r)
    BY DEF Originals
  <1>1. runs[r] = None /\ saved[r] = None /\ pc[r] = "none"
    BY DEF Init
  <1>. QED  BY <1>1, NoneAssumption DEF BackedUp, Ready

\* The backup of the first change of a run to each file is what the file was
\* when the run began, whatever fails and whenever the process dies.
THEOREM OriginalsAreBackedUp == Spec => []OriginalIsBackedUp
  <1>1. Base /\ Originals /\ [Next]_vars => Originals'
    BY OriginalStep
  <1>2. Originals => OriginalIsBackedUp
    BY DEF Originals, BackedUp, Kept, OriginalIsBackedUp, FirstWriters, UnitsOf
  <1>. QED  BY <1>1, <1>2, InitOriginals, BaseHolds, PTL DEF Spec
==============================================================================
