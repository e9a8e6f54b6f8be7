--------------------------- MODULE ChangePromise ---------------------------
(***************************************************************************)
(* What controlled execution promises of its runs (the list at the head of *)
(* ExecutionOrchestrator.ts): one of them works on a subsystem at a time,  *)
(* it changes files of its plan only, a dry run changes none, and a run    *)
(* that fails leaves the files that it touched once as it found them.  A   *)
(* process that dies forgets its runs, with the files as they are; no run  *)
(* comes back to work.                                                     *)
(***************************************************************************)
CONSTANTS
    Runs, Proposals, Files, None,
    Subsystem,        \* proposal -> subsystem
    Touched,          \* proposal -> the files of its plan
    TouchedOnce,      \* proposal -> those that one change is about
    InitialContent

VARIABLES
    stage,    \* of each run: new, working, kept, failed or forgotten
    job,      \* of a working run: its proposal, and the files as it found them
    files

promiseVars == << stage, job, files >>

PromiseInit ==
    /\ stage = [r \in Runs |-> "new"]
    /\ job = [r \in Runs |-> None]
    /\ files = InitialContent

Begin(r, p, dryRun) ==
    /\ stage[r] = "new"
    /\ \A q \in Runs : stage[q] = "working" => Subsystem[job[q].proposal] # Subsystem[p]
    /\ stage' = [stage EXCEPT ![r] = "working"]
    /\ job' = [job EXCEPT ![r] = [proposal |-> p, dryRun |-> dryRun, before |-> files]]
    /\ UNCHANGED files

\* The files change, by the hand of run r.
ChangedBy(r) ==
    /\ stage[r] = "working" /\ ~job[r].dryRun
    /\ \A f \in Files \ Touched[job[r].proposal] : files'[f] = files[f]

Change(r) == ChangedBy(r) /\ UNCHANGED << stage, job >>

End(r, outcome) ==
    /\ stage[r] = "working"
    /\ stage' = [stage EXCEPT ![r] = outcome]
    /\ job' = [job EXCEPT ![r] = None]
    /\ UNCHANGED files

Keep(r) == End(r, "kept")

Undo(r) ==
    /\ End(r, "failed")
    /\ \A f \in TouchedOnce[job[r].proposal] : files[f] = job[r].before[f]

\* The process dies, in the middle of a change perhaps.
Die ==
    /\ stage' = [r \in Runs |-> IF stage[r] = "new" THEN "new" ELSE "forgotten"]
    /\ job' = [r \in Runs |-> None]
    /\ UNCHANGED files \/ \E r \in Runs : ChangedBy(r)

\* A forgotten run is put on record as a failed one.
WriteOff(r) ==
    /\ stage[r] = "forgotten"
    /\ stage' = [stage EXCEPT ![r] = "failed"]
    /\ UNCHANGED << job, files >>

PromiseNext ==
    \/ \E r \in Runs :
          \/ \E p \in Proposals, dryRun \in BOOLEAN : Begin(r, p, dryRun)
          \/ Change(r) \/ Keep(r) \/ Undo(r) \/ WriteOff(r)
    \/ Die

PromiseSpec == PromiseInit /\ [][PromiseNext]_promiseVars
=============================================================================
