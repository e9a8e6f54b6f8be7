# Tala: verification of the agent's control logic

Tala is an Electron desktop agent. It answers in a chat by streaming from a
model and calling tools; it keeps memories in a canonical store with mirrors
around it, and repairs them when a capability was missing; and it looks at its
own source tree, plans changes to it, asks for permission and applies them.
This directory holds TLA+ models of the parts whose correctness depends on
order, concurrency and failure:

- *governed self-modification*: whether a change may be made (governance) and
  the making, verifying and undoing of it (controlled execution);
- *the chat turn*: requests, retries, cancels and tools of concurrent turns
  that share a provider and its circuit breaker;
- *memory repair*: health, repair cycles, and the queue of deferred work.

Each definition is a translation of the TypeScript named for it under `map` in
`PROJECT.json`. Paths below are relative to `src/electron/services/` unless
they say otherwise.

## Inventory

The services directory is about 117 000 lines. What each part keeps, does and
risks, and whether it is modelled (`PROJECT.json`, `components`, lists the files):

| Component | State | Operations | What is hard | Modelled |
|---|---|---|---|---|
| Governance (`governance/`, 2.4k lines) | one decision file per proposal, an append-only approval log, an append-only audit log | evaluate, approve, reject, defer, confirm, escalate, canExecute, expiry sweep | authorization computed in three places, calls in any order, death between two writes, swallowed write errors, look-up windows of different lengths | yes |
| Controlled execution (`execution/` without the chat spine, 3.2k) | run records in memory and on disk, one lock and cooldown per subsystem, budgets, workspace files, backups | start, pipeline (validate, plan, apply, verify, roll back), abort, manual check, recovery | abort during an awaited command, locks freed by the wrong run, torn files, budgets that run out, crash in the apply phase | all but two kinds of units |
| Safe change planning (`reflection/SafeChangePlanner.ts`, `PlanRunRegistry.ts`) | plan runs, dedup fingerprints, locks, cooldowns, proposals | plan, promote, list, prune | windows of different lengths; the lock only matters with a model hook, which the application does not pass | its look-up windows |
| Reflection (`reflection/`, 9.2k) | journals, older proposals, run controller | reflect, propose, auto-fix, apply, roll back | a second apply path with its own backups | no |
| Autonomous improvement (`autonomy/`, 17.6k) | goals, runs, campaigns, cooldowns, learning | detect, plan, ask, execute, report | a client of the three above, with polling and its own budgets | no |
| Plan execution (`planning/`, 11.7k) | plan graphs, loop phases, hand-off records | plan, execute, replan, hand off | retries of side effects, replan limits, approvals | no |
| Runtime guardrails and recovery (`guardrails/`, `runtime/`, 5.5k) | circuit breakers, retry and recovery budgets | execute with policy, recover, escalate | concurrent calls around a half-open breaker, retry of completed work | breaker and guarded retries |
| Memory (`MemoryService.ts`, `memory/`, 8k) | health cache, triggers, repair cycles and counters, deferred rows, canonical rows | evaluate, trigger, repair, defer, drain, restart | events delivered inside the evaluation that emits them, flags checked before and set after it, lost database replies, replay of finished work | health, repair, deferred work |
| Storage registry (`storage/`, 3k) | providers and role assignments in one file | register, assign, remove, validate, bootstrap | one provider per role, canonical authority, failing saves | no |
| MCP (`McpService.ts`, `McpLifecycleManager.ts`, `mcp/`) | connections, health, back-off | start, stop, reconnect, call | late results of an abandoned connection | no |
| Inference (`inference/`, `InferenceService.ts`) | provider inventory, selection | detect, select, fall back | fallback with timeouts | one streamed request |
| Kernel and chat turn (`kernel/`, `AgentService.ts`, `execution/ChatExecutionSpine.ts`) | turn state, tool loop, one abort controller | start, cancel, request, retry, run tools | cancels at any moment, calls that cannot hear them, turns that share state, a turn that must end | the loop of a turn |
| Context, retrieval, ingestion, cognition | indexes, candidate lists | assemble, score, ingest | computation over text | no |
| Workflows and tools | workflow graphs, tool registry | run, dispatch | loops, sub-workflows | no |
| Database bootstrap (`db/`) | process handles, runtime decision | start, degrade | process and network I/O | no |
| IPC, UI, diagnostics | windows, telemetry | wiring | none of its own | no |

How they interact: the reflection scheduler, the user or the autonomy
orchestrator calls the planner; the planner's proposal is *promoted*, which
creates a governance decision; the user (IPC `governance:*`) or the policy
itself authorizes it; `execution:startRun` (IPC) or the autonomy orchestrator
starts a run, whose eligibility gate asks governance as its tenth check. A chat
turn asks `InferenceService` for a stream, which runs the brain under
guardrails; it reads the health of the memory before it writes memories, and
what cannot be written is enqueued; the health evaluation emits the repair
trigger. All of it runs in one Node thread: between two awaits that really wait
nothing else runs. The processes that matter are therefore IPC calls, timers, child
processes that exit, and the death of the whole process between, or inside, two
file operations.

What makes each part correct, in a sentence: *governance* - nothing executes
that was not authorized by the required number of people or by the policy, and
the record of it survives; *execution* - one pipeline per subsystem, a change
is kept only if verified, otherwise undone, and whatever happens the lock comes
back; *chat* - a provider is shut out by its own faults only, the
attempts of a stream are never spliced, a cancel takes effect soon and every turn
ends; *memory* - repairs neither block each other for ever nor storm, no row is
worked on twice at once, and a deferred row is done or given up, never both and
never forgotten by the queue's own doing.

## Modules

| Module | Models | Extends |
|---|---|---|
| `AuthorityTiers` | `AuthorityTierModel.ts`: the order of the tiers and what each one requires | |
| `GovernancePolicy` | `GovernancePolicyEngine.evaluate` on the rule table of `defaults/defaultPolicy.ts`, one rule a step | `AuthorityTiers` |
| `ApprovalWorkflow` | the life of a decision: registry, gate, IPC handlers, sweep | `AuthorityTiers` |
| `ChangeExecution` | `ExecutionOrchestrator` with its registry, budgets, planner, apply, verification and rollback engines, run store and recovery; refines `ChangePromise` | |
| `ChangePromise` | what controlled execution promises of its runs and their files: the abstract specification | |
| `CircuitBreaker` | one breaker of `GuardrailCircuitBreaker.ts`, as operators on its snapshot | |
| `InferenceStream` | one streamed request: `streamWithBrain`, `InferenceService.executeStream` under `GuardrailExecutor`, `OllamaBrain.streamResponse` | `CircuitBreaker` |
| `ChatTurn` | the loop of `ChatExecutionSpine`, of concurrent turns | `InferenceStream` |
| `MemoryIntegrity` | `MemoryIntegrityPolicy`, the repair plan: pure operators on sets of capabilities | |
| `DeferredReplay` | the table of deferred work and its drains | |
| `ReplayPromise` | what the queue promises: the abstract specification | |
| `MemoryRepair` | health cache, triggers, repair cycles, scheduler, deferral and restart, on top of the two before; refines `ReplayPromise` | `DeferredReplay`, `MemoryIntegrity` |
| `MCApprovalWorkflow`, `MCChangeExecution`, `MCChatTurn`, `MCMemoryRepair` | constants and symmetry of the instances | the module they name, `TLC` |
| `GovernancePolicyProofs`, `ApprovalWorkflowProofs`, `ChangeExecutionProofs`, `ChatTurnProofs`, `MemoryRepairProofs` | theorems and proofs | the module they name, `TLAPS` |
| `ChangeUndoProofs` | theorems about `ChangeExecution`: what a failed run leaves in the files | `ChangeExecutionProofs` |
| `ChangePromiseProofs` | theorems about `ChangeExecution`: the refinement | `ChangeUndoProofs` |

Definitions named `X_Mutant...` are forms of `X` with a plausible bug. They are
used by nothing; each property of a passing run is known to fail for one of
them (`mutants` in `PROJECT.json`).

### ApprovalWorkflow

The registry keeps nothing in memory, so the variables are the three files of
each proposal (`decision`, `records`, `audit`), the age of the proposal as the
look-ups see it (one hour in `listRecent`, four until pruned, seven days for the
sweep), and a call counter that names approval records and bounds the instance.
Every operation is synchronous and is one action. It computes its writes as the
code does and applies them through `Persist`, whose first argument after the
proposal is the set of writes that took effect: all of them, a prefix (the
process died) or any subset (an append or rename failed and was swallowed).
Where the caller reads the file again to decide on the audit event, so does the
action (`Reread`). `cut` is history: how many calls on a proposal lost a write
(`MaxCuts` bounds it).

Abstractions: an approval record is its number, actor and outcome; actor kinds,
times, texts and proposal snapshots are left out; the audit log is the set of
kinds of events in it. `addEscalation` and `resolveEscalation` have no caller
in the application but belong to the registry and are actions too. The gate's
`reEvaluateProposal`, which has no caller either, does what `evaluateProposal`
does, though its docstring says otherwise (finding 6 below). The policy
result is a constant set, so that policy files other than the bundled one are
covered: `WorkflowAssumption` is what the engine guarantees of every result.

### ChangeExecution

`runs`, `lock`, `cooling` and `used` are the maps of the registry and the
budget manager and die with the process; `saved`, `content` and `backup` are
files and do not; `pc`, `step`, `verdict` and `lost` are the local state of
the asynchronous pipeline; `written` is a history variable.

*Atomicity.* From `start()` to the spawn of the first verification command, and
from the exit of a command to the next spawn, the pipeline awaits only promises
that are already settled, so no IPC handler runs in between: `cpu` names the
run whose turn it is, and actions that belong to the event loop require
`cpu = None`. The process can die at any point of a turn, and inside a write
(`TearWrite`).

*Data.* A file is a set of marks: fragments that patches look for and insert.
That is enough to tell the original, each intermediate version, a torn file and
an absent one (the empty set) apart. A patch replaces its anchor by its mark,
an overwrite or a create leaves its mark alone. The proposals are constants that
pass the checks of the eligibility gate that depend on the proposal alone
(1, 2, 5-7, 9, 10); the lock and the cooldown are checked in `Start`. The deterministic draft of
`SafeChangePlanner._buildDraftChanges` names a file without a search text; the
units modelled are the ones the proposal type admits and `ApplyEngine` applies,
whoever drafted them.

*Faults* are switched per instance: `abort` (the user calls `abortRun`),
`timeout` (time budgets run out), `io` (a write to a workspace file or backup
throws, before or after some bytes), `save` (a run file is not written).

*Refinement.* `ChangePromise` knows of a run its stage (new, working, kept,
failed, forgotten) and, while it works, its job: the proposal, whether it is a
dry run, and the files as it found them. It says: one run works on a subsystem
at a time; a working run changes files of its plan only, a dry run none; a run
that fails leaves the files that it touched once as it found them; a death
forgets every run, and none comes back to work. `ChangeExecution` implements it
(`RunsKeepPromise`): the stage is the status (`Stage`), or `forgotten` where the
record is gone but the run was used; the files as a run found them are the
contents until its snapshot is taken, which happens in the turn it begins in,
and the snapshot from then on (`Job`).

*Left out:* `delete_file` and `rename_file` units (the plan builder never makes
one), dashboards, telemetry, the audit log, `pruneOldRuns` (no caller).

### InferenceStream and ChatTurn

`stream[t]` is the `executeStream` a turn waits for: what it awaits (the brain,
the output policy, a back-off), its attempt, the state of the brain call
(`silent` until its first token), and which attempts passed tokens to the user.
`breaker` is the shared map of `GuardrailCircuitBreaker`; `cancelled` the abort
signal of each turn; `controller` the one `abortController` of `AgentService`,
which a later turn overwrites; `phase` and `iter` the loop of
`runExecutionLoop`. `orphans`, `streak`, `callsAfterCancel` and
`toolsAfterCancel` are history. An action is what runs between two awaits: from
the head of the loop to the brain's request, from a timer to the next await,
and so on; `cancelChat` and the actions of other turns come in between.

*Deafness.* The brain hears an abort through an event listener
(`src/electron/brains/OllamaBrain.ts:354`), which a signal that is already
aborted never calls. A call that starts after the cancel is therefore deaf to
it and to the abort of its own attempt; only its own watchdogs end it.

*Data.* A reply is content, tool calls or an error. Which provider is selected
is free at each request, or none (then the brain is called directly, without
guardrail and open timer). Tokens, prompts, tool results, message repair and the
choice of tools are left out; the tools of an iteration are one step, whose
time-outs make sure that it ends. (A browser command, and the page that is
fetched after it, are awaited outside the race with the tool's time-out,
`execution/ChatExecutionSpine.ts:1592` and `:1601`; each such wait has a timer
of 15 seconds of its own, `AgentService.ts:2949`.) `shown` belongs to one
stream: the second request of `RetryForTools` passes its tokens to the same
`onToken` (`execution/ChatExecutionSpine.ts:2717`), so that the user may see an
answer without tool calls and then another one. `OneAnswerShown` says nothing of
these, nor of the answers of later iterations. The failures counted by a breaker stop at
the threshold, where more make no difference.

*Left out:* the fallback chain of `executeStream` (chat passes no fallback
providers), brains other than Ollama (`CloudBrain` is reached by the same
code and has other watchdogs), the recovery controller, the kernel around the
turn, and the writes after a turn, whose deferral is in `MemoryRepair`.

### MemoryIntegrity, DeferredReplay and MemoryRepair

`up` is the set of capabilities that `MemoryService` evaluates, `cache` its
health status of the last second. `emitted` and `cooled` are the 30-second
windows of the trigger service and the executor, `running`, `recent` and `uses`
the executor's flag, cycles of the last hour and counters per handler; `cycle[c]`
is what a repair cycle in flight awaits, with the rest of its plan. `table` is
the database table `deferred_memory_work`, `draining` the flag of the replay
service and `drain[d]` the batch a drain has in hand, claimed, run and marked
row by row. `deferring` are rows that a turn is about to insert.

*Synchronous delivery.* `TelemetryBus` calls its subscribers inside `emit`. An
evaluation of the health may emit a trigger, and the trigger may begin a repair
cycle, up to that cycle's first await, inside the caller that evaluates. Such a
block is one action, and what it does is computed by operators on the record
`Now` of the variables it touches: `Evaluated` calls `Begin`, which calls
`Advance`, and so on; `Becomes` assigns the result. This is where the code
checks a flag, evaluates, and sets the flag: the cycle that began in between is
on the way, and both go on.

*Failure.* A claim, a completion or a failure mark may throw before or after
the database committed it; a handler may fail with its work done; the process
may die at any step, and only the table survives; `wired` is whether the
canonical store was there at the start, without which there is neither queue
nor scheduler; a connect to mem0 may end, well or not, after its ignition timed
out (`late` of them are pending): the client it sets or clears is the one of
whatever ignition came last.

*Left out:* a second drain of the scheduler while its last one is under way.
`_prioritizeReplay` is not awaited, so that a run of the scheduler may begin
then; it finds the flag set, unless a cycle's drain that overlaps has cleared it,
and only that case is left out (`overflow`, as for more cycles than the instance
has). A shutdown of the canonical store that throws, which may leave a closed
repository in place with the flag down; the next `reconnect_mem0` would then
set the flag (`AgentService.ts:2102`).

*Left open:* the analytics by which the scheduler decides to trigger or to
replay (any of it may happen, for the reasons in `Requested`), which of the
capabilities change, and whether `reconnect_rag` puts itself off. The two
windows of a reason begin in the same synchronous block and are modelled to end
together.

*Refinement.* `ReplayPromise` says of each row: it is owed from its insertion
on; every counted try does its work at most once; it is done only after its
work was done, given up exactly when its tries are used up, and neither is
taken back. `MemoryRepair` implements it (`ReplayKeepsPromise`): `tries` is
`attempts`, `applied` is the history variable, and `state` is the status, with
one exception: a completed row whose completion *seemed* to fail (the reply was
lost) is still owed while the drain that holds it has yet to mark it failed
(`Revoked`), because `markFailed` will take `completed` back.

## Runs

| Run | Question | Bounds and why they are enough |
|---|---|---|
| `MCGovernancePolicy` | Does the walk over the rule table give the strictest matching tier for every input? Is risk never self-authorized, does each result leave exactly one way forward, and does touching more (protected files, subsystems, more files) never lower the burden? | every value of every field the rules read; file counts to 6, past the last threshold (5) |
| `MCApprovalWorkflow` | In any order of calls, and with the process dying between two writes: is authorization earned and audited, is an approval that counts in the log, does dual approval need two people, is a decision never replaced, does a pending one end? | one proposal (proposals share nothing but the sweep), seven policy results: one per path through the code; two actors; three approval-flow calls (two approvals and one refusal or escalation); confirmations are not bounded; one call cut short (`MaxCuts`) after any of its three writes |
| `MCExecution` | Lock discipline, write-ahead, recovery, meaning of success and failure; does every step keep the promise of `ChangePromise`? | two runs (a third adds no kind of interference without aborts), two subsystems, one death at any point; a plan with a conflict, one over every budget, one with more commands than allowed, one on an immutable file, one with a manual check behind an advisory and a critical command, one on another subsystem |
| `MCExecutionAbort` | After an abort frees the lock under a running command, what keeps the next run out? | three runs: one aborted, one committed, one rolled back |
| `MCExecutionFaults` | Under all write faults, time-outs and two deaths: is the original backed up, is the lock given back? | one run: the lock is per subsystem and files of one run are enough |
| `MCChatTurn` | Does the breaker count the provider's faults and nothing else? Is an answer never spliced, a cancel bounded, a call left behind only by a cancelled turn, and does every turn end? | two turns on one provider (the breaker is all they share besides the controller), threshold 2 (a first fault that does not open and a second that does), two iterations (one after tools, one that must stop), two attempts as in the code |
| `MCMemoryRepair` | Are rows worked on by one drain at a time though drains overlap? Is the running flag never left behind, a storm bounded, and does the queue keep its promise? | two cycles and the scheduler, which is what the one nested evaluation can overlap (a third cycle at once is left out: `overflow`); at most one late connect; the scheduler asks for `mem0` (the proofs allow every reason, `unknown` too); one row of two attempts, one batch; each cap at 1; canonical, mem0 and embeddings come and go, in both modes of integrity |
| `MCApprovalStatus` | "Its status is 'approved' or 'self_authorized'" | refuted, see below |
| `MCExecutionTwice` | "Restores files from backups written by ApplyEngine" | refuted |
| `MCExecutionResurrected` | "No backwards transitions are permitted", and `aborted` is terminal | refuted: one run, one user abort |
| `MCExecutionManual` | "Verification success (overallPassed) requires: - All critical steps passed." | refuted: one run of the proposal with a manual check, time-outs |
| `MCMemoryOverlap` | "concurrent runRepairCycle call returns skipped immediately" | refuted |

`MCExecution`, `MCExecutionAbort` and `MCMemoryRepair` treat runs or cycles as
interchangeable (`SYMMETRY`): all start idle, no definition names one, and none
of these runs checks a liveness property. `MCChatTurn` does check one and uses
no symmetry.

Deadlock is not checked where the instance stops when its calls, runs or turns
are used up; the real system stops when nobody calls it. `MCMemoryRepair` checks
it.

The bounds of these runs are those of TLC only. What is proved (below) holds for
every value of the constants.

`MCExecutionAbort` rests on an assumption stated at `CooldownExpires`: a
cooldown (5 or 15 minutes) outlasts the commands that were running when it
began, whose time is bounded by the verification budget. If it did not,
`OnePipelinePerSubsystem` would fail: its mutant shows that the cooldown is the
only thing that keeps pipelines apart after an abort.

`CommittedChangesSurvive` compares a file before and after a rollback step, and
leaves out what is no one else's loss: files that the plan being undone changes
several times (`MCExecutionTwice`), marks that the run had put there itself, and
a file torn by the death of the process in the step.

`SuccessEarned` states what a success stands for in the code; `SuccessVerified`,
what the comment of `VerificationRunner` says. They differ in one case: a
verification that ran out of time and was let through by a person.
`MCExecution` reaches it and `MCExecutionManual` shows it.

`TerminalIsFinal` is checked in `MCExecution`, where no user aborts. With aborts
it fails in two ways: an aborted run goes on (`MCExecutionResurrected`), and
`abortRun`, which looks at no status, turns a run that has ended into an aborted
one. `AbortIsFinal` is about the first alone.

### Fairness

`ApprovalWorkflow!FairSpec`: time passes, and the sweep's interval timer keeps
firing (weak fairness of `TimePasses` and `ExpirySweep`). No call of a human is
fair. `ChangeExecution!FairSpec`: the thread keeps running (`PipelineStep`),
a command exits or is killed at its time-out (`CommandReturns`), and a process
that died is started again and completes its constructor (`Recover`, `Boot`).
No user call, no manual check and no cooldown expiry is fair; so the liveness
run has no proposal with a manual check, whose lock a human must release.
`ChatTurn!FairSpec`: for each turn the event loop runs what is ready
(`LoopStep`) and its timers fire (`Timers`: the open timer, the back-off, the
output policy's answer, the brain's watchdogs of silence and of the whole
request, the tools' time-out). No token, no answer of a provider and no action
of the user is fair: `TurnsEnd` holds though the model never says anything.
`MemoryRepair` has no liveness property: nothing in the code makes a row
replayed for certain (see the list below), and the end of a cycle would rest on
the handlers alone: `await handler()` has no time-out
(`memory/MemoryRepairExecutionService.ts:427`), so one that never settles leaves
the running flag set and every later cycle skipped.

## What the code does otherwise than its comments say

Shown by a run:

1. `MCApprovalStatus`. Approve, reject, confirm: the confirmation recomputes
   `executionAuthorized` without looking at the status
   (`ApprovalWorkflowRegistry.ts:293`), and the gate trusts that flag
   (`ExecutionAuthorizationGate.ts:224`). Its comment (line 70) lists the status
   among the conditions, and `governanceTypes.ts:55` calls a rejection permanent.
   A blocked decision requires zero approvals, so its last confirmation
   authorizes it in the same way (`AuthorityTierModel.ts:99`: "no approval path").
2. `MCExecutionTwice`. Two units on one file are restored first to last
   (`RollbackEngine.ts:80`), which leaves the file as it was between them, and
   the run is reported as rolled back.
3. `MCExecutionResurrected`. A run aborted while its verification command runs
   goes on when the command exits (`ExecutionOrchestrator.ts:428`): in the trace
   it becomes `failed_verification`, and it can become `succeeded` as well.
4. `MCMemoryOverlap`. `runRepairCycle` tests `_isRunning`, evaluates the health
   and then sets it (`memory/MemoryRepairExecutionService.ts:314`); the
   evaluation may emit a trigger that begins a cycle of its own. The cap on
   cycles is passed by one for the same reason; `StormBounded` states what is
   left of it.
5. `MCExecutionManual`. The manual check forgets that the verification ran out
   of time (`VerificationRunner.ts:201`). In the trace an advisory command has
   run, the budget ends before the critical one, and the manual check makes the
   run succeed, though lines 13-14 require that all critical steps passed.
6. `MCApprovalWorkflow` (a passing run). `DecisionIsKept` holds because
   `reEvaluateProposal` returns the existing decision, as `evaluateProposal`
   does (`ExecutionAuthorizationGate.ts:197`). Its docstring says that the
   "previous decision is overwritten if same proposalId" (`:193`), the comment in
   its body that approvals are kept and a `policy_evaluated` event is recorded
   (`:208`). The second is half true: approvals are kept, no event is recorded. A
   policy that became stricter therefore never reaches a decision that exists.

Met while reading or modelling, with no run of their own.

Governance and execution:

- A deferral may follow a rejection (`ApprovalWorkflowRegistry.ts:247`), which
  line 206 calls terminal.
- The sweep changes a status without an audit record (`:369`, against `:14`).
- `governance:approve` finds a proposal for one hour only, its decision stays
  pending for seven days (`GovernanceAppService.ts:210`). Every handler acts as
  `local_user`, so a dual decision cannot get its second approval there.
- `abortRun` looks at no status (`ExecutionOrchestrator.ts:212`): a run that
  succeeded can be turned into an aborted one, its changes in place.
- A swallowed append leaves a counted approval out of the log (`:433`);
  `ApprovalsOnRecord` holds for crashes and not for `WriteFaults = "disk"`.
- A backup torn by a full disk is restored over the intact file
  (`ApplyEngine.ts:324`).
- A user abort rolls nothing back (`ExecutionOrchestrator.ts:546`), though
  `RollbackEngine.ts:10` lists it among its triggers.
- Aborting a run that has ended deletes the lock of the run that now holds it
  (`ExecutionOrchestrator.ts:491`).
- A positive manual check of a run with failed steps leaves it `verifying`, with
  its lock, until a user aborts it (`ExecutionOrchestrator.ts:279`).
- A replacement text with `$` patterns is inserted by `String.replace` otherwise
  than written (`ApplyEngine.ts:250`); contents are abstracted to marks here.
- An approval is never used up: the same decision lets execution start again
  after every cooldown (`ExecutionAuthorizationGate.ts:224`). Escalations are
  listed and hold nothing back (`ApprovalWorkflowRegistry.ts:311`).

Chat turn:

- A cancelled stream resolves as completed with no content; the loop takes it
  for an answer without tool calls and asks again with tools required. That call
  begins on an aborted signal and is deaf
  (`docs/architecture/phase1b_streaming_hardening.md:132` says: status aborted,
  no retry). A cancel during the back-off is not looked at either
  (`runtime/guardrails/GuardrailExecutor.ts:186`). `CancelIsBounded` states what
  holds: two more calls and one batch of tools.
- A deaf call given up by its open timer runs on without anyone waiting for it.
- A later turn overwrites the abort controller
  (`execution/ChatExecutionSpine.ts:2247`): the earlier one cannot be cancelled.
- A tool given up after its time-out keeps running and may be run again
  (`execution/ChatExecutionSpine.ts:1568`). `handleIterationTimeoutFallback` has
  no caller that reaches it.

Memory:

- No production code registers a replay handler; every deferred row fails its
  attempts and is given up, against the comment at
  `memory/DeferredMemoryReplayService.ts:190-192`. `Registered` is a constant of
  the model: the run registers the kind it uses, the proofs allow any set.
- A row in progress when the process dies, or whose failure could not be
  marked, is never claimed again. The abstract queue promises safety only.
- When the reply of `markCompleted` is lost, a completed row becomes pending and
  is tried again (`:201`), against "completed items are never retried" (`:17`).
- Queue and scheduler exist only if the canonical store was there at the start.
  Rows for the graph are never drained when only the graph was missing: its
  return asks for no cycle. The counters of the handlers are never reset.
  A shutdown or late connection of mem0 leaves the health cache as it is.
  `trackDeferredWork` has no caller.

MCP servers (read, not modelled):

- Health ticks of 10 seconds have no guard against each other, and neither have
  connects: a second client may be opened and the first one leaked, though
  `McpService.ts:113` says that a connect "returns true immediately without
  creating a duplicate connection". A late connect that fails degrades a fresh
  connection, and a disconnect deletes, after its await, whatever entry then has
  the id.
- Disabling a server in the settings leaves it active with its approved
  capabilities (`mcp/McpAuthorityService.ts:236`), and so does an activation
  whose connect fails (`:316`); an activation that ends after a removal brings
  the server back.

## Proofs

Every invariant that a passing run checks is also a theorem, and so are its
action properties (`DecisionIsKept`, `TerminalIsFinal`, `FailureLeavesNoTrace`,
`CommittedChangesSurvive`) and the two refinements. The assumptions are the `ASSUME`s of the
modules: what a policy result, a proposal, a configuration is. Where the code
keeps a property only without some fault, the theorem has it as a condition.

### GovernancePolicyProofs (any number of files)

| Theorem | States |
|---|---|
| `IInvHolds` | the inductive invariant |
| `TypeCorrect` | `TypeOK` |
| `StrictestWins` | `MostRestrictiveWins` |
| `RiskNeedsHumans` | `RiskNeverSelfAuthorizes` |
| `OneWayForward` | `OnePathForward` |
| `BurdenIsMonotonic` | `ProtectionNeverLowersBurden` |

The walk keeps the set of rules matched so far and the tier of the strictest of
them. The other three properties are about what the whole table means; for them
the table is shown to be equivalent to a cascade of seven cases (`Cascade`),
whose cases are then compared for two inputs.

### ApprovalWorkflowProofs (any proposals, actors, results, number of calls, faults)

| Theorem | States |
|---|---|
| `IInvHolds` | the inductive invariant |
| `TypeCorrect` | `TypeOK` |
| `AuthorizationIsEarned` | `AuthorizationEarned` |
| `DualControlHolds` | `DualControl` |
| `DecisionsAreKept` | `DecisionIsKept`, an action property |
| `ApprovalsAreLogged` | `ApprovalsOnRecord`, provided writes do not fail (`WriteFaults # "disk"`) |
| `AuthorizationsAreAudited` | `AuthorizationAudited`, which speaks of decisions no call of which lost a write |

The properties are not inductive. That an authorized decision has the approvals
*its tier* requires is only known while `approvalsRequired`, which the registry
counts against, is still the tier's number. That two approvals are two people's
is only known if no actor approved twice, whatever refusals came in between,
and if a dual decision never authorized itself. `Good(d)` says this of one
decision, and finiteness of its approvals, without which their number means
nothing; `IInv` is `TypeOK` and every decision being good. The proof has one
lemma per kind of change to a decision (`NewDecisionGood`, `AfterApprovalGood`,
`AfterRefusalGood`, `AfterConfirmationGood`, `WithdrawnGood`), one about
`Persist`, which writes the new decision or leaves the old, and one step per
action. `ApprovalsAreLogged` adds that in one call the decision is never written
without the record.

### ChangeExecutionProofs (any proposals, plans, commands, budgets, runs, deaths)

| Theorem | States | Condition |
|---|---|---|
| `BaseHolds` | the inductive core | none |
| `TypeCorrect` | `TypeOK` | none |
| `LocksAreOwned` | `LockOwnedByActiveRun` | none |
| `OneActive` | `OneActivePerSubsystem` | no user aborts |
| `EndedIsEnded` | `TerminalIsFinal`, an action property | no user aborts (with them it is refuted above) |
| `OnePipeline` | `OnePipelinePerSubsystem` | no user aborts, or no manual checks |
| `SuccessIsEarned` | `SuccessEarned` | none |
| `SuccessIsVerified` | `SuccessVerified` | no time-outs, or no manual checks (with both it is refuted above) |
| `FootprintsAreSaved` | `FootprintIsSaved` | run files can be saved |
| `NoStaleFiles` | `NoStaleRunFile` | run files can be saved |
| `OriginalsAreBackedUp` | `OriginalIsBackedUp` | none |

The core, `Base`, is the types and what the place of its pipeline says of a run
(`Places`): who has the thread, which step is in range, that a process that is
being started knows recovered runs only. Each property then has a part of its
own, inductive together with `Base`. `LockOK`: locks have active owners within
a turn too. `Undecided`: nothing is verified before the commands have answered.
`Busy`: an active run holds its lock, which makes two of them one. `Outcomes`:
what the answers heard so far (`Listening`), those a manual check waits on
(`Awaiting`) and those of a successful run (`Succeeded`) amount to. `Covered`:
a live pipeline has the lock or the cooldown. `FilesOK`: the run file has the
record's status, and says so before the first byte is changed. `Originals`: the
files a run has not come to are those of its snapshot, because nobody else has
the turn, so that the backup of the first unit of a file is the snapshot's; and
the run file agrees with the record on the snapshot, so that this survives
recovery.

Nearly every action is a `Turn` of one run, which leaves the other runs alone.
There is one lemma per action that says what it does to the run and its file
(`ValidateStep`, `JudgeStep`, ...), and the preservation lemmas cite those.

### ChangeUndoProofs (any proposals, plans, commands, budgets, runs, deaths)

| Theorem | States | Condition |
|---|---|---|
| `UndoHolds` | the inductive invariant of undoing | those of `CommittedSurvives` |
| `FailuresLeaveNoTrace` | `FailureLeavesNoTrace`, an action property | no user aborts, no half-done writes, `MaxPatchUnits <= MaxRollbackSteps`, `FilesApart` |
| `CommittedSurvives` | `CommittedChangesSurvive`, an action property | no user aborts or no manual checks, and the other three |

The invariant, `CanUndo`, is about the units that are alone of their plan on
their file (`Alone`). Such a unit is followed through the run (`Undoable`): until
it is written, and again once the rollback has passed it, its file is that of
the snapshot; in between the file has at most the unit's mark more, and the
backup is what the snapshot has. `Frugal` says that every unit written was paid
for by the patch budget, so that the rollback budget cannot end before the last
of them. `Exclusive` says that a run that may still roll back is the only such
run of its subsystem; with `FilesApart` nobody else changes its files.

Each condition is needed, and is one of the code's:

- *no user aborts*: an abort rolls nothing back. For `CommittedSurvives` aborts
  are allowed where no proposal waits for a manual check: there the cooldown
  keeps the pipelines apart (`OnePipeline`).
- *no half-done writes* (`"io"`): a write that throws may leave part of the
  file, and the unit is not among those applied; or part of a backup, which is
  then restored.
- *`MaxPatchUnits <= MaxRollbackSteps`*: otherwise the rollback stops early. The
  code's defaults are 10 and 10.
- *`FilesApart`*: the plans of two subsystems have no file in common. Nothing in
  the code sees to it; it depends on the proposals.

That a plan touches a file once is not a condition: the properties speak of
those files, and of the other files of a plan they say nothing, because the code
restores first to last (`MCExecutionTwice`).

### ChangePromiseProofs (any proposals, plans, commands, budgets, runs, deaths)

| Theorem | States | Condition |
|---|---|---|
| `ExecutionKeepsPromise` | `RunsKeepPromise`, the refinement | those of `FailuresLeaveNoTrace` |

`start()` is `Begin`: that no other run of the subsystem works is the lock's
doing (`Busy`). A step of a run is mapped by what it does to the status: it stays
active, and is `Change` or a stutter; it becomes `succeeded`, which is `Keep`; or
it fails, which is `Undo`, by `FailuresLeaveNoTrace`'s argument. A death is `Die`,
in the middle of a write perhaps; recovery is `WriteOff`; the end of a cooldown
and the end of the constructor are stutters. One more invariant is needed,
`DryRunsDry`: an active dry run is not where files are changed, and none of its
units failed, so that it never comes to a rollback.

### ChatTurnProofs (any turns, providers, threshold, number of iterations)

| Theorem | States |
|---|---|
| `IInvHolds` | the inductive invariant |
| `TypeCorrect` | `TypeOK` |
| `BreakersAreFair` | `BreakerCountsFaults` |
| `AnswersAreWhole` | `OneAnswerShown` |
| `OrphansBelongToCancels` | `OrphansAreCancelled` |
| `CancelsAreBounded` | `CancelIsBounded` |

A breaker counts what its history counts only while an open breaker is a full
one (`Counted`); one attempt is shown because a back-off begins only with
nothing shown (`WellFormed`); a silent call is deaf only to a cancel that came
first (`Hears`); and the calls after a cancel are two because no back-off is
entered after it, so that a turn that waits in one has begun none yet
(`CallsBound`).

### MemoryRepairProofs (any rows, handlers, caps, cycles, capabilities)

| Theorem | States |
|---|---|
| `IInvHolds` | the inductive invariant |
| `TypeCorrect` | `TypeOK` |
| `FlagsHaveCycles` | `FlagHasCycle` |
| `StormsAreBounded` | `StormBounded` |
| `RowsHaveOneWorker` | `OneWorkerPerRow` |
| `QueueImplementsPromise` | `ReplayKeepsPromise`, the refinement |

The first half is about the synchronous blocks: one lemma per operator, and what
all of them guarantee at their end (`Calm`): types, the flag has a cycle, the
storm is bounded, and drains were begun or left alone. The second half is about
the queue: rows in hand are in progress, or completed by a lost reply; hands are
apart; and the work of a row that may be claimed was done at most as often as
its failures were counted. The refinement maps every step of the queue to a step
of `ReplayPromise` or a stutter; a restart, which forgets all drains at once, is
the step that settles several rows.

### Model-checked only

`PendingResolves`, `LockIsReleased` and `TurnsEnd` are liveness properties under
fairness, outside the prover's reach. Of the five properties that the code breaks
(`AuthorizedStatus`, `RolledBackRestores`, `AbortIsFinal`, `SuccessVerified`,
`OneCycleAtATime`) there are the counterexamples, and a theorem of
`SuccessVerified` alone, under the condition that rules its counterexample out.
No module declares a RECURSIVE operator.

## Not modelled, and why

- *Safe change planning.* The application passes no model hook
  (`src/electron/main.ts:175`), so that a planning run awaits settled promises
  only: it is one synchronous block, its lock is never seen held. What governance
  reads of it, the one-hour and four-hour windows, is in `ApprovalWorkflow`.
- *Autonomy, reflection.* Clients of governance and execution: the models let
  every caller do anything, in any order. Their goal detection, scoring, learning
  and campaigns are computations over text and statistics.
- *Plan execution, workflows, tools.* Loops that await one step at a time for one
  caller; what a step does is its tool's matter.
- *Canonical memory* (`memory/MemoryAuthorityService.ts`). Transactions of the
  database, which gives their atomicity.
- *MCP servers.* Read, with the races listed above.
- *The rest of inference* (selection, scoring, other brains, the fallback chain,
  which no caller uses), *runtime recovery* (policies over failure records),
  *storage registry* (synchronous edits of one file), *context, retrieval and
  cognition* (text), *database bootstrap* (processes and sockets), *IPC, UI and
  diagnostics* (wiring).
- In `ChangeExecution`: `delete_file` and `rename_file` units, the audit log,
  `pruneOldRuns` (no caller).
