---------------------------- MODULE MemoryRepair ----------------------------
(***************************************************************************)
(* Repair of the memory subsystem: the cached health of MemoryService, the *)
(* triggers that an evaluation of it or the scheduler emits, the executor  *)
(* whose cycles run repair handlers, and the drains of deferred work that  *)
(* cycles and scheduler start.                                             *)
(*                                                                         *)
(* TelemetryBus delivers synchronously.  An evaluation of the health emits *)
(* a trigger, and the trigger may run a cycle up to its first await,       *)
(* inside the caller that evaluates.  The operators from Finalize to       *)
(* Evaluated compute what such a synchronous block does to the record Now. *)
(***************************************************************************)
EXTENDS DeferredReplay, MemoryIntegrity

CONSTANTS
    Cycles,      \* repair cycles that may be under way at once (a bound)
    Scheduler,   \* the caller of drain that is no cycle
    MaxUses,     \* MAX_ATTEMPTS_PER_ACTION: 3 in the code
    MaxCycles,   \* MAX_CYCLES_PER_WINDOW: 10 in the code
    MaxLate,     \* connects to mem0 pending at once (a bound)
    Fallible,    \* capabilities that may be missing in this instance (a bound)
    Requested    \* reasons the scheduler may ask a repair for (a bound)

ASSUME RepairAssumption ==
    /\ Drainers = Cycles \cup {Scheduler}
    /\ Scheduler \notin Cycles
    /\ MaxUses \in Nat
    /\ MaxCycles \in Nat
    /\ MaxLate \in Nat
    /\ Fallible \subseteq Capabilities
    /\ Requested \subseteq Reasons

\* No cached status (_lastHealthStatus null, or older than its second).
Stale == {"stale"}

VARIABLES
    strict,      \* settings.memory.integrityMode = 'strict'
    up,          \* the flags MemoryService evaluates
    late,        \* connects to mem0 whose ignition timed out, still pending
    wired,       \* the replay service and the scheduler got a database pool
    cache,       \* _lastHealthStatus, within its second
    emitted,     \* reasons within the 30 s of MemoryRepairTriggerService
    cooled,      \* reasons within the 30 s of the executor
    running,     \* _isRunning
    recent,      \* _recentCycleTimes of the last hour
    uses,        \* _attemptCounters
    cycle,       \* of each cycle: step, plan left, last status, counter read
    deferring    \* rows a turn's memory write is about to enqueue

repairVars == << strict, up, late, wired, cache, emitted, cooled, running,
                 recent, uses, cycle, deferring >>

vars == << replayVars, repairVars >>

IdleCycle == [step |-> "idle", todo |-> {}, status |-> {}, read |-> 0]

CycleSteps == {"idle", "drain", "ignite"} \cup Handlers

States == {S \in SUBSET Capabilities : Capabilities \ Fallible \subseteq S}

\* The ignition of igniteSoul may have timed out as well.
LateAtStart(S) == IF "mem0" \in S THEN {0} ELSE 0..MaxLate

\* _wireRepairExecutor at the end of igniteSoul: the queue and the scheduler
\* exist only if the canonical store is there at that moment.
Startup(S) ==
    /\ up' = S
    /\ late' \in LateAtStart(S)
    /\ wired' = ("canonical" \in S)

Init ==
    /\ ReplayInit
    /\ strict \in BOOLEAN
    /\ up \in States
    /\ late \in LateAtStart(up)
    /\ wired = ("canonical" \in up)
    /\ cache = Stale
    /\ emitted = {}
    /\ cooled = {}
    /\ running = FALSE
    /\ recent = 0
    /\ uses = [a \in Handlers |-> 0]
    /\ cycle = [c \in Cycles |-> IdleCycle]
    /\ deferring = {}

-----------------------------------------------------------------------------
Now ==
    [up |-> up, cache |-> cache, emitted |-> emitted, cooled |-> cooled,
     running |-> running, recent |-> recent, uses |-> uses, cycle |-> cycle,
     draining |-> draining, drain |-> drain, overflow |-> FALSE]

\* The state after a synchronous block; behaviours with more cycles at once
\* than the instance has are left out.
Becomes(x) ==
    /\ ~x.overflow
    /\ up' = x.up
    /\ cache' = x.cache
    /\ emitted' = x.emitted
    /\ cooled' = x.cooled
    /\ running' = x.running
    /\ recent' = x.recent
    /\ uses' = x.uses
    /\ cycle' = x.cycle
    /\ draining' = x.draining
    /\ drain' = x.drain

\* drain(), after its check of the flag and its evaluation of the health.
Drains(x, d) ==
    IF "canonical" \in x.cache /\ EligibleKinds(x.cache) # {}
    THEN [x EXCEPT !.draining = TRUE, !.drain[d] = DrainOf(EligibleKinds(x.cache))]
    ELSE x

Finalize(x, c) == [x EXCEPT !.running = FALSE, !.cycle[c] = IdleCycle]

\* Mutant: the cap of a handler lets one more use pass.
MayUse_Mutant(x, a) == x.uses[a] <= MaxUses

MayUse(x, a) == x.uses[a] < MaxUses

\* The loop over the plan up to its next await: the early stop, the cap on the
\* uses of a handler, and the drain, which needs the canonical store.
Advance(x, c) ==
    LET k    == x.cycle[c]
        good == Acceptable(k.status, strict)
        left == IF good THEN {}
                ELSE {a \in k.todo : a \in Handlers => MayUse(x, a)}
        next == First(left)
    IN  CASE left \cap Handlers # {} ->
               [x EXCEPT !.cycle[c] = [k EXCEPT !.step = next, !.todo = left \ {next},
                                                !.read = x.uses[next]]]
          [] /\ left \cap Handlers = {}
             /\ good \/ left # {}
             /\ wired
             /\ "canonical" \in k.status ->
               LET y == [x EXCEPT !.cycle[c] = [IdleCycle EXCEPT !.step = "drain"]]
               IN  IF x.draining THEN y ELSE Drains(y, c)
          [] OTHER -> Finalize(x, c)

\* Mutant: a cycle that strict mode blocks is not finalized.
Begin_Mutant(x, r) ==
    LET c == CHOOSE c \in Cycles : x.cycle[c].step = "idle"
        y == [x EXCEPT !.running = TRUE,
                       !.cooled = @ \cup {r},
                       !.recent = @ + 1,
                       !.cycle[c].status = x.cache,
                       !.cycle[c].todo = Plan(x.cache)]
    IN  IF \A b \in Cycles : x.cycle[b].step # "idle"
        THEN [x EXCEPT !.overflow = TRUE]
        ELSE IF StateOf(x.cache, strict) = "disabled"
             THEN [y EXCEPT !.cycle[c] = IdleCycle]
             ELSE Advance(y, c)

\* runRepairCycle after its guards, with the status in the cache: strict mode
\* blocks a repair that is not about the canonical store.
Begin(x, r) ==
    LET c == CHOOSE c \in Cycles : x.cycle[c].step = "idle"
        y == [x EXCEPT !.running = TRUE,
                       !.cooled = @ \cup {r},
                       !.recent = @ + 1,
                       !.cycle[c].status = x.cache,
                       !.cycle[c].todo = Plan(x.cache)]
    IN  IF \A b \in Cycles : x.cycle[b].step # "idle"
        THEN [x EXCEPT !.overflow = TRUE]
        ELSE IF StateOf(x.cache, strict) = "disabled"
             THEN Finalize(y, c)
             ELSE Advance(y, c)

\* Mutant: the storm cap lets one more pass.
Guards_Mutant(x, r) == r \in x.cooled \/ x.running \/ x.recent > MaxCycles

\* What makes handleRepairTrigger and runRepairCycle skip.
Guards(x, r) == r \in x.cooled \/ x.running \/ x.recent >= MaxCycles

\* getHealthStatus: nothing while the cache is fresh, otherwise maybeEmit of
\* the new status, and the executor acts on the trigger at once.
Evaluated(x) ==
    IF x.cache # Stale
    THEN x
    ELSE LET p == PrimaryReason(x.up)
             y == [x EXCEPT !.cache = x.up]
             z == [y EXCEPT !.emitted = @ \cup {p}]
         IN  IF ~ShouldTriggerRepair(x.up, strict) \/ p \in x.emitted
             THEN y
             ELSE IF Guards(z, p) THEN z ELSE Begin(z, p)

\* emitDirect.  The executor checks its guards, then evaluates the health
\* (to begin a cycle or to report a skipped one), and then begins.
Triggered(x, r) ==
    IF r \in x.emitted
    THEN x
    ELSE LET y == [x EXCEPT !.emitted = @ \cup {r}]
             z == Evaluated(y)
         IN  IF Guards(y, r) THEN z ELSE Begin(z, r)

\* drain() from the scheduler; the health is evaluated between the check of
\* the flag and its assignment.  _prioritizeReplay is not awaited: the next run
\* may come while the drain of the last one is under way.  When a cycle's drain
\* has cleared the flag by then, there are two of the scheduler's (left out
\* like more cycles at once).
Replayed(x) ==
    LET y == Evaluated(x)
    IN  CASE x.draining -> x
          [] ~x.draining /\ x.drain[Scheduler].step = "idle" -> Drains(y, Scheduler)
          [] OTHER -> [y EXCEPT !.overflow = TRUE]

-----------------------------------------------------------------------------
\* A turn ends, or a review is opened: the health is read.
EvaluateHealth ==
    /\ cache = Stale
    /\ Becomes(Evaluated(Now))
    /\ UNCHANGED << table, applied, strict, late, wired, deferring >>

\* storeMemories: the status of the evaluation decides what is deferred.
Defers(i, status) ==
    \/ KindOf[i] = "embedding" /\ "embeddings" \notin status
    \/ KindOf[i] = "extraction" /\ status \cap {"mem0", "extraction"} = {}
    \/ KindOf[i] = "graph_projection" /\ ~({"extraction", "graph"} \subseteq status)

StoreMemories(i) ==
    /\ table[i].status = "absent"
    /\ i \notin deferring
    /\ LET x == Evaluated(Now)
       IN  /\ ~HardDisabled(x.cache, strict)
           /\ Defers(i, x.cache)
           /\ Becomes(x)
    /\ deferring' = deferring \cup {i}
    /\ UNCHANGED << table, applied, strict, late, wired >>

\* enqueue; without a repository the row is dropped.
Enqueue(i) ==
    /\ i \in deferring
    /\ wired
    /\ Insert(i)
    /\ deferring' = deferring \ {i}
    /\ UNCHANGED << strict, up, late, wired, cache, emitted, cooled, running,
                    recent, uses, cycle >>

DropEnqueue(i) ==
    /\ i \in deferring
    /\ deferring' = deferring \ {i}
    /\ UNCHANGED << replayVars, strict, up, late, wired, cache, emitted, cooled,
                    running, recent, uses, cycle >>

\* runNow of the scheduler: what its analytics ask for is left open.
SchedulerRun ==
    /\ wired
    /\ \/ Becomes(Replayed(Now))
       \/ \E r \in Requested, replay \in BOOLEAN :
            LET x == Triggered(Now, r)
            IN  Becomes(IF replay THEN Replayed(x) ELSE x)
    /\ UNCHANGED << table, applied, strict, late, wired, deferring >>

\* A handler of cycle c has answered: the counter is written, the health
\* evaluated, the loop goes on.
AfterHandler(x, c, a) ==
    LET y == Evaluated([x EXCEPT !.uses[a] = cycle[c].read + 1])
    IN  Advance([y EXCEPT !.cycle[c].status = y.cache], c)

\* setSubsystemAvailability invalidates the cache when it changes something.
WithFlags(x, S) == [x EXCEPT !.up = S, !.cache = IF S = x.up THEN @ ELSE Stale]

\* setResolvedMemoryConfig, and ignite, always do.
WithProviders(x, P) ==
    [x EXCEPT !.up = (@ \ {"extraction", "embeddings"}) \cup P, !.cache = Stale]

Providers == {P \in SUBSET {"extraction", "embeddings"} :
                 {"extraction", "embeddings"} \ Fallible \subseteq P}

UpOrDown(S, cap) == {S \cup {cap}, S \ {cap}}

Restored ==
    [reconnect_canonical |-> "canonical", reconnect_graph |-> "graph", reconnect_rag |-> "rag"]

\* restoreCanonical, reconnect_graph, reconnect_rag (which may also be put off
\* while a turn is active): up afterwards or not.
Reconnect(c) ==
    /\ cycle[c].step \in DOMAIN Restored
    /\ \E S \in UpOrDown(up, Restored[cycle[c].step]) :
        Becomes(AfterHandler(WithFlags(Now, S), c, cycle[c].step))
    /\ UNCHANGED << table, applied, strict, late, wired, deferring >>

ResolveProviders(c) ==
    /\ cycle[c].step = "re_resolve_providers"
    /\ \E P \in Providers :
        Becomes(AfterHandler(WithProviders(Now, P), c, "re_resolve_providers"))
    /\ UNCHANGED << table, applied, strict, late, wired, deferring >>

\* reconnect_mem0: MemoryService.shutdown forgets the client and keeps the
\* cache (a connect still pending is left to itself), ignite stores the resolved
\* providers and starts the server.
ShutDownMem0(c) ==
    /\ cycle[c].step = "reconnect_mem0"
    /\ \E P \in Providers :
        LET x == WithProviders(Now, P)
        IN  Becomes([x EXCEPT !.up = @ \ {"mem0"}, !.cycle[c].step = "ignite"])
    /\ UNCHANGED << table, applied, strict, late, wired, deferring >>

\* getCanonicalMemoryRepository() !== null.  The repository is there when the
\* flag says so, unless restoreCanonical of another cycle has closed the old
\* one or has just opened the new one.
RepositorySeen ==
    IF \E b \in Cycles : cycle[b].step = "reconnect_canonical"
    THEN UpOrDown(up, "canonical")
    ELSE {up}

\* Connected, failed (which forgets whatever client there is), or timed out
\* and still connecting; then the canonical store is looked at again.
IgniteMem0(c) ==
    /\ cycle[c].step = "ignite"
    /\ \E pending \in BOOLEAN, S \in RepositorySeen :
        /\ pending => late < MaxLate
        /\ \E T \in IF pending THEN {S} ELSE UpOrDown(S, "mem0") :
            Becomes(AfterHandler(
                [Now EXCEPT !.up = T,
                            !.cache = IF S = up THEN @ ELSE Stale], c, "reconnect_mem0"))
        /\ late' = IF pending THEN late + 1 ELSE late
    /\ UNCHANGED << table, applied, strict, wired, deferring >>

\* A connect that was pending ends: the client is set, or there is none any
\* more, also when a later ignition had brought one.
LateConnect ==
    /\ late > 0
    /\ late' = late - 1
    /\ up' \in UpOrDown(up, "mem0")
    /\ UNCHANGED << replayVars, strict, wired, cache, emitted, cooled, running,
                    recent, uses, cycle, deferring >>

\* The drain the cycle awaited has ended (or was none: one was under way).
CycleEnds(c) ==
    /\ cycle[c].step = "drain"
    /\ drain[c].step = "idle"
    /\ Becomes(Finalize(Now, c))
    /\ UNCHANGED << table, applied, strict, late, wired, deferring >>

HandlerStep(c) ==
    \/ Reconnect(c)
    \/ ResolveProviders(c)
    \/ ShutDownMem0(c)
    \/ IgniteMem0(c)
    \/ CycleEnds(c)

-----------------------------------------------------------------------------
\* The clocks: the second of the cache, the 30 s of a reason, the hour of the
\* oldest cycle.  A cycle begins in the synchronous block that emits its
\* trigger, so that the two windows of a reason end together.
CacheExpires ==
    /\ cache # Stale
    /\ cache' = Stale
    /\ UNCHANGED << replayVars, strict, up, late, wired, emitted, cooled, running,
                    recent, uses, cycle, deferring >>

WindowEnds(r) ==
    /\ r \in emitted
    /\ emitted' = emitted \ {r}
    /\ cooled' = cooled \ {r}
    /\ UNCHANGED << replayVars, strict, up, late, wired, cache, running,
                    recent, uses, cycle, deferring >>

HourPasses ==
    /\ recent > 0
    /\ recent' = recent - 1
    /\ UNCHANGED << replayVars, strict, up, late, wired, cache, emitted, cooled,
                    running, uses, cycle, deferring >>

Clock == CacheExpires \/ HourPasses \/ \E r \in Reasons : WindowEnds(r)

\* The process dies and starts again: only the table survives.
Restart ==
    /\ \E S \in States : Startup(S)
    /\ cache' = Stale
    /\ emitted' = {}
    /\ cooled' = {}
    /\ running' = FALSE
    /\ recent' = 0
    /\ uses' = [a \in Handlers |-> 0]
    /\ cycle' = [c \in Cycles |-> IdleCycle]
    /\ deferring' = {}
    /\ draining' = FALSE
    /\ drain' = [d \in Drainers |-> IdleDrain]
    /\ UNCHANGED << table, applied, strict >>

ReplayStep ==
    /\ (\E d \in Drainers : DrainStep(d)) \/ (\E i \in Items : BackoffEnds(i))
    /\ UNCHANGED repairVars

Next ==
    \/ EvaluateHealth
    \/ SchedulerRun
    \/ \E i \in Items : StoreMemories(i) \/ Enqueue(i) \/ DropEnqueue(i)
    \/ \E c \in Cycles : HandlerStep(c)
    \/ ReplayStep
    \/ LateConnect
    \/ Clock
    \/ Restart

Spec == Init /\ [][Next]_vars

-----------------------------------------------------------------------------
(***************************************************************************)
(* Properties.                                                             *)
(***************************************************************************)

\* Types of the queue and the executor.
TypeOK ==
    /\ table \in [Items -> Rows]
    /\ draining \in BOOLEAN
    /\ drain \in [Drainers -> DrainStates]
    /\ applied \in [Items -> Nat]
    /\ strict \in BOOLEAN /\ late \in 0..MaxLate /\ wired \in BOOLEAN
    /\ up \in SUBSET Capabilities
    /\ cache \in (SUBSET Capabilities) \cup {Stale}
    /\ emitted \subseteq Reasons /\ cooled \subseteq Reasons
    /\ running \in BOOLEAN
    /\ recent \in Nat
    /\ uses \in [Handlers -> 0..MaxUses]
    /\ cycle \in [Cycles -> [step : CycleSteps, todo : SUBSET Actions,
                              status : SUBSET Capabilities, read : 0..MaxUses]]
    /\ deferring \subseteq Items

\* Rows a drain has in hand.
InHand(d) == drain[d].batch \cup ({drain[d].item} \ {NoItem})

\* Two drains may be under way at once, because the health is evaluated
\* between the check of the flag and its assignment; all the same no row is in
\* the hands of both, and a row in hand is not up for another claim.
OneWorkerPerRow ==
    /\ \A d, e \in Drainers : d # e => InHand(d) \cap InHand(e) = {}
    /\ \A d \in Drainers : \A i \in InHand(d) : table[i].status \in {"in_progress", "completed"}

\* A repair storm stays bounded although a cycle may begin inside the
\* evaluation that another one has passed its guards for: at most one more
\* cycle than the cap within the hour.
StormBounded == recent <= MaxCycles + 1

\* The flag that turns triggers away is set only while a cycle is under way:
\* none of the early ends of a cycle, and no overlap of two, leaves it behind
\* to block every later repair.
FlagHasCycle == running => \E c \in Cycles : cycle[c].step # "idle"

\* The mapping of the abstract queue.  A completed row whose completion seems
\* to have failed is owed until the drain that holds it has dealt with it.
Revoked(i) == \E d \in Drainers : drain[d].step = "fail" /\ drain[d].item = i

PromiseState ==
    [i \in Items |->
        CASE table[i].status = "absent" -> "none"
          [] table[i].status = "dead_letter" -> "given_up"
          [] table[i].status = "completed" /\ ~Revoked(i) -> "done"
          [] OTHER -> "owed"]

Promise == INSTANCE ReplayPromise
           WITH state <- PromiseState, tries <- [i \in Items |-> table[i].attempts]

\* The queue keeps its promise (see ReplayPromise): claims, drains of several
\* callers, lost replies of the database and restarts only ever make steps of
\* the abstract queue.
ReplayKeepsPromise == Promise!PromiseSpec

\* "concurrent runRepairCycle call returns skipped immediately"
\* (tests/MemoryRepairExecutionService.test.ts:441): never are two repair
\* cycles under way.
OneCycleAtATime ==
    \A b, c \in Cycles : cycle[b].step # "idle" /\ cycle[c].step # "idle" => b = c
=============================================================================
