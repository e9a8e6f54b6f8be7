--------------------------- MODULE DeferredReplay ---------------------------
(***************************************************************************)
(* The deferred_memory_work table and the drains that replay it            *)
(* (DeferredMemoryReplayService over DeferredMemoryWorkRepository): follow- *)
(* up work of a memory write is stored while a capability is missing and   *)
(* replayed in batches later, with a back-off and a dead letter.  A drain  *)
(* is owned by its caller; the flag that admits one drain at a time is     *)
(* shared.                                                                 *)
(***************************************************************************)
EXTENDS Naturals, FiniteSets

CONSTANTS
    Items,        \* rows that may be enqueued
    KindOf,       \* of each: extraction, embedding or graph_projection
    Registered,   \* kinds with a registered handler (none in AgentService)
    MaxAttempts,  \* max_attempts of a row: 3 in the code
    BatchSize,    \* DRAIN_BATCH_SIZE: 25 in the code
    Drainers,     \* who may call drain
    NoItem

Kinds == {"extraction", "embedding", "graph_projection"}

ASSUME ReplayAssumption ==
    /\ KindOf \in [Items -> Kinds]
    /\ Registered \subseteq Kinds
    /\ MaxAttempts \in Nat \ {0}
    /\ BatchSize \in Nat \ {0}
    /\ NoItem \notin Items

VARIABLES
    table,     \* deferred_memory_work, in the database
    draining,  \* DeferredMemoryReplayService._draining
    drain,     \* the drain each caller awaits
    applied    \* history: how often the handler of a row did its work

replayVars == << table, draining, drain, applied >>

Statuses == {"absent", "pending", "in_progress", "completed", "dead_letter"}

Rows == [status : Statuses, attempts : 0..MaxAttempts, due : BOOLEAN]

Steps == {"idle", "claim", "next", "run", "complete", "fail"}

DrainStates ==
    [step : Steps, kinds : SUBSET Kinds, batch : SUBSET Items, item : Items \cup {NoItem}]

NoRow == [status |-> "absent", attempts |-> 0, due |-> FALSE]

IdleDrain == [step |-> "idle", kinds |-> {}, batch |-> {}, item |-> NoItem]

ReplayInit ==
    /\ table = [i \in Items |-> NoRow]
    /\ draining = FALSE
    /\ drain = [d \in Drainers |-> IdleDrain]
    /\ applied = [i \in Items |-> 0]

-----------------------------------------------------------------------------
\* _eligibleKinds
EligibleKinds(up) ==
    {k \in Kinds :
        \/ k = "extraction" /\ "extraction" \in up
        \/ k = "embedding" /\ "embeddings" \in up
        \/ k = "graph_projection" /\ "graph" \in up}

DrainOf(kinds) == [IdleDrain EXCEPT !.step = "claim", !.kinds = kinds]

Inserted == [status |-> "pending", attempts |-> 0, due |-> TRUE]

Insert(i) ==
    /\ table[i].status = "absent"
    /\ table' = [table EXCEPT ![i] = Inserted]
    /\ UNCHANGED << draining, drain, applied >>

\* next_attempt_at <= NOW()
BackoffEnds(i) ==
    /\ table[i].status = "pending"
    /\ ~table[i].due
    /\ table' = [table EXCEPT ![i].due = TRUE]
    /\ UNCHANGED << draining, drain, applied >>

Claimable(kinds) ==
    {i \in Items : table[i].status = "pending" /\ table[i].due /\ KindOf[i] \in kinds}

\* What one UPDATE ... LIMIT batchSize RETURNING may take.
Batches(kinds) ==
    {S \in SUBSET Claimable(kinds) :
        \/ Cardinality(S) = BatchSize
        \/ Cardinality(S) < BatchSize /\ S = Claimable(kinds)}

\* Mutant: the rows are read and not marked.
Claimed_Mutant(S) == table

Claimed(S) ==
    [i \in Items |-> IF i \in S THEN [table[i] EXCEPT !.status = "in_progress"] ELSE table[i]]

\* The loop goes on with the rest of the batch; the finally block ends it and
\* frees the flag, whoever has set it.
Continue(d, rest) ==
    IF rest = {}
    THEN /\ drain' = [drain EXCEPT ![d] = IdleDrain]
         /\ draining' = FALSE
    ELSE /\ drain' = [drain EXCEPT ![d] = [IdleDrain EXCEPT !.step = "next", !.batch = rest]]
         /\ UNCHANGED draining

ClaimBatch(d) ==
    /\ drain[d].step = "claim"
    /\ \E S \in Batches(drain[d].kinds) :
        /\ table' = Claimed(S)
        /\ Continue(d, S)
    /\ UNCHANGED applied

\* claimBatch throws, before or after the database has committed it.
ClaimThrows(d) ==
    /\ drain[d].step = "claim"
    /\ \E S \in Batches(drain[d].kinds) \cup {{}} : table' = Claimed(S)
    /\ Continue(d, {})
    /\ UNCHANGED applied

\* A row without a handler fails at once.
TakeItem(d) ==
    /\ drain[d].step = "next"
    /\ \E i \in drain[d].batch :
        drain' = [drain EXCEPT
            ![d].step = IF KindOf[i] \in Registered THEN "run" ELSE "fail",
            ![d].batch = @ \ {i},
            ![d].item = i]
    /\ UNCHANGED << table, draining, applied >>

\* The handler answers true.
HandlerSucceeds(d) ==
    /\ drain[d].step = "run"
    /\ applied' = [applied EXCEPT ![drain[d].item] = @ + 1]
    /\ drain' = [drain EXCEPT ![d].step = "complete"]
    /\ UNCHANGED << table, draining >>

\* It answers false or throws, and may have done its work all the same.
HandlerFails(d) ==
    /\ drain[d].step = "run"
    /\ \E work \in {0, 1} : applied' = [applied EXCEPT ![drain[d].item] = @ + work]
    /\ drain' = [drain EXCEPT ![d].step = "fail"]
    /\ UNCHANGED << table, draining >>

MarkCompleted(d) ==
    /\ drain[d].step = "complete"
    /\ table' = [table EXCEPT ![drain[d].item].status = "completed"]
    /\ Continue(d, drain[d].batch)
    /\ UNCHANGED applied

\* markCompleted throws, before or after its commit: the catch block of the
\* handler takes it for a failure of the item.
CompletionThrows(d) ==
    /\ drain[d].step = "complete"
    /\ \E committed \in BOOLEAN :
        table' = IF committed
                 THEN [table EXCEPT ![drain[d].item].status = "completed"]
                 ELSE table
    /\ drain' = [drain EXCEPT ![d].step = "fail"]
    /\ UNCHANGED << draining, applied >>

\* Mutant: dead letters one attempt late.
Failed_MutantLate(row) ==
    IF row.attempts >= MaxAttempts
    THEN [row EXCEPT !.status = "dead_letter"]
    ELSE [row EXCEPT !.status = "pending", !.due = FALSE, !.attempts = @ + 1]

\* The UPDATE of markFailed, which does not look at the status of the row.
Failed(row) ==
    [row EXCEPT
        !.attempts = @ + 1,
        !.status = IF row.attempts + 1 >= MaxAttempts THEN "dead_letter" ELSE "pending",
        !.due = FALSE]

MarkFailed(d) ==
    /\ drain[d].step = "fail"
    /\ table' = [table EXCEPT ![drain[d].item] = Failed(@)]
    /\ Continue(d, drain[d].batch)
    /\ UNCHANGED applied

\* markFailed throws without having written; only logged.  (If it has written,
\* the drain goes on as after MarkFailed.)
MarkFailedThrows(d) ==
    /\ drain[d].step = "fail"
    /\ Continue(d, drain[d].batch)
    /\ UNCHANGED << table, applied >>

DrainStep(d) ==
    \/ ClaimBatch(d)
    \/ ClaimThrows(d)
    \/ TakeItem(d)
    \/ HandlerSucceeds(d)
    \/ HandlerFails(d)
    \/ MarkCompleted(d)
    \/ CompletionThrows(d)
    \/ MarkFailed(d)
    \/ MarkFailedThrows(d)
=============================================================================
