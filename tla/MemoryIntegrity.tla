-------------------------- MODULE MemoryIntegrity --------------------------
(***************************************************************************)
(* What the health of the memory subsystem is, as MemoryIntegrityPolicy    *)
(* derives it from the capabilities that are up, and what the repair       *)
(* executor makes of it: the reason it reports and the plan it follows.    *)
(***************************************************************************)
EXTENDS Naturals

Capabilities ==
    {"canonical", "mem0", "extraction", "embeddings", "graph", "rag"}

\* MemoryFailureReason, one per missing capability; "canonical_only" is
\* mem0_mode_canonical_only, "unknown" what the scheduler asks for when nothing
\* it analysed says more.
Reasons == Capabilities \cup {"canonical_only", "unknown"}

Core == {"extraction", "embeddings", "mem0"}

\* _deriveState.  The mode of MemoryProviderResolver is canonical_only exactly
\* when there are no embeddings.
StateOf(up, strict) ==
    CASE "canonical" \notin up              -> "critical"
      [] "canonical" \in up /\ strict /\ ~(Core \subseteq up) -> "disabled"
      [] "canonical" \in up /\ Core \subseteq up -> "healthy"
      [] "canonical" \in up /\ ~strict /\ "embeddings" \notin up -> "degraded"
      [] OTHER                              -> "reduced"

HardDisabled(up, strict) == StateOf(up, strict) \in {"critical", "disabled"}

Acceptable(up, strict) == StateOf(up, strict) \in {"healthy", "reduced"}

CanonicalOnly(up) ==
    /\ {"canonical", "mem0"} \subseteq up
    /\ up \cap {"extraction", "embeddings"} = {}

ReasonsOf(up) ==
    (Capabilities \ up) \cup {r \in {"canonical_only"} : CanonicalOnly(up)}

ShouldTriggerRepair(up, strict) ==
    \/ StateOf(up, strict) \in {"critical", "degraded"}
    \/ ~({"graph", "rag"} \subseteq up)

Priority ==
    [canonical |-> 1, mem0 |-> 2, canonical_only |-> 3, extraction |-> 4,
     embeddings |-> 5, graph |-> 6, rag |-> 7, unknown |-> 8]

\* _pickPrimaryReason
PrimaryReason(up) ==
    CHOOSE r \in ReasonsOf(up) : \A q \in ReasonsOf(up) : Priority[r] <= Priority[q]

-----------------------------------------------------------------------------
Handlers ==
    {"reconnect_canonical", "reconnect_mem0", "re_resolve_providers",
     "reconnect_graph", "reconnect_rag"}

Actions == Handlers \cup {"drain_deferred_work"}

Order ==
    [reconnect_canonical |-> 1, reconnect_mem0 |-> 2, re_resolve_providers |-> 3,
     reconnect_graph |-> 4, reconnect_rag |-> 5, drain_deferred_work |-> 6]

First(plan) == CHOOSE a \in plan : \A b \in plan : Order[a] <= Order[b]

\* _buildRepairPlan, without re_evaluate_health: it follows an evaluation with
\* no await between them and reads the cached status again.
Plan(up) ==
    {a \in Actions :
        \/ a = "reconnect_canonical" /\ "canonical" \notin up
        \/ a = "reconnect_mem0" /\ ("mem0" \notin up \/ CanonicalOnly(up))
        \/ a = "re_resolve_providers" /\ ~({"extraction", "embeddings"} \subseteq up)
        \/ a = "reconnect_graph" /\ "graph" \notin up
        \/ a = "reconnect_rag" /\ "rag" \notin up
        \/ a = "drain_deferred_work" /\ "canonical" \in up}
=============================================================================
