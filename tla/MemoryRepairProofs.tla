------------------------- MODULE MemoryRepairProofs -------------------------
(***************************************************************************)
(* Proofs about MemoryRepair, for any rows, handlers, caps, number of      *)
(* cycles under way, and capabilities that may be missing.                 *)
(*                                                                         *)
(* The synchronous blocks of the code are operators on a record; the first *)
(* half shows what each of them preserves, the second what the steps of    *)
(* the queue do.  The properties rest on facts they do not mention: a      *)
(* cycle waits for a handler only while the use it is about to count fits  *)
(* under the cap; a row in the hands of a drain is in progress, unless its *)
(* completion was written and its reply was lost; and the work of a row    *)
(* that may be claimed was done at most as often as its failures count.    *)
(***************************************************************************)
EXTENDS MemoryRepair, FiniteSetTheorems, TLAPS

CycleStates ==
    [step : CycleSteps, todo : SUBSET Actions,
     status : SUBSET Capabilities, read : 0..MaxUses]

CacheValues == (SUBSET Capabilities) \cup {Stale}

\* What a synchronous block computes with.
Blocks ==
    [up : SUBSET Capabilities, cache : CacheValues,
     emitted : SUBSET Reasons, cooled : SUBSET Reasons,
     running : BOOLEAN, recent : Nat, uses : [Handlers -> 0..MaxUses],
     cycle : [Cycles -> CycleStates], draining : BOOLEAN,
     drain : [Drainers -> DrainStates], overflow : BOOLEAN]

\* A cycle that waits for a handler may count one more use of it.
MayCount(k) == k.step \in Handlers \cup {"ignite"} => k.read < MaxUses

BlockOK(x) == x \in Blocks /\ \A c \in Cycles : MayCount(x.cycle[c])

\* The flag of x belongs to a cycle.
FlagOK(x) == x.running => \E c \in Cycles : x.cycle[c].step # "idle"

\* A block begins drains, and does nothing else to them.
DrainsOnlyBegin(x, y) ==
    \A d \in Drainers :
        \/ y.drain[d] = x.drain[d]
        \/ \E kinds \in SUBSET Kinds : y.drain[d] = DrainOf(kinds)

\* What every finished block guarantees.
Calm(x) == BlockOK(x) /\ FlagOK(x) /\ x.recent <= MaxCycles + 1

\* What the parts of a block have in common.
Keeps(x, y) == BlockOK(y) /\ DrainsOnlyBegin(x, y) /\ y.cache = x.cache

-----------------------------------------------------------------------------
(***************************************************************************)
(* The choices among reasons and actions.                                  *)
(***************************************************************************)

\* Some reason comes first.
LEMMA PrimaryExists ==
    ASSUME NEW R \in SUBSET Reasons, R # {}
    PROVE  \E r \in R : \A q \in R : Priority[r] <= Priority[q]
<1> USE DEF Priority, Reasons, Capabilities
<1>1. CASE "canonical" \in R
  BY <1>1
<1>2. CASE "canonical" \notin R /\ "mem0" \in R
  BY <1>2
<1>3. CASE R \cap {"canonical", "mem0"} = {} /\ "canonical_only" \in R
  BY <1>3
<1>4. CASE R \cap {"canonical", "mem0", "canonical_only"} = {} /\ "extraction" \in R
  BY <1>4
<1>5. CASE R \cap {"canonical", "mem0", "canonical_only", "extraction"} = {}
           /\ "embeddings" \in R
  BY <1>5
<1>6. CASE R \subseteq {"graph", "rag", "unknown"} /\ "graph" \in R
  BY <1>6
<1>7. CASE R \subseteq {"rag", "unknown"} /\ "rag" \in R
  BY <1>7
<1>8. CASE R \subseteq {"unknown"}
  <2>1. R = {"unknown"}
    BY <1>8
  <2> QED BY <2>1
<1> QED BY <1>1, <1>2, <1>3, <1>4, <1>5, <1>6, <1>7, <1>8

\* A health that asks for a repair has a reason.
LEMMA TriggerHasReason ==
    ASSUME NEW S \in SUBSET Capabilities, NEW hard \in BOOLEAN,
           ShouldTriggerRepair(S, hard)
    PROVE  PrimaryReason(S) \in Reasons
<1>1. ReasonsOf(S) \in SUBSET Reasons
  BY DEF ReasonsOf, Reasons
<1>2. ReasonsOf(S) # {}
  <2> SUFFICES ASSUME ReasonsOf(S) = {} PROVE FALSE
    OBVIOUS
  <2>1. S = Capabilities
    BY DEF ReasonsOf
  <2>2. /\ {"canonical", "embeddings"} \subseteq S /\ Core \subseteq S
        /\ {"graph", "rag"} \subseteq S
    BY <2>1 DEF Capabilities, Core
  <2>3. StateOf(S, hard) = "healthy"
    BY <2>2 DEF StateOf
  <2> QED BY <2>2, <2>3 DEF ShouldTriggerRepair
<1>3. PrimaryReason(S) \in ReasonsOf(S)
  BY <1>1, <1>2, PrimaryExists DEF PrimaryReason
<1> QED BY <1>1, <1>3

\* A handler comes before the drain.
LEMMA FirstIsHandler ==
    ASSUME NEW plan \in SUBSET Actions, plan \cap Handlers # {}
    PROVE  First(plan) \in plan \cap Handlers
<1> USE DEF Actions, Handlers, Order
<1>1. \E a \in plan : \A b \in plan : Order[a] <= Order[b]
  <2>1. CASE "reconnect_canonical" \in plan
    BY <2>1
  <2>2. CASE "reconnect_canonical" \notin plan /\ "reconnect_mem0" \in plan
    BY <2>2
  <2>3. CASE plan \cap {"reconnect_canonical", "reconnect_mem0"} = {}
             /\ "re_resolve_providers" \in plan
    BY <2>3
  <2>4. CASE plan \subseteq {"reconnect_graph", "reconnect_rag", "drain_deferred_work"}
             /\ "reconnect_graph" \in plan
    BY <2>4
  <2>5. CASE plan \subseteq {"reconnect_rag", "drain_deferred_work"}
    BY <2>5
  <2> QED BY <2>1, <2>2, <2>3, <2>4, <2>5
<1>2. First(plan) \in plan /\ \A b \in plan : Order[First(plan)] <= Order[b]
  BY <1>1 DEF First
<1>3. First(plan) # "drain_deferred_work"
  BY <1>2
<1> QED BY <1>2, <1>3

-----------------------------------------------------------------------------
(***************************************************************************)
(* The synchronous blocks.                                                 *)
(***************************************************************************)

\* A cached status, or none.
LEMMA CacheTypes ==
    /\ Stale \in CacheValues
    /\ \A S \in SUBSET Capabilities : S \in CacheValues
    /\ \A v \in CacheValues : v # Stale => v \in SUBSET Capabilities
BY DEF CacheValues

\* A drain begins, or there is nothing it could do.
LEMMA DrainsKeeps ==
    ASSUME NEW x, BlockOK(x), NEW d \in Drainers
    PROVE  /\ Keeps(x, Drains(x, d))
           /\ Drains(x, d).recent = x.recent
           /\ Drains(x, d).running = x.running
           /\ Drains(x, d).cycle = x.cycle
           /\ Drains(x, d).overflow = x.overflow
<1> DEFINE k == DrainOf(EligibleKinds(x.cache))
           y == [x EXCEPT !.draining = TRUE, !.drain[d] = k]
<1>1. x \in Blocks
  BY DEF BlockOK
<1>2. EligibleKinds(x.cache) \in SUBSET Kinds
  BY DEF EligibleKinds
<1>3. k \in DrainStates
  BY <1>2 DEF DrainOf, IdleDrain, DrainStates, Steps
<1>4. /\ y \in Blocks
      /\ y.drain = [x.drain EXCEPT ![d] = k]
      /\ y.cycle = x.cycle /\ y.recent = x.recent /\ y.running = x.running
      /\ y.cache = x.cache /\ y.overflow = x.overflow
  BY <1>1, <1>3 DEF Blocks
<1>5. DrainsOnlyBegin(x, y) /\ DrainsOnlyBegin(x, x)
  BY <1>1, <1>2, <1>4 DEF DrainsOnlyBegin, Blocks
<1> QED BY <1>4, <1>5 DEF Drains, Keeps, BlockOK

\* The end of a cycle.
LEMMA FinalizeKeeps ==
    ASSUME NEW x, BlockOK(x), NEW c \in Cycles
    PROVE  /\ Keeps(x, Finalize(x, c))
           /\ Finalize(x, c).recent = x.recent
           /\ Finalize(x, c).running = FALSE
           /\ Finalize(x, c).overflow = x.overflow
<1> DEFINE y == Finalize(x, c)
<1>1. x \in Blocks
  BY DEF BlockOK
<1>2. /\ IdleCycle \in CycleStates /\ MayCount(IdleCycle)
  BY RepairAssumption DEF IdleCycle, CycleStates, CycleSteps, MayCount, Handlers
<1>3. /\ y \in Blocks
      /\ y.cycle = [x.cycle EXCEPT ![c] = IdleCycle]
      /\ y.drain = x.drain /\ y.recent = x.recent /\ y.running = FALSE
      /\ y.cache = x.cache /\ y.overflow = x.overflow
  BY <1>1, <1>2 DEF Finalize, Blocks
<1>4. \A b \in Cycles : MayCount(y.cycle[b])
  BY <1>1, <1>2, <1>3 DEF Blocks, BlockOK
<1> QED BY <1>3, <1>4 DEF Keeps, BlockOK, DrainsOnlyBegin

\* The loop over the plan: a handler is used only below its cap, and the flag
\* stays only with a cycle that awaits something.
LEMMA AdvanceKeeps ==
    ASSUME NEW x, BlockOK(x), NEW c \in Cycles
    PROVE  /\ Keeps(x, Advance(x, c))
           /\ Advance(x, c).recent = x.recent
           /\ Advance(x, c).overflow = x.overflow
           /\ Advance(x, c).running => Advance(x, c).cycle[c].step # "idle"
<1> DEFINE k    == x.cycle[c]
           good == Acceptable(k.status, strict)
           left == IF good THEN {} ELSE {a \in k.todo : a \in Handlers => MayUse(x, a)}
           next == First(left)
           waits == [k EXCEPT !.step = next, !.todo = left \ {next}, !.read = x.uses[next]]
           drains == [IdleCycle EXCEPT !.step = "drain"]
<1>1. x \in Blocks /\ k \in CycleStates /\ left \in SUBSET Actions
  BY DEF BlockOK, Blocks, CycleStates
<1>2. CASE left \cap Handlers # {}
  <2> DEFINE y == [x EXCEPT !.cycle[c] = waits]
  <2>1. Advance(x, c) = y
    BY <1>2 DEF Advance
  <2>2. next \in left \cap Handlers
    BY <1>1, <1>2, FirstIsHandler
  <2>3. x.uses[next] \in 0..MaxUses /\ x.uses[next] < MaxUses
    <3>1. MayUse(x, next)
      BY <2>2
    <3> QED BY <1>1, <2>2, <3>1 DEF Blocks, MayUse
  <2>4. next \in CycleSteps /\ next # "idle"
    BY <2>2 DEF CycleSteps, Handlers
  <2>5. waits \in CycleStates /\ MayCount(waits) /\ waits.step = next
    BY <1>1, <2>3, <2>4 DEF CycleStates, MayCount
  <2>6. /\ y \in Blocks /\ y.cycle = [x.cycle EXCEPT ![c] = waits]
        /\ y.drain = x.drain /\ y.recent = x.recent
        /\ y.cache = x.cache /\ y.overflow = x.overflow
    BY <1>1, <2>5 DEF Blocks
  <2>7. \A b \in Cycles : MayCount(y.cycle[b])
    BY <1>1, <2>5, <2>6 DEF Blocks, BlockOK
  <2>8. y.cycle[c].step # "idle"
    BY <1>1, <2>4, <2>5, <2>6 DEF Blocks
  <2> QED BY <2>1, <2>6, <2>7, <2>8 DEF Keeps, BlockOK, DrainsOnlyBegin
<1>3. CASE /\ left \cap Handlers = {}
           /\ good \/ left # {}
           /\ wired
           /\ "canonical" \in k.status
  <2> DEFINE y == [x EXCEPT !.cycle[c] = drains]
  <2>1. Advance(x, c) = IF x.draining THEN y ELSE Drains(y, c)
    BY <1>3 DEF Advance
  <2>2. /\ drains \in CycleStates /\ MayCount(drains) /\ drains.step = "drain"
    BY RepairAssumption DEF IdleCycle, CycleStates, CycleSteps, MayCount, Handlers
  <2>3. /\ y \in Blocks /\ y.cycle = [x.cycle EXCEPT ![c] = drains]
        /\ y.drain = x.drain /\ y.recent = x.recent
        /\ y.cache = x.cache /\ y.overflow = x.overflow
    BY <1>1, <2>2 DEF Blocks
  <2>4. BlockOK(y) /\ y.cycle[c].step = "drain"
    BY <1>1, <2>2, <2>3 DEF Blocks, BlockOK
  <2>5. c \in Drainers
    BY RepairAssumption
  <2>6. /\ Keeps(y, Drains(y, c))
        /\ Drains(y, c).recent = y.recent /\ Drains(y, c).cycle = y.cycle
        /\ Drains(y, c).overflow = y.overflow
    BY <2>4, <2>5, DrainsKeeps
  <2>7. Keeps(x, y) /\ Keeps(x, Drains(y, c))
    BY <2>3, <2>4, <2>6 DEF Keeps, DrainsOnlyBegin
  <2> QED BY <2>1, <2>3, <2>4, <2>6, <2>7
<1>4. CASE /\ left \cap Handlers = {}
           /\ ~((good \/ left # {}) /\ wired /\ "canonical" \in k.status)
  <2>1. Advance(x, c) = Finalize(x, c)
    BY <1>4 DEF Advance
  <2> QED BY <2>1, FinalizeKeeps
<1> QED BY <1>2, <1>3, <1>4

\* A cycle begins, unless the instance has no slot left for it.
LEMMA BeginKeeps ==
    ASSUME NEW x, BlockOK(x), NEW r \in Reasons, x.cache \in SUBSET Capabilities
    PROVE  /\ Keeps(x, Begin(x, r))
           /\ Begin(x, r).recent \in {x.recent, x.recent + 1}
           /\ FlagOK(x) => FlagOK(Begin(x, r))
<1>1. x \in Blocks
  BY DEF BlockOK
<1>2. CASE \A b \in Cycles : x.cycle[b].step # "idle"
  <2> DEFINE y == [x EXCEPT !.overflow = TRUE]
  <2>1. Begin(x, r) = y
    BY <1>2 DEF Begin
  <2>2. /\ y \in Blocks /\ y.cycle = x.cycle /\ y.drain = x.drain
        /\ y.recent = x.recent /\ y.cache = x.cache /\ y.running = x.running
    BY <1>1 DEF Blocks
  <2> QED BY <2>1, <2>2 DEF Keeps, BlockOK, DrainsOnlyBegin, FlagOK
<1>3. CASE ~ \A b \in Cycles : x.cycle[b].step # "idle"
  <2> DEFINE c == CHOOSE c \in Cycles : x.cycle[c].step = "idle"
             y == [x EXCEPT !.running = TRUE,
                            !.cooled = @ \cup {r},
                            !.recent = @ + 1,
                            !.cycle[c].status = x.cache,
                            !.cycle[c].todo = Plan(x.cache)]
             out == IF StateOf(x.cache, strict) = "disabled" THEN Finalize(y, c)
                                                            ELSE Advance(y, c)
  <2>1. Begin(x, r) = out
    BY <1>3 DEF Begin
  <2>2. c \in Cycles /\ x.cycle[c].step = "idle"
    BY <1>3
  <2> HIDE DEF c
  <2>3. Plan(x.cache) \in SUBSET Actions
    BY DEF Plan
  <2> DEFINE k == [x.cycle[c] EXCEPT !.status = x.cache, !.todo = Plan(x.cache)]
  <2>4. x.cycle[c] \in CycleStates
    BY <1>1, <2>2 DEF Blocks
  <2>5. k \in CycleStates /\ k.step = "idle"
    BY <2>2, <2>3, <2>4 DEF CycleStates
  <2>6. y.cycle = [x.cycle EXCEPT ![c] = k]
    BY <1>1, <2>2, <2>4 DEF Blocks, CycleStates
  <2>7. /\ y \in Blocks /\ y.drain = x.drain /\ y.recent = x.recent + 1
        /\ y.cache = x.cache
    <3> DEFINE w1 == [x EXCEPT !.running = TRUE, !.cooled = @ \cup {r}, !.recent = @ + 1]
               w2 == [w1 EXCEPT !.cycle[c].status = x.cache]
               w3 == [w2 EXCEPT !.cycle[c].todo = Plan(x.cache)]
    <3>1. /\ w1 \in Blocks /\ w1.cycle = x.cycle /\ w1.drain = x.drain
          /\ w1.recent = x.recent + 1 /\ w1.cache = x.cache
      <4>1. x.cooled \cup {r} \in SUBSET Reasons /\ x.recent + 1 \in Nat
        BY <1>1 DEF Blocks
      <4>2. w1 = [x EXCEPT !.running = TRUE, !.cooled = x.cooled \cup {r},
                           !.recent = x.recent + 1]
        BY <1>1 DEF Blocks
      <4>3. w1 \in Blocks
        BY <1>1, <4>1, <4>2 DEF Blocks
      <4>4. /\ w1.cycle = x.cycle /\ w1.drain = x.drain
            /\ w1.recent = x.recent + 1 /\ w1.cache = x.cache
        BY <1>1, <4>2 DEF Blocks
      <4> QED BY <4>3, <4>4
    <3> HIDE DEF w1
    <3>2. [x.cycle[c] EXCEPT !.status = x.cache] \in CycleStates
      BY <2>4 DEF CycleStates
    <3>3. /\ w2 \in Blocks
          /\ w2.cycle[c] = [x.cycle[c] EXCEPT !.status = x.cache]
          /\ w2.drain = w1.drain /\ w2.recent = w1.recent /\ w2.cache = w1.cache
      BY <2>2, <3>1, <3>2 DEF Blocks
    <3> HIDE DEF w2
    <3>4. [w2.cycle[c] EXCEPT !.todo = Plan(x.cache)] \in CycleStates
      BY <2>3, <3>2, <3>3 DEF CycleStates
    <3>5. /\ w3 \in Blocks
          /\ w3.drain = w2.drain /\ w3.recent = w2.recent /\ w3.cache = w2.cache
      BY <2>2, <3>3, <3>4 DEF Blocks
    <3>6. y = w3
      BY DEF w1, w2
    <3> QED BY <3>1, <3>3, <3>5, <3>6
  <2>8. MayCount(k)
    BY <2>5 DEF MayCount, Handlers
  <2>9. BlockOK(y)
    BY <1>1, <2>6, <2>7, <2>8 DEF BlockOK, Blocks
  <2> HIDE DEF y
  <2>10. /\ Keeps(y, Finalize(y, c)) /\ Finalize(y, c).recent = y.recent
         /\ Finalize(y, c).running = FALSE
    BY <2>2, <2>9, FinalizeKeeps
  <2>11. /\ Keeps(y, Advance(y, c)) /\ Advance(y, c).recent = y.recent
         /\ Advance(y, c).running => Advance(y, c).cycle[c].step # "idle"
    BY <2>2, <2>9, AdvanceKeeps
  <2>12. Keeps(y, out) /\ out.recent = x.recent + 1 /\ FlagOK(out)
    BY <2>2, <2>7, <2>10, <2>11 DEF FlagOK
  <2>13. Keeps(x, out)
    BY <2>7, <2>12 DEF Keeps, DrainsOnlyBegin
  <2> QED BY <2>1, <2>12, <2>13
<1> QED BY <1>2, <1>3

\* Two blocks in a row.
LEMMA DrainsTransitive ==
    ASSUME NEW x, NEW y, NEW z, DrainsOnlyBegin(x, y), DrainsOnlyBegin(y, z)
    PROVE  DrainsOnlyBegin(x, z)
BY DEF DrainsOnlyBegin

\* getHealthStatus leaves a fresh status, and may have begun one cycle below
\* the cap.
LEMMA EvaluatedKeeps ==
    ASSUME NEW x, BlockOK(x), strict \in BOOLEAN
    PROVE  /\ BlockOK(Evaluated(x))
           /\ DrainsOnlyBegin(x, Evaluated(x))
           /\ Evaluated(x).cache \in SUBSET Capabilities
           /\ FlagOK(x) => FlagOK(Evaluated(x))
           /\ \/ Evaluated(x).recent = x.recent
              \/ x.recent < MaxCycles /\ Evaluated(x).recent = x.recent + 1
<1> DEFINE p == PrimaryReason(x.up)
           y == [x EXCEPT !.cache = x.up]
           z == [y EXCEPT !.emitted = @ \cup {p}]
<1>1. x \in Blocks
  BY DEF BlockOK
<1>2. CASE x.cache # Stale
  <2>1. Evaluated(x) = x
    BY <1>2 DEF Evaluated
  <2>2. x.cache \in SUBSET Capabilities
    <3>1. x.cache \in CacheValues
      BY <1>1 DEF Blocks
    <3> QED BY <1>2, <3>1, CacheTypes
  <2>3. DrainsOnlyBegin(x, x)
    BY DEF DrainsOnlyBegin
  <2>4. Evaluated(x).recent = x.recent /\ Evaluated(x).cache = x.cache
    BY <2>1
  <2>5. BlockOK(Evaluated(x)) /\ DrainsOnlyBegin(x, Evaluated(x))
    BY <2>1, <2>3
  <2>6. FlagOK(x) => FlagOK(Evaluated(x))
    BY <2>1
  <2> QED BY <2>2, <2>4, <2>5, <2>6
<1>3. CASE x.cache = Stale
  <2>1. /\ y \in Blocks /\ y.cache = x.up /\ y.cache \in SUBSET Capabilities
        /\ y.cycle = x.cycle /\ y.drain = x.drain
        /\ y.recent = x.recent /\ y.running = x.running
    <3>1. x.up \in SUBSET Capabilities /\ x.up \in CacheValues
      BY <1>1, CacheTypes DEF Blocks
    <3> QED BY <1>1, <3>1 DEF Blocks
  <2>2. BlockOK(y) /\ DrainsOnlyBegin(x, y) /\ (FlagOK(x) => FlagOK(y))
    BY <2>1 DEF BlockOK, DrainsOnlyBegin, FlagOK
  <2>3. CASE ~ShouldTriggerRepair(x.up, strict) \/ p \in x.emitted
    <3>1. Evaluated(x) = y
      BY <1>3, <2>3 DEF Evaluated
    <3> QED BY <2>1, <2>2, <3>1
  <2>4. CASE ~(~ShouldTriggerRepair(x.up, strict) \/ p \in x.emitted)
    <3>1. x.up \in SUBSET Capabilities
      BY <1>1 DEF Blocks
    <3>2. p \in Reasons
      BY <2>4, <3>1, TriggerHasReason
    <3> HIDE DEF y, p
    <3>3. /\ z \in Blocks /\ z.cache = y.cache /\ z.cycle = y.cycle /\ z.drain = y.drain
          /\ z.recent = y.recent /\ z.running = y.running
      BY <2>1, <3>2 DEF Blocks
    <3>4. BlockOK(z) /\ DrainsOnlyBegin(x, z) /\ (FlagOK(x) => FlagOK(z))
      BY <2>1, <2>2, <3>3 DEF BlockOK, DrainsOnlyBegin, FlagOK
    <3>5. Evaluated(x) = IF Guards(z, p) THEN z ELSE Begin(z, p)
      BY <1>3, <2>4 DEF Evaluated, y, p
    <3>6. z.recent = x.recent /\ z.cache \in SUBSET Capabilities
      BY <2>1, <3>3
    <3> HIDE DEF z
    <3>7. CASE Guards(z, p)
      BY <3>4, <3>5, <3>6, <3>7
    <3>8. CASE ~Guards(z, p)
      <4>1. /\ Keeps(z, Begin(z, p))
            /\ Begin(z, p).recent \in {z.recent, z.recent + 1}
            /\ FlagOK(z) => FlagOK(Begin(z, p))
        BY <3>2, <3>4, <3>6, BeginKeeps
      <4>2. z.recent < MaxCycles
        <5>1. z.recent \in Nat /\ MaxCycles \in Nat
          BY <3>4, RepairAssumption DEF BlockOK, Blocks
        <5> QED BY <3>8, <5>1 DEF Guards
      <4>3. DrainsOnlyBegin(x, Begin(z, p))
        BY <3>4, <4>1, DrainsTransitive DEF Keeps
      <4> QED BY <3>4, <3>5, <3>6, <3>8, <4>1, <4>2, <4>3 DEF Keeps
    <3> QED BY <3>7, <3>8
  <2> QED BY <2>3, <2>4
<1> QED BY <1>2, <1>3

\* The same, for what every finished block guarantees.
LEMMA EvaluatedCalm ==
    ASSUME NEW x, Calm(x), strict \in BOOLEAN
    PROVE  /\ Calm(Evaluated(x))
           /\ DrainsOnlyBegin(x, Evaluated(x))
           /\ Evaluated(x).cache \in SUBSET Capabilities
           /\ x.recent < MaxCycles => Evaluated(x).recent <= MaxCycles
<1>1. x.recent \in Nat /\ MaxCycles \in Nat
  BY RepairAssumption DEF Calm, BlockOK, Blocks
<1>2. /\ BlockOK(Evaluated(x)) /\ FlagOK(Evaluated(x))
      /\ DrainsOnlyBegin(x, Evaluated(x))
      /\ Evaluated(x).cache \in SUBSET Capabilities
      /\ \/ Evaluated(x).recent = x.recent
         \/ x.recent < MaxCycles /\ Evaluated(x).recent = x.recent + 1
  BY EvaluatedKeeps DEF Calm
<1>3. Evaluated(x).recent <= MaxCycles + 1
  BY <1>1, <1>2 DEF Calm
<1>4. x.recent < MaxCycles => Evaluated(x).recent <= MaxCycles
  BY <1>1, <1>2
<1> QED BY <1>2, <1>3, <1>4 DEF Calm

\* emitDirect may begin a cycle inside the evaluation and one after it: that is
\* the one more than the cap.
LEMMA TriggeredCalm ==
    ASSUME NEW x, Calm(x), NEW r \in Reasons, strict \in BOOLEAN
    PROVE  Calm(Triggered(x, r)) /\ DrainsOnlyBegin(x, Triggered(x, r))
<1> DEFINE y == [x EXCEPT !.emitted = @ \cup {r}]
           z == Evaluated(y)
<1>1. CASE r \in x.emitted
  <2>1. Triggered(x, r) = x
    BY <1>1 DEF Triggered
  <2>2. DrainsOnlyBegin(x, x)
    BY DEF DrainsOnlyBegin
  <2> QED BY <2>1, <2>2
<1>2. CASE r \notin x.emitted
  <2>1. /\ x \in Blocks /\ y \in Blocks /\ y.cycle = x.cycle /\ y.drain = x.drain
        /\ y.recent = x.recent /\ y.running = x.running
    BY DEF Calm, BlockOK, Blocks
  <2>2. Calm(y) /\ DrainsOnlyBegin(x, y)
    BY <2>1 DEF Calm, BlockOK, FlagOK, DrainsOnlyBegin
  <2>3. Triggered(x, r) = IF Guards(y, r) THEN z ELSE Begin(z, r)
    BY <1>2 DEF Triggered
  <2> HIDE DEF y
  <2>4. /\ Calm(z) /\ DrainsOnlyBegin(y, z) /\ z.cache \in SUBSET Capabilities
        /\ y.recent < MaxCycles => z.recent <= MaxCycles
    BY <2>2, EvaluatedCalm
  <2>5. DrainsOnlyBegin(x, z)
    BY <2>2, <2>4, DrainsTransitive
  <2> HIDE DEF z
  <2>6. CASE Guards(y, r)
    BY <2>3, <2>4, <2>5, <2>6
  <2>7. CASE ~Guards(y, r)
    <3>1. /\ Keeps(z, Begin(z, r))
          /\ Begin(z, r).recent \in {z.recent, z.recent + 1}
          /\ FlagOK(Begin(z, r))
      BY <2>4, BeginKeeps DEF Calm
    <3>2. /\ y.recent \in Nat /\ MaxCycles \in Nat /\ z.recent \in Nat
      BY <2>2, <2>4, RepairAssumption DEF Calm, BlockOK, Blocks
    <3>3. z.recent <= MaxCycles
      BY <2>4, <2>7, <3>2 DEF Guards
    <3>4. Begin(z, r).recent <= MaxCycles + 1
      BY <3>1, <3>2, <3>3
    <3>5. Calm(Begin(z, r))
      BY <3>1, <3>4 DEF Calm, Keeps
    <3>6. DrainsOnlyBegin(x, Begin(z, r))
      BY <2>5, <3>1, DrainsTransitive DEF Keeps
    <3> QED BY <2>3, <2>7, <3>5, <3>6
  <2> QED BY <2>6, <2>7
<1> QED BY <1>1, <1>2

\* The scheduler's drain.
LEMMA ReplayedCalm ==
    ASSUME NEW x, Calm(x), strict \in BOOLEAN
    PROVE  Calm(Replayed(x)) /\ DrainsOnlyBegin(x, Replayed(x))
<1> DEFINE z == Evaluated(x)
           y == Drains(z, Scheduler)
<1>1. CASE x.draining
  <2>1. Replayed(x) = x
    BY <1>1 DEF Replayed
  <2>2. DrainsOnlyBegin(x, x)
    BY DEF DrainsOnlyBegin
  <2> QED BY <2>1, <2>2
<1>2. CASE ~x.draining /\ x.drain[Scheduler].step # "idle"
  <2>1. Replayed(x) = [z EXCEPT !.overflow = TRUE]
    BY <1>2 DEF Replayed
  <2>2. Calm(z) /\ DrainsOnlyBegin(x, z)
    BY EvaluatedCalm
  <2> HIDE DEF z
  <2> DEFINE w == [z EXCEPT !.overflow = TRUE]
  <2>3. z \in Blocks
    BY <2>2 DEF Calm, BlockOK
  <2>4. /\ w \in Blocks /\ w.recent = z.recent /\ w.running = z.running
        /\ w.cycle = z.cycle /\ w.drain = z.drain
    BY <2>3 DEF Blocks
  <2>5. Calm(w) /\ DrainsOnlyBegin(x, w)
    BY <2>2, <2>4 DEF Calm, BlockOK, FlagOK, DrainsOnlyBegin
  <2> QED BY <2>1, <2>5
<1>3. CASE ~x.draining /\ x.drain[Scheduler].step = "idle"
  <2>1. Replayed(x) = y
    BY <1>3 DEF Replayed
  <2>2. Calm(z) /\ DrainsOnlyBegin(x, z)
    BY EvaluatedCalm
  <2> HIDE DEF z
  <2>3. Scheduler \in Drainers
    BY RepairAssumption
  <2>4. Keeps(z, y) /\ y.recent = z.recent /\ y.running = z.running /\ y.cycle = z.cycle
    BY <2>2, <2>3, DrainsKeeps DEF Calm
  <2>5. Calm(y)
    BY <2>2, <2>4 DEF Calm, Keeps, FlagOK
  <2>6. DrainsOnlyBegin(x, y)
    BY <2>2, <2>4, DrainsTransitive DEF Keeps
  <2> QED BY <2>1, <2>5, <2>6
<1> QED BY <1>1, <1>2, <1>3

\* After a handler: the use fits under the cap.
LEMMA AfterHandlerCalm ==
    ASSUME NEW x, Calm(x), strict \in BOOLEAN, NEW c \in Cycles, NEW a \in Handlers,
           cycle[c].read \in 0..MaxUses, cycle[c].read < MaxUses
    PROVE  Calm(AfterHandler(x, c, a)) /\ DrainsOnlyBegin(x, AfterHandler(x, c, a))
<1> DEFINE w == [x EXCEPT !.uses[a] = cycle[c].read + 1]
           y == Evaluated(w)
           k == [y.cycle[c] EXCEPT !.status = y.cache]
           z == [y EXCEPT !.cycle[c].status = y.cache]
<1>1. x \in Blocks /\ cycle[c].read + 1 \in 0..MaxUses
  BY RepairAssumption DEF Calm, BlockOK
<1>2. /\ w \in Blocks /\ w.cycle = x.cycle /\ w.drain = x.drain
      /\ w.recent = x.recent /\ w.running = x.running
  BY <1>1 DEF Blocks
<1>3. Calm(w) /\ DrainsOnlyBegin(x, w)
  BY <1>2 DEF Calm, BlockOK, FlagOK, DrainsOnlyBegin
<1>4. AfterHandler(x, c, a) = Advance(z, c)
  BY DEF AfterHandler
<1> HIDE DEF w
<1>5. Calm(y) /\ DrainsOnlyBegin(w, y) /\ y.cache \in SUBSET Capabilities
  BY <1>3, EvaluatedCalm
<1> HIDE DEF y
<1>6. y \in Blocks /\ y.cycle[c] \in CycleStates
  BY <1>5 DEF Calm, BlockOK, Blocks
<1>7. k \in CycleStates /\ k.step = y.cycle[c].step /\ k.read = y.cycle[c].read
  BY <1>5, <1>6 DEF CycleStates
<1>8. /\ z \in Blocks /\ z.cycle = [y.cycle EXCEPT ![c] = k] /\ z.drain = y.drain
      /\ z.recent = y.recent
  BY <1>6, <1>7 DEF Blocks
<1>9. BlockOK(z)
  <2>1. \A b \in Cycles : MayCount(y.cycle[b]) /\ MayCount(k)
    BY <1>5, <1>7 DEF Calm, BlockOK, MayCount
  <2> QED BY <1>6, <1>8, <2>1 DEF BlockOK, Blocks
<1> HIDE DEF z
<1>10. /\ Keeps(z, Advance(z, c)) /\ Advance(z, c).recent = z.recent
       /\ Advance(z, c).running => Advance(z, c).cycle[c].step # "idle"
  BY <1>9, AdvanceKeeps
<1>11. Calm(Advance(z, c))
  BY <1>5, <1>8, <1>10 DEF Calm, Keeps, FlagOK
<1>12. DrainsOnlyBegin(x, Advance(z, c))
  BY <1>3, <1>5, <1>8, <1>10 DEF Keeps, DrainsOnlyBegin
<1> QED BY <1>4, <1>11, <1>12

-----------------------------------------------------------------------------
(***************************************************************************)
(* The queue.                                                              *)
(***************************************************************************)
Hand(k) == k.batch \cup ({k.item} \ {NoItem})

\* A row: the work of one that may be claimed was done at most as often as its
\* failures count, and of one that is done at least once.
RowOK(i) ==
    /\ table[i].status # "dead_letter" => table[i].attempts < MaxAttempts
    /\ table[i].status = "absent" => table[i].attempts = 0
    /\ table[i].status \in {"absent", "pending"} => applied[i] <= table[i].attempts
    /\ table[i].status = "completed" => applied[i] > 0
    /\ applied[i] <= table[i].attempts + 1

\* A row that was claimed and not tried since.
Untried(i) == table[i].status = "in_progress" /\ applied[i] <= table[i].attempts

\* A drain and the rows it has in hand.
DrainOK(d) ==
    LET k == drain[d]
    IN  /\ k.step \in {"run", "complete", "fail"} <=> k.item # NoItem
        /\ k.item \notin k.batch
        /\ \A i \in k.batch : Untried(i)
        /\ k.step = "run" => Untried(k.item)
        /\ k.step = "complete" => table[k.item].status = "in_progress" /\ applied[k.item] > 0
        /\ k.step = "fail" => table[k.item].status \in {"in_progress", "completed"}

HandsApart == \A d, e \in Drainers : d # e => Hand(drain[d]) \cap Hand(drain[e]) = {}

QueueTypes ==
    /\ table \in [Items -> Rows]
    /\ draining \in BOOLEAN
    /\ drain \in [Drainers -> DrainStates]
    /\ applied \in [Items -> Nat]

QueueOK ==
    /\ QueueTypes
    /\ \A i \in Items : RowOK(i)
    /\ \A d \in Drainers : DrainOK(d)
    /\ HandsApart

\* What a step does that works on one drain, for the rows it had in hand.
OneDrain(d, k) ==
    /\ drain' = [drain EXCEPT ![d] = k]
    /\ draining' \in BOOLEAN
    /\ \A i \in Items \ Hand(drain[d]) : table'[i] = table[i] /\ applied'[i] = applied[i]

\* A drain that has no row, or the rest of a batch.
Between(k, rest) ==
    /\ k \in DrainStates
    /\ k.step \in {"idle", "next"}
    /\ k.batch = rest
    /\ k.item = NoItem

\* The loop over the batch goes on or ends.
LEMMA ContinueGives ==
    ASSUME NEW d \in Drainers, NEW rest \in SUBSET Items, Continue(d, rest),
           draining \in BOOLEAN
    PROVE  /\ draining' \in BOOLEAN
           /\ \E k : Between(k, rest) /\ drain' = [drain EXCEPT ![d] = k]
<1> DEFINE k == [IdleDrain EXCEPT !.step = "next", !.batch = rest]
<1>1. CASE rest = {}
  <2>1. drain' = [drain EXCEPT ![d] = IdleDrain] /\ draining' = FALSE
    BY <1>1 DEF Continue
  <2>2. Between(IdleDrain, rest)
    BY <1>1 DEF Between, IdleDrain, DrainStates, Steps
  <2> QED BY <2>1, <2>2
<1>2. CASE rest # {}
  <2>1. drain' = [drain EXCEPT ![d] = k] /\ draining' = draining
    BY <1>2 DEF Continue
  <2>2. Between(k, rest)
    BY DEF Between, IdleDrain, DrainStates, Steps
  <2> QED BY <2>1, <2>2
<1> QED BY <1>1, <1>2

\* A step of one drain leaves the others and their rows alone.
LEMMA OneDrainKeeps ==
    ASSUME QueueOK, NEW d \in Drainers, NEW k \in DrainStates, OneDrain(d, k),
           Hand(k) \subseteq Hand(drain[d]),
           table' \in [Items -> Rows], applied' \in [Items -> Nat],
           \A i \in Hand(drain[d]) : RowOK(i)',
           DrainOK(d)'
    PROVE  QueueOK'
<1> USE DEF QueueOK, QueueTypes
<1>1. /\ drain' \in [Drainers -> DrainStates] /\ drain'[d] = k
      /\ \A e \in Drainers \ {d} : drain'[e] = drain[e]
  BY DEF OneDrain
<1>2. HandsApart'
  BY <1>1 DEF HandsApart
<1>3. ASSUME NEW i \in Items PROVE RowOK(i)'
  <2>1. CASE i \in Hand(drain[d])
    BY <2>1
  <2>2. CASE i \notin Hand(drain[d])
    <3>1. RowOK(i) /\ table'[i] = table[i] /\ applied'[i] = applied[i]
      BY <2>2 DEF OneDrain
    <3> QED BY <3>1 DEF RowOK
  <2> QED BY <2>1, <2>2
<1>4. ASSUME NEW e \in Drainers \ {d} PROVE DrainOK(e)'
  <2>1. DrainOK(e) /\ drain'[e] = drain[e] /\ drain[e] \in DrainStates
    BY <1>1
  <2>2. \A i \in Hand(drain[e]) : i \in Items => i \in Items \ Hand(drain[d])
    BY DEF HandsApart
  <2>3. \A i \in Hand(drain[e]) \cap Items : table'[i] = table[i] /\ applied'[i] = applied[i]
    BY <2>2 DEF OneDrain
  <2>4. /\ drain[e].batch \subseteq Hand(drain[e]) \cap Items
        /\ drain[e].item # NoItem => drain[e].item \in Hand(drain[e]) \cap Items
    BY <2>1 DEF Hand, DrainStates
  <2>5. \A i \in Hand(drain[e]) \cap Items : Untried(i) => Untried(i)'
    BY <2>3 DEF Untried
  <2> QED BY <2>1, <2>3, <2>4, <2>5 DEF DrainOK
<1>5. \A e \in Drainers : DrainOK(e)'
  BY <1>4
<1>6. draining' \in BOOLEAN
  BY DEF OneDrain
<1> QED BY <1>1, <1>2, <1>3, <1>5, <1>6

\* What the invariant says of the row a drain has taken.
LEMMA ItemFacts ==
    ASSUME QueueOK, NEW d \in Drainers, drain[d].step \in {"run", "complete", "fail"}
    PROVE  /\ drain[d].item \in Items /\ drain[d].item \in Hand(drain[d])
           /\ drain[d].batch \subseteq Hand(drain[d]) /\ drain[d].batch \in SUBSET Items
           /\ drain[d].item \notin drain[d].batch
           /\ RowOK(drain[d].item) /\ DrainOK(d)
           /\ table[drain[d].item] \in Rows /\ applied[drain[d].item] \in Nat
           /\ drain[d].kinds \in SUBSET Kinds /\ drain[d].step \in Steps
<1>1. DrainOK(d) /\ drain[d] \in DrainStates
  BY DEF QueueOK, QueueTypes
<1>2. drain[d].item # NoItem /\ drain[d].item \in Items
  BY <1>1 DEF DrainOK, DrainStates
<1> QED BY <1>1, <1>2 DEF QueueOK, QueueTypes, Hand, DrainOK, DrainStates

\* Between two rows of a batch.
LEMMA BetweenOK ==
    ASSUME QueueOK, NEW d \in Drainers, NEW k, NEW rest \in SUBSET Items, Between(k, rest),
           drain' = [drain EXCEPT ![d] = k], \A i \in rest : Untried(i)'
    PROVE  DrainOK(d)' /\ Hand(k) = rest
<1>1. drain'[d] = k
  BY DEF QueueOK, QueueTypes
<1>2. k.item = NoItem /\ k.batch = rest /\ k.step \in {"idle", "next"} /\ NoItem \notin rest
  BY ReplayAssumption DEF Between
<1> QED BY <1>1, <1>2 DEF DrainOK, Hand

\* The rows a claim takes are nobody's; the claim may be lost afterwards.
LEMMA ClaimKeeps ==
    ASSUME QueueOK, NEW d \in Drainers, ClaimBatch(d) \/ ClaimThrows(d)
    PROVE  QueueOK'
<1> USE DEF QueueOK, QueueTypes
<1>1. PICK S \in SUBSET Items, rest \in SUBSET Items :
          /\ rest \in {S, {}}
          /\ \A i \in S : table[i].status = "pending"
          /\ table' = Claimed(S)
          /\ Continue(d, rest)
          /\ applied' = applied
  <2>1. \A S \in Batches(drain[d].kinds) :
            S \in SUBSET Items /\ \A i \in S : table[i].status = "pending"
    BY DEF Batches, Claimable
  <2>2. CASE ClaimBatch(d)
    BY <2>1, <2>2 DEF ClaimBatch
  <2>3. CASE ClaimThrows(d)
    BY <2>1, <2>3 DEF ClaimThrows
  <2> QED BY <2>2, <2>3
<1>2. PICK k : Between(k, rest) /\ drain' = [drain EXCEPT ![d] = k]
  BY <1>1, ContinueGives
<1>3. draining' \in BOOLEAN
  BY <1>1, ContinueGives
<1>4. ASSUME NEW i \in Items
      PROVE  /\ table'[i] \in Rows /\ table'[i].attempts = table[i].attempts
             /\ table'[i].status = IF i \in S THEN "in_progress" ELSE table[i].status
  <2>1. table[i] \in Rows
    OBVIOUS
  <2>2. table'[i] = IF i \in S THEN [table[i] EXCEPT !.status = "in_progress"] ELSE table[i]
    BY <1>1 DEF Claimed
  <2> QED BY <2>1, <2>2 DEF Rows, Statuses
<1>5. table' \in [Items -> Rows]
  BY <1>1, <1>4 DEF Claimed
<1>6. \A i \in Items : RowOK(i)'
  <2> SUFFICES ASSUME NEW i \in Items PROVE RowOK(i)'
    OBVIOUS
  <2> QED BY <1>1, <1>4 DEF RowOK
<1>7. \A i \in rest : Untried(i)'
  <2> SUFFICES ASSUME NEW i \in rest PROVE Untried(i)'
    OBVIOUS
  <2>1. i \in S /\ i \in Items
    BY <1>1
  <2>2. RowOK(i) /\ table[i].status = "pending"
    BY <1>1, <2>1
  <2> QED BY <1>1, <1>4, <2>1, <2>2 DEF Untried, RowOK
<1>8. DrainOK(d)' /\ Hand(k) = rest
  BY <1>1, <1>2, <1>7, BetweenOK
<1>9. \A e \in Drainers : Hand(drain[e]) \cap S = {}
  <2> SUFFICES ASSUME NEW e \in Drainers, NEW i \in Hand(drain[e]), i \in S PROVE FALSE
    OBVIOUS
  <2>1. drain[e] \in DrainStates /\ DrainOK(e)
    OBVIOUS
  <2>2. table[i].status \in {"in_progress", "completed"}
    BY <2>1 DEF Hand, DrainOK, Untried
  <2> QED BY <1>1, <2>2
<1>10. ASSUME NEW e \in Drainers \ {d} PROVE DrainOK(e)'
  <2>1. drain'[e] = drain[e] /\ DrainOK(e) /\ drain[e] \in DrainStates
    BY <1>2
  <2>2. \A i \in Hand(drain[e]) \cap Items :
            table'[i].status = table[i].status /\ (Untried(i) => Untried(i)')
    BY <1>1, <1>4, <1>9 DEF Untried
  <2>3. /\ drain[e].batch \subseteq Hand(drain[e]) \cap Items
        /\ drain[e].item # NoItem => drain[e].item \in Hand(drain[e]) \cap Items
    BY <2>1 DEF Hand, DrainStates
  <2> QED BY <1>1, <2>1, <2>2, <2>3 DEF DrainOK
<1>11. HandsApart'
  BY <1>1, <1>2, <1>8, <1>9 DEF HandsApart
<1>12. drain' \in [Drainers -> DrainStates]
  BY <1>2 DEF Between
<1> QED BY <1>1, <1>3, <1>5, <1>6, <1>8, <1>10, <1>11, <1>12

\* A row is taken out of the batch.
LEMMA TakeItemKeeps ==
    ASSUME QueueOK, NEW d \in Drainers, TakeItem(d)
    PROVE  QueueOK'
<1> USE DEF QueueOK, QueueTypes
<1>1. drain[d].step = "next" /\ UNCHANGED << table, draining, applied >>
  BY DEF TakeItem
<1>2. PICK i \in drain[d].batch :
          drain' = [drain EXCEPT ![d].step = IF KindOf[i] \in Registered THEN "run" ELSE "fail",
                                 ![d].batch = @ \ {i},
                                 ![d].item = i]
  BY DEF TakeItem
<1> DEFINE k == [drain[d] EXCEPT !.step = IF KindOf[i] \in Registered THEN "run" ELSE "fail",
                                 !.batch = @ \ {i},
                                 !.item = i]
<1>3. drain[d] \in DrainStates /\ DrainOK(d) /\ i \in Items
  BY <1>2 DEF DrainStates
<1>4. drain' = [drain EXCEPT ![d] = k]
  BY <1>2, <1>3 DEF DrainStates
<1>5. /\ k \in DrainStates /\ k.item = i /\ k.batch = drain[d].batch \ {i}
      /\ k.step \in {"run", "fail"}
  BY <1>3 DEF DrainStates, Steps
<1> HIDE DEF k
<1>6. Hand(k) \subseteq Hand(drain[d])
  BY <1>2, <1>3, <1>5, ReplayAssumption DEF Hand
<1>7. OneDrain(d, k)
  BY <1>1, <1>4 DEF OneDrain
<1>8. \A j \in Hand(drain[d]) : RowOK(j)'
  <2>1. Hand(drain[d]) \subseteq Items
    BY <1>3 DEF Hand, DrainStates
  <2> QED BY <1>1, <2>1 DEF RowOK
<1>9. \A j \in drain[d].batch : Untried(j) /\ Untried(j)'
  BY <1>1, <1>3 DEF DrainOK, Untried
<1>10. DrainOK(d)'
  <2>1. drain'[d] = k
    BY <1>4
  <2>2. i # NoItem /\ i \notin k.batch /\ Untried(i)' /\ table'[i].status = "in_progress"
    BY <1>2, <1>3, <1>5, <1>9, ReplayAssumption DEF Untried
  <2> QED BY <1>5, <1>9, <2>1, <2>2 DEF DrainOK
<1> QED BY <1>1, <1>5, <1>6, <1>7, <1>8, <1>10, OneDrainKeeps

\* The handler ends: it has done the work of an untried row once, or not.
LEMMA HandlerKeeps ==
    ASSUME QueueOK, NEW d \in Drainers, HandlerSucceeds(d) \/ HandlerFails(d)
    PROVE  QueueOK'
<1> USE DEF QueueOK, QueueTypes
<1> DEFINE i == drain[d].item
<1>1. PICK work \in {0, 1}, step \in {"complete", "fail"} :
          /\ step = "complete" => work = 1
          /\ applied' = [applied EXCEPT ![i] = applied[i] + work]
          /\ drain' = [drain EXCEPT ![d].step = step]
          /\ UNCHANGED << table, draining >>
  BY DEF HandlerSucceeds, HandlerFails
<1>2. drain[d].step = "run"
  BY DEF HandlerSucceeds, HandlerFails
<1>3. /\ drain[d] \in DrainStates /\ DrainOK(d) /\ i \in Items
      /\ i \notin drain[d].batch /\ i # NoItem /\ applied[i] \in Nat /\ RowOK(i)
      /\ table[i] \in Rows
  BY <1>2, ItemFacts, ReplayAssumption
<1>4. Untried(i)
  BY <1>2, <1>3 DEF DrainOK
<1> DEFINE k == [drain[d] EXCEPT !.step = step]
<1>5. drain' = [drain EXCEPT ![d] = k]
  BY <1>1
<1>6. /\ k \in DrainStates /\ k.item = i /\ k.batch = drain[d].batch /\ k.step = step
  BY <1>3 DEF DrainStates, Steps
<1> HIDE DEF k
<1>7. Hand(k) \subseteq Hand(drain[d])
  BY <1>6 DEF Hand
<1>8. applied' \in [Items -> Nat] /\ applied'[i] = applied[i] + work
  BY <1>1, <1>3
<1>9. OneDrain(d, k)
  <2>1. i \in Hand(drain[d])
    BY <1>3 DEF Hand
  <2> QED BY <1>1, <1>5, <2>1 DEF OneDrain
<1>10. \A j \in Hand(drain[d]) : RowOK(j)'
  <2> SUFFICES ASSUME NEW j \in Hand(drain[d]) PROVE RowOK(j)'
    OBVIOUS
  <2>1. j \in Items /\ RowOK(j) /\ table'[j] = table[j]
    BY <1>1, <1>3 DEF Hand, DrainStates
  <2>2. CASE j = i
    <3>1. table[i].attempts \in Nat
      BY <1>3, ReplayAssumption DEF Rows
    <3> QED BY <1>1, <1>3, <1>4, <1>8, <2>1, <2>2, <3>1 DEF RowOK, Untried
  <2>3. CASE j # i
    BY <1>1, <2>1, <2>3 DEF RowOK
  <2> QED BY <2>2, <2>3
<1>11. DrainOK(d)'
  <2>1. drain'[d] = k
    BY <1>5
  <2>2. \A j \in k.batch : Untried(j)'
    <3> SUFFICES ASSUME NEW j \in k.batch PROVE Untried(j)'
      OBVIOUS
    <3>1. j \in Items /\ j # i /\ Untried(j)
      BY <1>3, <1>6 DEF DrainStates, DrainOK
    <3> QED BY <1>1, <3>1 DEF Untried
  <2>3. table'[i].status = "in_progress"
    BY <1>1, <1>4 DEF Untried
  <2>4. step = "complete" => applied'[i] > 0
    BY <1>1, <1>3, <1>8
  <2> QED BY <1>3, <1>6, <2>1, <2>2, <2>3, <2>4 DEF DrainOK
<1> QED BY <1>1, <1>6, <1>7, <1>8, <1>9, <1>10, <1>11, OneDrainKeeps

\* The drain writes what has become of its row, in one of the ways the code has,
\* and goes on.
LEMMA SettledKeeps ==
    ASSUME QueueOK, NEW d \in Drainers, drain[d].step \in {"complete", "fail"},
           Continue(d, drain[d].batch), applied' = applied, NEW row \in Rows,
           NEW i \in Items, i = drain[d].item,
           table' = [table EXCEPT ![i] = row], RowOK(i)'
    PROVE  QueueOK'
<1> USE DEF QueueOK, QueueTypes
<1> DEFINE rest == drain[d].batch
<1>1. /\ i \in Items /\ i \in Hand(drain[d]) /\ rest \subseteq Hand(drain[d])
      /\ rest \in SUBSET Items /\ i \notin rest /\ DrainOK(d)
  BY ItemFacts
<1>2. PICK k : Between(k, rest) /\ drain' = [drain EXCEPT ![d] = k]
  BY <1>1, ContinueGives
<1>3. draining' \in BOOLEAN
  BY <1>1, ContinueGives
<1>4. table' \in [Items -> Rows] /\ \A j \in Items \ {i} : table'[j] = table[j]
  BY <1>1
<1>5. \A j \in rest : Untried(j)'
  BY <1>1, <1>4 DEF DrainOK, Untried
<1>6. DrainOK(d)' /\ Hand(k) = rest
  BY <1>1, <1>2, <1>5, BetweenOK
<1>7. \A j \in Hand(drain[d]) : RowOK(j)'
  <2> SUFFICES ASSUME NEW j \in Hand(drain[d]) PROVE RowOK(j)'
    OBVIOUS
  <2>1. j \in Items
    BY DEF Hand, DrainStates
  <2>2. CASE j = i
    BY <2>2
  <2>3. CASE j # i
    BY <1>4, <2>1, <2>3 DEF RowOK
  <2> QED BY <2>2, <2>3
<1>8. OneDrain(d, k)
  BY <1>1, <1>2, <1>3, <1>4 DEF OneDrain
<1>9. k \in DrainStates /\ Hand(k) \subseteq Hand(drain[d])
  BY <1>1, <1>2, <1>6 DEF Between
<1> QED BY <1>4, <1>6, <1>7, <1>8, <1>9, OneDrainKeeps

\* One row after markFailed.
LEMMA FailedRow ==
    ASSUME NEW row \in Rows, row.attempts + 1 \in 0..MaxAttempts
    PROVE  /\ Failed(row) \in Rows /\ Failed(row).attempts = row.attempts + 1
           /\ Failed(row).status = IF row.attempts + 1 >= MaxAttempts
                                   THEN "dead_letter" ELSE "pending"
<1> DEFINE status == IF row.attempts + 1 >= MaxAttempts THEN "dead_letter" ELSE "pending"
           n == row.attempts + 1
<1>1. Failed(row) = [row EXCEPT !.attempts = n, !.status = status, !.due = FALSE]
  BY DEF Failed, Rows
<1>2. status \in Statuses /\ n \in 0..MaxAttempts
  BY DEF Statuses
<1> HIDE DEF status, n
<1>3. /\ Failed(row) \in Rows /\ Failed(row).attempts = n /\ Failed(row).status = status
  BY <1>1, <1>2 DEF Rows
<1> QED BY <1>3 DEF status, n

\* The row of a drain after markCompleted and after markFailed.
LEMMA WrittenRows ==
    ASSUME QueueOK, NEW d \in Drainers, drain[d].step \in {"complete", "fail"}
    PROVE  LET row == table[drain[d].item]
               done == [row EXCEPT !.status = "completed"]
           IN  /\ done \in Rows /\ done.status = "completed" /\ done.attempts = row.attempts
               /\ Failed(row) \in Rows /\ Failed(row).attempts = row.attempts + 1
               /\ Failed(row).status \in {"pending", "dead_letter"}
               /\ Failed(row).status = "dead_letter" <=> row.attempts + 1 = MaxAttempts
               /\ row.status \in {"in_progress", "completed"}
               /\ row.attempts \in Nat /\ row.attempts < MaxAttempts
<1> DEFINE row == table[drain[d].item]
           done == [row EXCEPT !.status = "completed"]
<1>1. /\ row \in Rows /\ RowOK(drain[d].item) /\ DrainOK(d)
  BY ItemFacts
<1>2. row.status \in {"in_progress", "completed"}
  BY <1>1 DEF DrainOK
<1>3. row.attempts \in Nat /\ row.attempts < MaxAttempts /\ MaxAttempts \in Nat
  BY <1>1, <1>2, ReplayAssumption DEF RowOK, Rows
<1>4. done \in Rows /\ done.status = "completed" /\ done.attempts = row.attempts
  BY <1>1 DEF Rows, Statuses
<1>5. row.attempts + 1 \in 0..MaxAttempts
  BY <1>3
<1>6. /\ Failed(row) \in Rows /\ Failed(row).attempts = row.attempts + 1
      /\ Failed(row).status = IF row.attempts + 1 >= MaxAttempts THEN "dead_letter" ELSE "pending"
  BY <1>1, <1>5, FailedRow
<1> QED BY <1>2, <1>3, <1>4, <1>6

\* markCompleted.
LEMMA MarkCompletedKeeps ==
    ASSUME QueueOK, NEW d \in Drainers, MarkCompleted(d)
    PROVE  QueueOK'
<1>0. drain[d].item \in Items
  BY ItemFacts DEF MarkCompleted
<1> PICK i \in Items : i = drain[d].item
  BY <1>0
<1> DEFINE row == [table[i] EXCEPT !.status = "completed"]
<1>1. /\ drain[d].step = "complete" /\ Continue(d, drain[d].batch) /\ applied' = applied
      /\ table' = [table EXCEPT ![i] = row]
  BY DEF MarkCompleted
<1>2. /\ row \in Rows /\ row.status = "completed" /\ row.attempts = table[i].attempts
      /\ table[i].attempts < MaxAttempts
  BY <1>1, WrittenRows
<1>3. i \in Items /\ RowOK(i) /\ DrainOK(d)
  BY <1>1, ItemFacts
<1> HIDE DEF row
<1>4. table'[i] = row
  BY <1>1, <1>3 DEF QueueOK, QueueTypes
<1>5. RowOK(i)'
  BY <1>1, <1>2, <1>3, <1>4 DEF RowOK, DrainOK
<1> QED BY <1>1, <1>2, <1>5, SettledKeeps

\* markFailed, and a markFailed that is lost.
LEMMA MarkFailedKeeps ==
    ASSUME QueueOK, NEW d \in Drainers, MarkFailed(d) \/ MarkFailedThrows(d)
    PROVE  QueueOK'
<1>0. drain[d].item \in Items
  BY ItemFacts DEF MarkFailed, MarkFailedThrows
<1> PICK i \in Items : i = drain[d].item
  BY <1>0
<1>1. /\ drain[d].step = "fail" /\ Continue(d, drain[d].batch) /\ applied' = applied
  BY DEF MarkFailed, MarkFailedThrows
<1>2. /\ Failed(table[i]) \in Rows /\ Failed(table[i]).attempts = table[i].attempts + 1
      /\ Failed(table[i]).status \in {"pending", "dead_letter"}
      /\ Failed(table[i]).status = "dead_letter" <=> table[i].attempts + 1 = MaxAttempts
      /\ table[i].attempts \in Nat /\ table[i].attempts < MaxAttempts
  BY <1>1, WrittenRows
<1>3. /\ i \in Items /\ RowOK(i) /\ DrainOK(d) /\ applied[i] \in Nat
      /\ table[i] \in Rows
  BY <1>1, ItemFacts
<1>4. CASE MarkFailed(d)
  <2>1. table' = [table EXCEPT ![i] = Failed(table[i])]
    BY <1>4 DEF MarkFailed
  <2>2. table'[i] = Failed(table[i])
    BY <1>3, <2>1 DEF QueueOK, QueueTypes
  <2>3. MaxAttempts \in Nat
    BY ReplayAssumption
  <2>4. RowOK(i)'
    BY <1>1, <1>2, <1>3, <2>2, <2>3 DEF RowOK
  <2> QED BY <1>1, <1>2, <2>1, <2>4, SettledKeeps
<1>5. CASE MarkFailedThrows(d)
  <2>1. table' = table
    BY <1>5 DEF MarkFailedThrows
  <2>2. table' = [table EXCEPT ![i] = table[i]]
    BY <1>3, <2>1 DEF QueueOK, QueueTypes
  <2>3. RowOK(i)'
    BY <1>1, <1>3, <2>1 DEF RowOK
  <2> QED BY <1>1, <1>3, <2>2, <2>3, SettledKeeps
<1> QED BY <1>4, <1>5

\* A markCompleted that throws leaves the row for markFailed.
LEMMA CompletionThrowsKeeps ==
    ASSUME QueueOK, NEW d \in Drainers, CompletionThrows(d)
    PROVE  QueueOK'
<1> USE DEF QueueOK, QueueTypes
<1> DEFINE i == drain[d].item
           done == [table[i] EXCEPT !.status = "completed"]
           k == [drain[d] EXCEPT !.step = "fail"]
<1>1. /\ drain[d].step = "complete" /\ applied' = applied /\ draining' = draining
      /\ drain' = [drain EXCEPT ![d] = k]
  BY DEF CompletionThrows
<1>2. /\ i \in Items /\ i \in Hand(drain[d]) /\ i \notin drain[d].batch
      /\ RowOK(i) /\ DrainOK(d) /\ table[i] \in Rows /\ drain[d] \in DrainStates
  BY <1>1, ItemFacts
<1>3. PICK row \in {done, table[i]} : table' = [table EXCEPT ![i] = row]
  <2>1. table = [table EXCEPT ![i] = table[i]]
    BY <1>2
  <2> QED BY <2>1 DEF CompletionThrows
<1>4. done \in Rows /\ done.status = "completed" /\ done.attempts = table[i].attempts
  BY <1>1, WrittenRows
<1>5. /\ row \in Rows /\ row.attempts = table[i].attempts
      /\ row.status \in {"in_progress", "completed"}
      /\ table[i].attempts < MaxAttempts /\ applied[i] > 0
  <2>1. table[i].status = "in_progress" /\ applied[i] > 0
    BY <1>1, <1>2 DEF DrainOK
  <2>2. table[i].attempts < MaxAttempts
    BY <1>1, WrittenRows
  <2> QED BY <1>2, <1>4, <2>1, <2>2
<1>6. k \in DrainStates /\ k.step = "fail" /\ k.item = i /\ k.batch = drain[d].batch
  BY <1>2 DEF DrainStates, Steps
<1> HIDE DEF k, done
<1>7. /\ table' \in [Items -> Rows] /\ table'[i] = row
      /\ \A j \in Items \ {i} : table'[j] = table[j]
  BY <1>2, <1>3, <1>5
<1>8. \A j \in Hand(drain[d]) : RowOK(j)'
  <2> SUFFICES ASSUME NEW j \in Hand(drain[d]) PROVE RowOK(j)'
    OBVIOUS
  <2>1. j \in Items
    BY <1>2 DEF Hand, DrainStates
  <2>2. CASE j = i
    BY <1>1, <1>2, <1>5, <1>7, <2>2 DEF RowOK
  <2>3. CASE j # i
    BY <1>1, <1>7, <2>1, <2>3 DEF RowOK
  <2> QED BY <2>2, <2>3
<1>9. \A j \in drain[d].batch : Untried(j)'
  <2> SUFFICES ASSUME NEW j \in drain[d].batch PROVE Untried(j)'
    OBVIOUS
  <2>1. j \in Items /\ j # i /\ Untried(j)
    BY <1>2 DEF DrainStates, DrainOK
  <2> QED BY <1>1, <1>7, <2>1 DEF Untried
<1>10. DrainOK(d)'
  <2>1. drain'[d] = k /\ i # NoItem
    BY <1>1, <1>2, ReplayAssumption
  <2> QED BY <1>2, <1>5, <1>6, <1>7, <1>9, <2>1 DEF DrainOK
<1>11. OneDrain(d, k) /\ Hand(k) \subseteq Hand(drain[d])
  BY <1>1, <1>2, <1>6, <1>7 DEF OneDrain, Hand
<1> QED BY <1>1, <1>6, <1>7, <1>8, <1>10, <1>11, OneDrainKeeps

\* Every step of a drain.
LEMMA DrainStepKeeps ==
    ASSUME QueueOK, NEW d \in Drainers, DrainStep(d)
    PROVE  QueueOK'
BY ClaimKeeps, TakeItemKeeps, HandlerKeeps, MarkCompletedKeeps, MarkFailedKeeps,
   CompletionThrowsKeeps DEF DrainStep

\* A row nobody has in hand is inserted or becomes due.
LEMMA RowKeeps ==
    ASSUME QueueOK, NEW i \in Items, Insert(i) \/ BackoffEnds(i)
    PROVE  QueueOK'
<1> USE DEF QueueOK, QueueTypes
<1>1. /\ table[i].status \in {"absent", "pending"} /\ table[i] \in Rows /\ RowOK(i)
      /\ UNCHANGED << draining, drain, applied >>
  BY DEF Insert, BackoffEnds
<1>2. PICK row \in Rows :
          /\ row.status = "pending" /\ row.attempts = table[i].attempts
          /\ table' = [table EXCEPT ![i] = row]
  <2>1. CASE Insert(i)
    <3>1. table[i].attempts = 0 /\ table' = [table EXCEPT ![i] = Inserted]
      BY <1>1, <2>1 DEF Insert, RowOK
    <3>2. Inserted \in Rows /\ Inserted.status = "pending" /\ Inserted.attempts = 0
      BY ReplayAssumption DEF Inserted, Rows, Statuses
    <3> QED BY <3>1, <3>2
  <2>2. CASE BackoffEnds(i)
    <3> DEFINE row == [table[i] EXCEPT !.due = TRUE]
    <3>1. table' = [table EXCEPT ![i] = row] /\ table[i].status = "pending"
      BY <2>2 DEF BackoffEnds
    <3>2. row \in Rows /\ row.status = "pending" /\ row.attempts = table[i].attempts
      BY <1>1, <3>1 DEF Rows
    <3> QED BY <3>1, <3>2
  <2> QED BY <2>1, <2>2
<1>3. /\ table' \in [Items -> Rows] /\ table'[i] = row
      /\ \A j \in Items \ {i} : table'[j] = table[j]
  BY <1>2
<1>4. ASSUME NEW j \in Items PROVE RowOK(j)'
  <2>1. CASE j = i
    <3>1. /\ table[i].attempts < MaxAttempts /\ applied[i] <= table[i].attempts
          /\ applied[i] <= table[i].attempts + 1
      BY <1>1 DEF RowOK
    <3> QED BY <1>1, <1>2, <1>3, <2>1, <3>1 DEF RowOK
  <2>2. CASE j # i
    BY <1>1, <1>3, <2>2 DEF RowOK
  <2> QED BY <2>1, <2>2
<1>5. ASSUME NEW d \in Drainers PROVE DrainOK(d)'
  <2>1. drain[d] \in DrainStates /\ DrainOK(d) /\ drain'[d] = drain[d]
    BY <1>1
  <2>2. \A j \in Items : Untried(j) => j # i /\ Untried(j)'
    BY <1>1, <1>3 DEF Untried
  <2>3. drain[d].batch \subseteq Items /\ drain[d].item \in Items \cup {NoItem}
    BY <2>1 DEF DrainStates
  <2> QED BY <1>1, <1>3, <2>1, <2>2, <2>3 DEF DrainOK
<1>6. HandsApart'
  BY <1>1 DEF HandsApart
<1> QED BY <1>1, <1>3, <1>4, <1>5, <1>6

\* Drains begin or are forgotten, and no row changes.
HandsDropped ==
    /\ UNCHANGED << table, applied >>
    /\ \A d \in Drainers :
          \/ drain'[d] = drain[d]
          \/ \E kinds \in SUBSET Kinds : drain'[d] = DrainOf(kinds)
          \/ drain'[d] = IdleDrain

\* A block that begins drains, or a restart that ends them all, drops rows that
\* were in hand and takes none.
LEMMA DroppedHandsKeep ==
    ASSUME QueueOK, HandsDropped, draining' \in BOOLEAN,
           drain' \in [Drainers -> DrainStates]
    PROVE  QueueOK'
<1> USE DEF QueueOK, QueueTypes, HandsDropped
<1>1. ASSUME NEW d \in Drainers, drain'[d] # drain[d]
      PROVE  /\ drain'[d].step \in {"idle", "claim"}
             /\ drain'[d].batch = {} /\ drain'[d].item = NoItem
  <2>1. CASE drain'[d] = IdleDrain
    BY <2>1 DEF IdleDrain
  <2>2. CASE \E kinds \in SUBSET Kinds : drain'[d] = DrainOf(kinds)
    BY <2>2 DEF DrainOf, IdleDrain
  <2> QED BY <1>1, <2>1, <2>2
<1>2. ASSUME NEW d \in Drainers PROVE DrainOK(d)' /\ Hand(drain'[d]) \subseteq Hand(drain[d])
  <2>1. CASE drain'[d] = drain[d]
    BY <2>1 DEF DrainOK, Untried
  <2>2. CASE drain'[d] # drain[d]
    BY <1>1, <2>2 DEF DrainOK, Hand
  <2> QED BY <2>1, <2>2
<1>3. HandsApart'
  BY <1>2 DEF HandsApart
<1>4. \A i \in Items : RowOK(i)'
  BY DEF RowOK
<1> QED BY <1>2, <1>3, <1>4

-----------------------------------------------------------------------------
(***************************************************************************)
(* The steps of the executor.                                              *)
(***************************************************************************)
Settings ==
    /\ strict \in BOOLEAN /\ late \in 0..MaxLate /\ wired \in BOOLEAN
    /\ deferring \subseteq Items

IInv == Settings /\ Calm(Now) /\ QueueOK

\* The fields of the present state.
LEMMA NowFields ==
    /\ Now.up = up /\ Now.cache = cache /\ Now.emitted = emitted /\ Now.cooled = cooled
    /\ Now.running = running /\ Now.recent = recent /\ Now.uses = uses
    /\ Now.cycle = cycle /\ Now.draining = draining /\ Now.drain = drain
    /\ Now.overflow = FALSE
BY DEF Now

\* What Calm(Now) says of the variables.
LEMMA CalmFacts ==
    ASSUME IInv
    PROVE  /\ Now \in Blocks /\ cycle \in [Cycles -> CycleStates]
           /\ up \in SUBSET Capabilities /\ recent \in Nat /\ recent <= MaxCycles + 1
           /\ uses \in [Handlers -> 0..MaxUses]
           /\ cache \in CacheValues
           /\ emitted \in SUBSET Reasons /\ cooled \in SUBSET Reasons
           /\ running \in BOOLEAN
           /\ \A c \in Cycles : MayCount(cycle[c])
<1>1. Now \in Blocks /\ Now.recent <= MaxCycles + 1 /\ \A c \in Cycles : MayCount(Now.cycle[c])
  BY DEF IInv, Calm, BlockOK
<1>2. /\ Now.cycle \in [Cycles -> CycleStates] /\ Now.up \in SUBSET Capabilities
      /\ Now.recent \in Nat /\ Now.uses \in [Handlers -> 0..MaxUses]
      /\ Now.cache \in CacheValues
      /\ Now.emitted \in SUBSET Reasons /\ Now.cooled \in SUBSET Reasons
      /\ Now.running \in BOOLEAN
  BY <1>1 DEF Blocks
<1> QED BY <1>1, <1>2, NowFields

\* A state with such variables is a block.
LEMMA NowIsBlock ==
    /\ up \in SUBSET Capabilities /\ cache \in CacheValues
    /\ emitted \in SUBSET Reasons /\ cooled \in SUBSET Reasons
    /\ running \in BOOLEAN /\ recent \in Nat /\ uses \in [Handlers -> 0..MaxUses]
    /\ cycle \in [Cycles -> CycleStates] /\ draining \in BOOLEAN
    /\ drain \in [Drainers -> DrainStates]
    => Now \in Blocks
BY DEF Now, Blocks

\* A finished block becomes the state.
LEMMA BecomesKeeps ==
    ASSUME IInv, NEW x, Becomes(x), Calm(x), DrainsOnlyBegin(Now, x),
           UNCHANGED << table, applied, strict >>,
           late' \in 0..MaxLate, wired' \in BOOLEAN, deferring' \subseteq Items
    PROVE  IInv' /\ HandsDropped
<1>1. x \in Blocks
  BY DEF Calm, BlockOK
<1>2. x.overflow = FALSE
  BY <1>1 DEF Becomes, Blocks
<1>3. Now' = [up |-> x.up, cache |-> x.cache, emitted |-> x.emitted, cooled |-> x.cooled,
              running |-> x.running, recent |-> x.recent, uses |-> x.uses, cycle |-> x.cycle,
              draining |-> x.draining, drain |-> x.drain, overflow |-> x.overflow]
  BY <1>2 DEF Becomes, Now
<1>4. Now' = x
  BY <1>1, <1>3 DEF Blocks
<1>5. Calm(Now)'
  BY <1>4
<1>6. /\ drain' = x.drain /\ draining' = x.draining
      /\ x.drain \in [Drainers -> DrainStates] /\ x.draining \in BOOLEAN
  BY <1>1 DEF Becomes, Blocks
<1>7. \A d \in Drainers :
          \/ drain'[d] = drain[d]
          \/ \E kinds \in SUBSET Kinds : drain'[d] = DrainOf(kinds)
  BY <1>6, NowFields DEF DrainsOnlyBegin
<1>8. HandsDropped
  BY <1>7 DEF HandsDropped
<1>9. QueueOK'
  BY <1>6, <1>8, DroppedHandsKeep DEF IInv
<1> QED BY <1>5, <1>8, <1>9 DEF IInv, Settings

\* EvaluateHealth and StoreMemories.
LEMMA EvaluationKeeps ==
    ASSUME IInv, EvaluateHealth \/ \E i \in Items : StoreMemories(i)
    PROVE  IInv' /\ HandsDropped
<1>1. Calm(Evaluated(Now)) /\ DrainsOnlyBegin(Now, Evaluated(Now))
  BY EvaluatedCalm DEF IInv, Settings
<1>2. /\ Becomes(Evaluated(Now)) /\ deferring' \subseteq Items
      /\ UNCHANGED << table, applied, strict, late, wired >>
  BY DEF EvaluateHealth, StoreMemories, IInv, Settings
<1> QED BY <1>1, <1>2, BecomesKeeps DEF IInv, Settings

\* The scheduler's run: a trigger, a drain, or a trigger and a drain.
LEMMA SchedulerRunKeeps ==
    ASSUME IInv, SchedulerRun
    PROVE  IInv' /\ HandsDropped
<1>1. UNCHANGED << table, applied, strict, late, wired, deferring >>
  BY DEF SchedulerRun
<1>2. CASE Becomes(Replayed(Now))
  BY <1>1, <1>2, ReplayedCalm, BecomesKeeps DEF IInv, Settings
<1>3. CASE \E r \in Requested, replay \in BOOLEAN :
              LET x == Triggered(Now, r)
              IN  Becomes(IF replay THEN Replayed(x) ELSE x)
  <2>1. PICK r \in Requested, replay \in BOOLEAN :
            Becomes(IF replay THEN Replayed(Triggered(Now, r)) ELSE Triggered(Now, r))
    BY <1>3
  <2>2. Calm(Triggered(Now, r)) /\ DrainsOnlyBegin(Now, Triggered(Now, r))
    BY TriggeredCalm, RepairAssumption DEF IInv, Settings
  <2>3. /\ Calm(Replayed(Triggered(Now, r)))
        /\ DrainsOnlyBegin(Triggered(Now, r), Replayed(Triggered(Now, r)))
    BY <2>2, ReplayedCalm DEF IInv, Settings
  <2>4. DrainsOnlyBegin(Now, Replayed(Triggered(Now, r)))
    BY <2>2, <2>3, DrainsTransitive
  <2>5. CASE replay
    BY <1>1, <2>1, <2>3, <2>4, <2>5, BecomesKeeps DEF IInv, Settings
  <2>6. CASE ~replay
    BY <1>1, <2>1, <2>2, <2>6, BecomesKeeps DEF IInv, Settings
  <2> QED BY <2>5, <2>6
<1> QED BY <1>2, <1>3 DEF SchedulerRun

\* A handler has set flags and providers, and the cycle goes on from there.
LEMMA FlagsCalm ==
    ASSUME NEW x, Calm(x), NEW S \in SUBSET Capabilities,
           NEW k \in CacheValues, NEW y,
           y = [x EXCEPT !.up = S, !.cache = k]
    PROVE  /\ Calm(y) /\ DrainsOnlyBegin(x, y)
           /\ y.up \in SUBSET Capabilities /\ y.cycle = x.cycle
<1>1. x \in Blocks /\ y \in Blocks
  BY DEF Calm, BlockOK, Blocks
<1>2. /\ y.up = S /\ y.cycle = x.cycle /\ y.drain = x.drain
      /\ y.recent = x.recent /\ y.running = x.running
  BY <1>1 DEF Blocks
<1> QED BY <1>1, <1>2 DEF Calm, BlockOK, FlagOK, DrainsOnlyBegin

\* A cycle that awaits a handler.
LEMMA HandlerFacts ==
    ASSUME IInv, NEW c \in Cycles, cycle[c].step \in Handlers \cup {"ignite"}
    PROVE  cycle[c].read \in 0..MaxUses /\ cycle[c].read < MaxUses
BY CalmFacts DEF MayCount, CycleStates

\* The reconnects that set one flag.
LEMMA ReconnectKeeps ==
    ASSUME IInv, NEW c \in Cycles, Reconnect(c)
    PROVE  IInv' /\ HandsDropped
<1>1. /\ cycle[c].step \in {"reconnect_canonical", "reconnect_graph", "reconnect_rag"}
      /\ UNCHANGED << table, applied, strict, late, wired, deferring >>
  BY DEF Reconnect, Restored
<1>2. PICK S \in SUBSET Capabilities :
          Becomes(AfterHandler(WithFlags(Now, S), c, cycle[c].step))
  <2>1. Restored[cycle[c].step] \in Capabilities
    BY <1>1 DEF Restored, Capabilities
  <2>2. UpOrDown(up, Restored[cycle[c].step]) \subseteq SUBSET Capabilities
    BY <2>1, CalmFacts DEF UpOrDown
  <2> QED BY <2>2 DEF Reconnect
<1>3. cycle[c].step \in Handlers
  BY <1>1 DEF Handlers
<1> DEFINE k == IF S = up THEN cache ELSE Stale
           y == WithFlags(Now, S)
<1>4. y = [Now EXCEPT !.up = S, !.cache = k]
  BY NowFields, CalmFacts DEF WithFlags, Blocks
<1>5. k \in CacheValues
  BY CacheTypes, CalmFacts
<1>6. Calm(y) /\ DrainsOnlyBegin(Now, y)
  <2>1. Calm(Now)
    BY DEF IInv
  <2> HIDE DEF k, y
  <2> QED BY <1>4, <1>5, <2>1, FlagsCalm
<1> DEFINE z == AfterHandler(WithFlags(Now, S), c, cycle[c].step)
<1>7. Calm(z) /\ DrainsOnlyBegin(WithFlags(Now, S), z)
  BY <1>3, <1>6, HandlerFacts, AfterHandlerCalm DEF IInv, Settings
<1>8. DrainsOnlyBegin(Now, z)
  BY <1>6, <1>7, DrainsTransitive
<1> QED BY <1>1, <1>2, <1>7, <1>8, BecomesKeeps DEF IInv, Settings

\* The providers are resolved anew.
LEMMA ProvidersCalm ==
    ASSUME IInv, NEW P \in Providers
    PROVE  /\ Calm(WithProviders(Now, P)) /\ DrainsOnlyBegin(Now, WithProviders(Now, P))
           /\ WithProviders(Now, P).cycle = cycle
           /\ WithProviders(Now, P).up \in SUBSET Capabilities
<1> DEFINE S == (up \ {"extraction", "embeddings"}) \cup P
           y == WithProviders(Now, P)
<1>1. S \in SUBSET Capabilities
  BY CalmFacts DEF Providers, Capabilities
<1>2. y = [Now EXCEPT !.up = S, !.cache = Stale]
  BY NowFields, CalmFacts DEF WithProviders, Blocks
<1>3. Calm(Now) /\ Stale \in CacheValues /\ Now.cycle = cycle
  BY NowFields, CacheTypes DEF IInv
<1>4. Calm(y) /\ DrainsOnlyBegin(Now, y) /\ y.up \in SUBSET Capabilities
      /\ y.cycle = Now.cycle
  <2> DEFINE k == Stale
  <2>1. y = [Now EXCEPT !.up = S, !.cache = k] /\ k \in CacheValues
    BY <1>2, <1>3
  <2>2. Calm(Now)
    BY <1>3
  <2> HIDE DEF S, y, k
  <2>3. Calm(y) /\ DrainsOnlyBegin(Now, y)
    BY <1>1, <2>1, <2>2, FlagsCalm
  <2>4. y.up = S /\ y.cycle = Now.cycle
    BY <2>1, CalmFacts DEF Blocks
  <2>5. y.up \in SUBSET Capabilities
    BY <1>1, <2>4
  <2> QED BY <2>3, <2>4, <2>5
<1> QED BY <1>1, <1>3, <1>4

LEMMA ResolveProvidersKeeps ==
    ASSUME IInv, NEW c \in Cycles, ResolveProviders(c)
    PROVE  IInv' /\ HandsDropped
<1>1. /\ cycle[c].step = "re_resolve_providers"
      /\ UNCHANGED << table, applied, strict, late, wired, deferring >>
  BY DEF ResolveProviders
<1>2. PICK P \in Providers :
          Becomes(AfterHandler(WithProviders(Now, P), c, "re_resolve_providers"))
  BY DEF ResolveProviders
<1> DEFINE z == AfterHandler(WithProviders(Now, P), c, "re_resolve_providers")
<1>3. Calm(WithProviders(Now, P)) /\ DrainsOnlyBegin(Now, WithProviders(Now, P))
  BY ProvidersCalm
<1>4. Calm(z) /\ DrainsOnlyBegin(WithProviders(Now, P), z)
  BY <1>1, <1>3, HandlerFacts, AfterHandlerCalm DEF IInv, Settings, Handlers
<1>5. DrainsOnlyBegin(Now, z)
  BY <1>3, <1>4, DrainsTransitive
<1> QED BY <1>1, <1>2, <1>4, <1>5, BecomesKeeps DEF IInv, Settings

\* reconnect_mem0: the old client is forgotten, the new one may answer late.
LEMMA ShutDownMem0Keeps ==
    ASSUME IInv, NEW c \in Cycles, ShutDownMem0(c)
    PROVE  IInv' /\ HandsDropped
<1>1. /\ cycle[c].step = "reconnect_mem0"
      /\ UNCHANGED << table, applied, strict, late, wired, deferring >>
  BY DEF ShutDownMem0
<1>2. PICK P \in Providers :
          Becomes([WithProviders(Now, P) EXCEPT !.up = @ \ {"mem0"}, !.cycle[c].step = "ignite"])
  BY DEF ShutDownMem0
<1> DEFINE x == WithProviders(Now, P)
           z == [x EXCEPT !.up = @ \ {"mem0"}, !.cycle[c].step = "ignite"]
           k == [cycle[c] EXCEPT !.step = "ignite"]
<1>3. /\ Calm(x) /\ DrainsOnlyBegin(Now, x) /\ x.cycle = cycle
      /\ x.up \in SUBSET Capabilities
  BY ProvidersCalm
<1> HIDE DEF x
<1>4. cycle[c] \in CycleStates /\ cycle[c].read < MaxUses
  BY <1>1, CalmFacts, HandlerFacts DEF Handlers
<1>5. k \in CycleStates /\ MayCount(k) /\ k.step = "ignite"
  BY <1>4 DEF CycleStates, CycleSteps, MayCount
<1>6. x \in Blocks
  BY <1>3 DEF Calm, BlockOK
<1>7. /\ z \in Blocks /\ z.cycle = [cycle EXCEPT ![c] = k] /\ z.drain = x.drain
      /\ z.recent = x.recent
  BY <1>3, <1>5, <1>6 DEF Blocks
<1>8. BlockOK(z) /\ FlagOK(z)
  <2>1. \A b \in Cycles : MayCount(cycle[b])
    BY CalmFacts
  <2>2. \A b \in Cycles : MayCount(z.cycle[b])
    BY <1>5, <1>7, <2>1, CalmFacts
  <2>3. z.cycle[c].step = "ignite"
    BY <1>5, <1>7, CalmFacts
  <2> QED BY <1>7, <2>2, <2>3 DEF BlockOK, FlagOK
<1>9. Calm(z) /\ DrainsOnlyBegin(Now, z)
  BY <1>3, <1>7, <1>8 DEF Calm, DrainsOnlyBegin
<1> QED BY <1>1, <1>2, <1>9, BecomesKeeps DEF IInv, Settings, x

LEMMA IgniteMem0Keeps ==
    ASSUME IInv, NEW c \in Cycles, IgniteMem0(c)
    PROVE  IInv' /\ HandsDropped
<1>1. /\ cycle[c].step = "ignite" /\ late' \in 0..MaxLate
      /\ UNCHANGED << table, applied, strict, wired, deferring >>
  <2>1. late \in 0..MaxLate /\ MaxLate \in Nat
    BY RepairAssumption DEF IInv, Settings
  <2>2. late' = late \/ (late' = late + 1 /\ late < MaxLate)
    BY DEF IgniteMem0
  <2>3. late' \in 0..MaxLate
    BY <2>1, <2>2
  <2> QED BY <2>3 DEF IgniteMem0
<1>2. PICK S \in RepositorySeen : \E T \in {S} \cup UpOrDown(S, "mem0") :
          Becomes(AfterHandler(
              [Now EXCEPT !.up = T, !.cache = IF S = up THEN @ ELSE Stale], c, "reconnect_mem0"))
  BY DEF IgniteMem0
<1>3. PICK T \in {S} \cup UpOrDown(S, "mem0") :
          Becomes(AfterHandler(
              [Now EXCEPT !.up = T, !.cache = IF S = up THEN @ ELSE Stale], c, "reconnect_mem0"))
  BY <1>2
<1> DEFINE x == [Now EXCEPT !.up = T, !.cache = IF S = up THEN @ ELSE Stale]
           k == IF S = up THEN cache ELSE Stale
           z == AfterHandler(x, c, "reconnect_mem0")
<1>4. T \in SUBSET Capabilities
  <2>1. S \in SUBSET Capabilities
    BY CalmFacts DEF RepositorySeen, UpOrDown, Capabilities
  <2> QED BY <2>1 DEF UpOrDown, Capabilities
<1>5. x = [Now EXCEPT !.up = T, !.cache = k]
  BY NowFields, CalmFacts DEF Blocks
<1>6. k \in CacheValues
  BY CalmFacts, CacheTypes
<1>7. Calm(x) /\ DrainsOnlyBegin(Now, x)
  <2>1. Calm(Now)
    BY DEF IInv
  <2> HIDE DEF x, k
  <2> QED BY <1>4, <1>5, <1>6, <2>1, FlagsCalm
<1> HIDE DEF x
<1>8. Calm(z) /\ DrainsOnlyBegin(x, z)
  BY <1>1, <1>7, HandlerFacts, AfterHandlerCalm DEF IInv, Settings, Handlers
<1>9. DrainsOnlyBegin(Now, z)
  BY <1>7, <1>8, DrainsTransitive
<1> QED BY <1>1, <1>3, <1>8, <1>9, BecomesKeeps DEF IInv, Settings, x

\* The cycle whose drain has ended.
LEMMA CycleEndsKeeps ==
    ASSUME IInv, NEW c \in Cycles, CycleEnds(c)
    PROVE  IInv' /\ HandsDropped
<1>1. Becomes(Finalize(Now, c)) /\ UNCHANGED << table, applied, strict, late, wired, deferring >>
  BY DEF CycleEnds
<1>2. /\ Keeps(Now, Finalize(Now, c)) /\ Finalize(Now, c).recent = Now.recent
      /\ Finalize(Now, c).running = FALSE
  BY FinalizeKeeps DEF IInv, Calm
<1>3. Calm(Finalize(Now, c)) /\ DrainsOnlyBegin(Now, Finalize(Now, c))
  BY <1>2 DEF IInv, Calm, Keeps, FlagOK
<1> QED BY <1>1, <1>3, BecomesKeeps DEF IInv, Settings

\* What the queue does is none of the executor's business.
LEMMA QueueStepKeeps ==
    ASSUME IInv, QueueOK', deferring' \subseteq Items,
           UNCHANGED << strict, up, late, wired, cache, emitted, cooled, running,
                        recent, uses, cycle >>
    PROVE  IInv'
<1>1. /\ UNCHANGED << up, cache, emitted, cooled, running, recent, uses, cycle, strict,
                      late, wired >>
      /\ draining' \in BOOLEAN /\ drain' \in [Drainers -> DrainStates]
  BY DEF QueueOK, QueueTypes
<1>2. Now' \in Blocks
  BY <1>1, CalmFacts DEF Now, Blocks
<1>3. Now'.cycle = Now.cycle /\ Now'.running = Now.running /\ Now'.recent = Now.recent
  BY <1>1 DEF Now
<1>4. Calm(Now)'
  BY <1>2, <1>3 DEF IInv, Calm, BlockOK, FlagOK
<1> QED BY <1>1, <1>4 DEF IInv, Settings

\* mem0 connects late, and the clocks.
LEMMA ClockKeeps ==
    ASSUME IInv, LateConnect \/ Clock
    PROVE  IInv'
<1>1. UNCHANGED << replayVars, strict, wired, running, uses, cycle, deferring >>
  BY DEF LateConnect, Clock, CacheExpires, WindowEnds, HourPasses
<1>2. /\ up' \in SUBSET Capabilities /\ cache' \in CacheValues
      /\ emitted' \in SUBSET Reasons /\ cooled' \in SUBSET Reasons
      /\ recent' \in Nat /\ recent' <= recent /\ late' \in 0..MaxLate
  <2>1. /\ up \in SUBSET Capabilities /\ cache \in CacheValues
        /\ emitted \in SUBSET Reasons /\ cooled \in SUBSET Reasons
        /\ recent \in Nat /\ late \in 0..MaxLate
    BY CalmFacts DEF IInv, Settings
  <2>2. CASE LateConnect
    <3>1. /\ up' \in UpOrDown(up, "mem0") /\ late > 0 /\ late' = late - 1
          /\ cache' = cache /\ emitted' = emitted /\ cooled' = cooled /\ recent' = recent
      BY <2>2 DEF LateConnect
    <3>2. "mem0" \in Capabilities
      BY DEF Capabilities
    <3>3. cache' \in CacheValues
      BY <2>1, <3>1, Zenon
    <3>4. /\ up' \in SUBSET Capabilities /\ emitted' \in SUBSET Reasons
          /\ cooled' \in SUBSET Reasons
      <4>1. up' \in SUBSET Capabilities
        BY <2>1, <3>1, <3>2 DEF UpOrDown
      <4>2. emitted' = emitted /\ cooled' = cooled
        BY <3>1, Zenon
      <4> QED BY <2>1, <4>1, <4>2, Zenon
    <3>5. late' \in 0..MaxLate
      <4>1. late' = late - 1 /\ late > 0 /\ late \in 0..MaxLate /\ MaxLate \in Nat
        BY <2>1, <3>1, RepairAssumption
      <4> QED BY <4>1
    <3>6. recent' \in Nat /\ recent' <= recent
      <4>1. recent' = recent /\ recent \in Nat
        BY <2>1, <3>1, Zenon
      <4> QED BY <4>1
    <3> QED BY <3>3, <3>4, <3>5, <3>6
  <2>3. CASE CacheExpires
    BY <2>1, <2>3, CacheTypes DEF CacheExpires
  <2>4. CASE HourPasses
    BY <2>1, <2>4 DEF HourPasses
  <2>5. ASSUME NEW r \in Reasons, WindowEnds(r)
        PROVE  /\ emitted' \in SUBSET Reasons /\ cooled' \in SUBSET Reasons
               /\ UNCHANGED << up, cache, recent, late >>
    BY <2>1, <2>5 DEF WindowEnds
  <2> QED BY <2>1, <2>2, <2>3, <2>4, <2>5 DEF Clock
<1>3. /\ running' = running /\ uses' = uses /\ cycle' = cycle
      /\ draining' \in BOOLEAN /\ drain' \in [Drainers -> DrainStates]
  BY <1>1 DEF replayVars, IInv, QueueOK, QueueTypes
<1>4. Now' \in Blocks
  BY <1>2, <1>3, CalmFacts DEF Now, Blocks
<1>5. Now'.cycle = Now.cycle /\ Now'.running = Now.running /\ Now'.recent <= MaxCycles + 1
  <2>1. MaxCycles \in Nat /\ recent \in Nat /\ recent <= MaxCycles + 1
    BY CalmFacts, RepairAssumption
  <2> QED BY <1>1, <1>2, <2>1 DEF Now
<1>6. Calm(Now)'
  BY <1>4, <1>5 DEF IInv, Calm, BlockOK, FlagOK
<1>7. QueueOK'
  BY <1>1 DEF IInv, QueueOK, QueueTypes, RowOK, DrainOK, Untried, HandsApart, replayVars
<1> QED BY <1>1, <1>2, <1>6, <1>7 DEF IInv, Settings

Started ==
    /\ up \in States /\ cache = Stale /\ emitted = {} /\ cooled = {} /\ running = FALSE
    /\ recent = 0 /\ uses = [a \in Handlers |-> 0] /\ cycle = [c \in Cycles |-> IdleCycle]
    /\ draining = FALSE /\ drain = [d \in Drainers |-> IdleDrain]

\* A start, with the table as it was left: the first and every later one.
LEMMA StartCalm == Started => Calm(Now)
<1> SUFFICES ASSUME Started PROVE Calm(Now)
  OBVIOUS
<1> USE DEF Started
<1>1. /\ up \in SUBSET Capabilities /\ 0 \in 0..MaxUses /\ MaxCycles \in Nat
  BY RepairAssumption DEF States
<1>2. IdleCycle \in CycleStates /\ IdleDrain \in DrainStates /\ MayCount(IdleCycle)
  BY <1>1 DEF IdleCycle, CycleStates, CycleSteps, IdleDrain, DrainStates, Steps,
              MayCount, Handlers
<1>3. Now \in Blocks
  BY <1>1, <1>2, CacheTypes DEF Now, Blocks
<1>4. Now.cycle = [c \in Cycles |-> IdleCycle] /\ Now.running = FALSE /\ Now.recent = 0
  BY DEF Now
<1> QED BY <1>1, <1>2, <1>3, <1>4 DEF Calm, BlockOK, FlagOK

\* The process dies and starts again.
LEMMA LateAtStartTypes == \A S : LateAtStart(S) \subseteq 0..MaxLate
BY RepairAssumption DEF LateAtStart

LEMMA RestartKeeps ==
    ASSUME IInv, Restart
    PROVE  IInv' /\ HandsDropped
<1>1. /\ up' \in States /\ cache' = Stale /\ emitted' = {} /\ cooled' = {}
      /\ running' = FALSE /\ recent' = 0 /\ uses' = [a \in Handlers |-> 0]
      /\ cycle' = [c \in Cycles |-> IdleCycle]
      /\ draining' = FALSE /\ drain' = [d \in Drainers |-> IdleDrain]
      /\ late' \in 0..MaxLate /\ wired' \in BOOLEAN /\ deferring' = {}
      /\ UNCHANGED << table, applied, strict >>
  BY LateAtStartTypes DEF Restart, Startup
<1>2. Calm(Now)'
  <2>1. Started'
    BY <1>1 DEF Started
  <2> QED BY <2>1, StartCalm, PTL
<1>3. IdleDrain \in DrainStates
  BY DEF IdleDrain, DrainStates, Steps
<1>4. HandsDropped
  BY <1>1 DEF HandsDropped
<1>5. QueueOK'
  BY <1>1, <1>3, <1>4, DroppedHandsKeep DEF IInv
<1> QED BY <1>1, <1>2, <1>4, <1>5 DEF IInv, Settings

-----------------------------------------------------------------------------
(***************************************************************************)
(* The invariants.                                                         *)
(***************************************************************************)

\* An empty queue is in order.
LEMMA EmptyQueueOK == ReplayInit => QueueOK
<1> SUFFICES ASSUME ReplayInit PROVE QueueOK
  OBVIOUS
<1> USE DEF ReplayInit
<1>1. MaxAttempts \in Nat \ {0} /\ 0 \in 0..MaxAttempts
  BY ReplayAssumption
<1>2. NoRow \in Rows /\ IdleDrain \in DrainStates
  BY <1>1 DEF NoRow, Rows, Statuses, IdleDrain, DrainStates, Steps
<1>3. QueueTypes
  BY <1>2 DEF QueueTypes
<1>4. \A i \in Items : RowOK(i)
  BY <1>1 DEF RowOK, NoRow
<1>5. \A d \in Drainers : DrainOK(d) /\ Hand(drain[d]) = {}
  BY DEF DrainOK, IdleDrain, Hand
<1>6. HandsApart
  BY <1>5 DEF HandsApart
<1> QED BY <1>3, <1>4, <1>5, <1>6 DEF QueueOK

\* Every step keeps the invariant.
LEMMA NextKeeps ==
    ASSUME IInv, [Next]_vars
    PROVE  IInv'
<1>1. CASE EvaluateHealth \/ \E i \in Items : StoreMemories(i)
  BY <1>1, EvaluationKeeps
<1>2. CASE SchedulerRun
  BY <1>2, SchedulerRunKeeps
<1>3. ASSUME NEW i \in Items, Enqueue(i) PROVE IInv'
  <2>1. QueueOK'
    BY <1>3, RowKeeps DEF Enqueue, IInv
  <2> QED BY <1>3, <2>1, QueueStepKeeps DEF Enqueue, IInv, Settings
<1>4. ASSUME NEW i \in Items, DropEnqueue(i) PROVE IInv'
  <2>1. QueueOK'
    BY <1>4 DEF DropEnqueue, IInv, QueueOK, QueueTypes, RowOK, DrainOK, Untried, HandsApart,
               replayVars
  <2> QED BY <1>4, <2>1, QueueStepKeeps DEF DropEnqueue, IInv, Settings
<1>5. ASSUME NEW c \in Cycles, HandlerStep(c) PROVE IInv'
  BY <1>5, ReconnectKeeps, ResolveProvidersKeeps, ShutDownMem0Keeps, IgniteMem0Keeps,
     CycleEndsKeeps DEF HandlerStep
<1>6. CASE ReplayStep
  <2>1. QueueOK'
    BY <1>6, DrainStepKeeps, RowKeeps DEF ReplayStep, IInv
  <2> QED BY <1>6, <2>1, QueueStepKeeps DEF ReplayStep, repairVars, IInv, Settings
<1>7. CASE LateConnect \/ Clock
  BY <1>7, ClockKeeps
<1>8. CASE Restart
  BY <1>8, RestartKeeps
<1>9. CASE UNCHANGED vars
  <2>1. QueueOK'
    BY <1>9 DEF vars, IInv, QueueOK, QueueTypes, RowOK, DrainOK, Untried, HandsApart, replayVars
  <2> QED BY <1>9, <2>1, QueueStepKeeps DEF vars, repairVars, IInv, Settings
<1> QED BY <1>1, <1>2, <1>3, <1>4, <1>5, <1>6, <1>7, <1>8, <1>9 DEF Next

\* The inductive invariant of every behaviour.
THEOREM IInvHolds == Spec => []IInv
<1>1. Init => IInv
  <2> SUFFICES ASSUME Init PROVE IInv
    OBVIOUS
  <2>1. Started
    BY DEF Init, ReplayInit, Started
  <2>2. Settings
    <3>1. /\ strict \in BOOLEAN /\ late \in LateAtStart(up) /\ wired = ("canonical" \in up)
          /\ deferring = {}
      BY DEF Init
    <3>2. late \in 0..MaxLate
      BY <3>1, LateAtStartTypes
    <3>3. wired \in BOOLEAN
      <4>1. ("canonical" \in up) \in BOOLEAN
        OBVIOUS
      <4> QED BY <3>1, <4>1
    <3>4. deferring \subseteq Items
      BY <3>1
    <3> QED BY <3>1, <3>2, <3>3, <3>4 DEF Settings
  <2>3. QueueOK
    BY EmptyQueueOK DEF Init
  <2> QED BY <2>1, <2>2, <2>3, StartCalm DEF IInv
<1>2. IInv /\ [Next]_vars => IInv'
  BY NextKeeps
<1> QED BY <1>1, <1>2, PTL DEF Spec

\* Types of the queue and the executor.
THEOREM TypeCorrect == Spec => []TypeOK
<1>1. IInv => TypeOK
  BY CalmFacts DEF TypeOK, IInv, Settings, QueueOK, QueueTypes, CycleStates, CacheValues
<1> QED BY <1>1, IInvHolds, PTL

\* However many cycles overlap, the flag that turns triggers away belongs to one
\* that is under way.
THEOREM FlagsHaveCycles == Spec => []FlagHasCycle
<1>1. IInv => FlagHasCycle
  BY NowFields DEF IInv, Calm, FlagOK, FlagHasCycle
<1> QED BY <1>1, IInvHolds, PTL

\* Within an hour at most one cycle more than the cap begins.
THEOREM StormsAreBounded == Spec => []StormBounded
<1>1. IInv => StormBounded
  BY CalmFacts DEF StormBounded
<1> QED BY <1>1, IInvHolds, PTL

\* Whatever drains overlap, break off or are forgotten, no row is in the hands of
\* two of them.
THEOREM RowsHaveOneWorker == Spec => []OneWorkerPerRow
<1>1. IInv => OneWorkerPerRow
  <2> SUFFICES ASSUME IInv PROVE OneWorkerPerRow
    OBVIOUS
  <2>1. \A d \in Drainers : InHand(d) = Hand(drain[d])
    BY DEF InHand, Hand
  <2>2. ASSUME NEW d \in Drainers, NEW i \in Hand(drain[d])
        PROVE  table[i].status \in {"in_progress", "completed"}
    <3>1. DrainOK(d) /\ drain[d] \in DrainStates
      BY DEF IInv, QueueOK, QueueTypes
    <3> QED BY <2>2, <3>1 DEF DrainOK, Hand, Untried, DrainStates
  <2>3. HandsApart
    BY DEF IInv, QueueOK
  <2> QED BY <2>1, <2>2, <2>3 DEF OneWorkerPerRow, HandsApart
<1> QED BY <1>1, IInvHolds, PTL

-----------------------------------------------------------------------------
(***************************************************************************)
(* The queue implements its promise: every step is a step of ReplayPromise *)
(* or none.                                                                *)
(***************************************************************************)

Promised(status, revoked) ==
    IF status = "absent" THEN "none"
    ELSE IF status = "dead_letter" THEN "given_up"
    ELSE IF status = "completed" /\ ~revoked THEN "done" ELSE "owed"

PromiseStep == [Promise!PromiseNext]_(Promise!promiseVars)

\* The mapping, per row, before and after a step.
LEMMA MappedRow ==
    ASSUME NEW i \in Items
    PROVE  /\ PromiseState[i] = Promised(table[i].status, Revoked(i))
           /\ PromiseState'[i] = Promised(table'[i].status, Revoked(i)')
BY DEF PromiseState, Promised

\* A row in one drain's hands is revoked by no other.
LEMMA RevokedByOwner ==
    ASSUME QueueOK, NEW d \in Drainers, NEW i \in Items, i \in Hand(drain[d])
    PROVE  /\ \A e \in Drainers \ {d} : drain[e].item # i
           /\ Revoked(i) = (drain[d].step = "fail" /\ drain[d].item = i)
<1>1. ASSUME NEW e \in Drainers \ {d}, drain[e].item = i PROVE FALSE
  <2>1. i \in Hand(drain[e])
    BY <1>1, ReplayAssumption DEF Hand
  <2> QED BY <2>1 DEF QueueOK, HandsApart
<1> QED BY <1>1 DEF Revoked

\* Settling rows that were owed and done, or nothing at all.
LEMMA SettlingStep ==
    ASSUME table \in [Items -> Rows], table' \in [Items -> Rows], applied' = applied,
           \A i \in Items : table'[i].attempts = table[i].attempts,
           \A i \in Items :
               \/ PromiseState'[i] = PromiseState[i]
               \/ PromiseState[i] = "owed" /\ PromiseState'[i] = "done" /\ applied[i] > 0
    PROVE  PromiseStep
<1> DEFINE S == {i \in Items : PromiseState'[i] # PromiseState[i]}
<1>1. /\ PromiseState = [i \in Items |-> PromiseState[i]]
      /\ PromiseState' = [i \in Items |-> PromiseState'[i]]
  BY DEF PromiseState
<1>2. PromiseState' = [i \in Items |-> IF i \in S THEN "done" ELSE PromiseState[i]]
  <2>1. \A i \in Items : PromiseState'[i] = IF i \in S THEN "done" ELSE PromiseState[i]
    OBVIOUS
  <2> HIDE DEF S
  <2> QED BY <1>1, <2>1
<1>3. [i \in Items |-> table[i].attempts]' = [i \in Items |-> table[i].attempts]
  OBVIOUS
<1>4. \A i \in S : PromiseState[i] = "owed" /\ applied[i] > 0
  OBVIOUS
<1>5. S \in SUBSET Items
  OBVIOUS
<1> HIDE DEF S
<1>6. Promise!Settle(S)
  BY <1>2, <1>3, <1>4 DEF Promise!Settle
<1> QED BY <1>5, <1>6 DEF PromiseStep, Promise!PromiseNext

\* A claim, and the choice of the next row: nothing changes for the promise.
LEMMA ClaimPromise ==
    ASSUME QueueOK, QueueOK', NEW d \in Drainers, ClaimBatch(d) \/ ClaimThrows(d)
    PROVE  PromiseStep
<1> USE DEF QueueOK, QueueTypes
<1>1. PICK S \in SUBSET Items, rest \in SUBSET Items :
          /\ \A i \in S : table[i].status = "pending"
          /\ table' = Claimed(S)
          /\ Continue(d, rest)
          /\ applied' = applied
  <2>1. \A S \in Batches(drain[d].kinds) :
            S \in SUBSET Items /\ \A i \in S : table[i].status = "pending"
    BY DEF Batches, Claimable
  <2>2. CASE ClaimBatch(d)
    BY <2>1, <2>2 DEF ClaimBatch
  <2>3. CASE ClaimThrows(d)
    BY <2>1, <2>3 DEF ClaimThrows
  <2> QED BY <2>2, <2>3
<1>2. PICK k : Between(k, rest) /\ drain' = [drain EXCEPT ![d] = k]
  BY <1>1, ContinueGives
<1>3. ASSUME NEW i \in Items
      PROVE  /\ table'[i].attempts = table[i].attempts
             /\ table'[i].status = IF i \in S THEN "in_progress" ELSE table[i].status
  <2>1. table[i] \in Rows
    OBVIOUS
  <2>2. table'[i] = IF i \in S THEN [table[i] EXCEPT !.status = "in_progress"] ELSE table[i]
    BY <1>1 DEF Claimed
  <2> QED BY <2>1, <2>2 DEF Rows
<1>4. \A i \in Items : Revoked(i)' = Revoked(i)
  <2>1. drain[d].step = "claim"
    BY DEF ClaimBatch, ClaimThrows
  <2>2. drain'[d] = k /\ k.step # "fail" /\ \A e \in Drainers \ {d} : drain'[e] = drain[e]
    BY <1>2 DEF Between
  <2> QED BY <2>1, <2>2 DEF Revoked
<1>5. ASSUME NEW i \in Items PROVE PromiseState'[i] = PromiseState[i]
  <2>1. CASE i \in S
    BY <1>1, <1>3, <1>4, <2>1, MappedRow DEF Promised
  <2>2. CASE i \notin S
    BY <1>1, <1>3, <1>4, <2>2, MappedRow DEF Promised
  <2> QED BY <2>1, <2>2
<1> QED BY <1>1, <1>3, <1>5, SettlingStep

LEMMA TakeItemPromise ==
    ASSUME QueueOK, QueueOK', NEW d \in Drainers, TakeItem(d)
    PROVE  PromiseStep
<1> USE DEF QueueOK, QueueTypes
<1>1. drain[d].step = "next" /\ UNCHANGED << table, draining, applied >>
  BY DEF TakeItem
<1>2. PICK i \in drain[d].batch :
          drain' = [drain EXCEPT ![d].step = IF KindOf[i] \in Registered THEN "run" ELSE "fail",
                                 ![d].batch = @ \ {i},
                                 ![d].item = i]
  BY DEF TakeItem
<1>3. drain[d] \in DrainStates /\ DrainOK(d) /\ i \in Items
  BY <1>2 DEF DrainStates
<1>4. table[i].status = "in_progress"
  BY <1>2, <1>3 DEF DrainOK, Untried
<1>5. drain'[d].item = i /\ \A e \in Drainers \ {d} : drain'[e] = drain[e]
  BY <1>2, <1>3 DEF DrainStates
<1>6. ASSUME NEW j \in Items PROVE PromiseState'[j] = PromiseState[j]
  <2>1. CASE j = i
    BY <1>1, <1>4, <2>1, MappedRow DEF Promised
  <2>2. CASE j # i
    <3>1. Revoked(j)' = Revoked(j)
      BY <1>1, <1>5, <2>2 DEF Revoked
    <3> QED BY <1>1, <3>1, MappedRow
  <2> QED BY <2>1, <2>2
<1> QED BY <1>1, <1>6, SettlingStep

\* The handler of an owed row that was applied at most as often as it failed.
LEMMA HandlerPromise ==
    ASSUME QueueOK, QueueOK', NEW d \in Drainers, HandlerSucceeds(d) \/ HandlerFails(d)
    PROVE  PromiseStep
<1> USE DEF QueueOK, QueueTypes
<1>0. drain[d].step = "run" /\ drain[d].item \in Items
  BY ItemFacts DEF HandlerSucceeds, HandlerFails
<1> PICK i \in Items : i = drain[d].item
  BY <1>0
<1>1. PICK work \in {0, 1}, step \in {"complete", "fail"} :
          /\ applied' = [applied EXCEPT ![i] = applied[i] + work]
          /\ drain' = [drain EXCEPT ![d].step = step]
          /\ UNCHANGED << table, draining >>
  BY DEF HandlerSucceeds, HandlerFails
<1>2. /\ drain[d] \in DrainStates /\ DrainOK(d) /\ applied[i] \in Nat
      /\ table[i].status = "in_progress" /\ applied[i] <= table[i].attempts
  BY <1>0, ItemFacts DEF DrainOK, Untried
<1>3. drain'[d].item = i /\ \A e \in Drainers \ {d} : drain'[e] = drain[e]
  BY <1>1, <1>2 DEF DrainStates
<1>4. ASSUME NEW j \in Items PROVE PromiseState'[j] = PromiseState[j]
  <2>1. CASE j = i
    BY <1>1, <1>2, <2>1, MappedRow DEF Promised
  <2>2. CASE j # i
    <3>1. Revoked(j)' = Revoked(j)
      BY <1>3, <2>2 DEF Revoked
    <3> QED BY <1>1, <3>1, MappedRow
  <2> QED BY <2>1, <2>2
<1>5. CASE work = 0
  <2>1. applied' = applied
    BY <1>1, <1>2, <1>5
  <2> QED BY <1>1, <1>4, <2>1, SettlingStep
<1>6. CASE work = 1
  <2>1. PromiseState[i] = "owed"
    BY <1>2, MappedRow DEF Promised
  <2>2. PromiseState' = PromiseState
    BY <1>4 DEF PromiseState
  <2>3. [j \in Items |-> table[j].attempts][i] = table[i].attempts
    OBVIOUS
  <2>4. Promise!Apply(i)
    BY <1>1, <1>2, <1>6, <2>1, <2>2, <2>3 DEF Promise!Apply
  <2> QED BY <2>4 DEF PromiseStep, Promise!PromiseNext
<1> QED BY <1>5, <1>6

\* What the end of a try means: its row is settled, missed or left as it was.
LEMMA CompletedPromise ==
    ASSUME QueueOK, QueueOK', NEW d \in Drainers,
           MarkCompleted(d) \/ MarkFailedThrows(d) \/ CompletionThrows(d)
    PROVE  PromiseStep
<1> USE DEF QueueOK, QueueTypes
<1>0. drain[d].step \in {"complete", "fail"} /\ drain[d].item \in Items
  BY ItemFacts DEF MarkCompleted, MarkFailedThrows, CompletionThrows
<1> PICK i \in Items : i = drain[d].item
  BY <1>0
<1>1. /\ DrainOK(d) /\ drain[d] \in DrainStates /\ i \in Hand(drain[d]) /\ RowOK(i)
      /\ i \notin drain[d].batch /\ drain[d].batch \in SUBSET Items
      /\ table[i] \in Rows /\ applied' = applied
  BY <1>0, ItemFacts DEF MarkCompleted, MarkFailedThrows, CompletionThrows
<1>2. Revoked(i) = (drain[d].step = "fail") /\ \A e \in Drainers \ {d} : drain[e].item # i
  BY <1>1, RevokedByOwner
<1>3. /\ \A j \in Items \ {i} : table'[j] = table[j]
      /\ table'[i].attempts = table[i].attempts
      /\ drain[d].step = "complete" =>
            table[i].status = "in_progress" /\ table'[i].status \in {"in_progress", "completed"}
      /\ drain[d].step = "fail" =>
            table'[i].status = table[i].status /\ table[i].status \in {"in_progress", "completed"}
  <2>1. [table[i] EXCEPT !.status = "completed"].attempts = table[i].attempts
    BY <1>1 DEF Rows
  <2>2. [table[i] EXCEPT !.status = "completed"].status = "completed"
    BY <1>1 DEF Rows
  <2>3. CASE MarkCompleted(d)
    BY <1>1, <2>1, <2>2, <2>3 DEF MarkCompleted, DrainOK
  <2>4. CASE MarkFailedThrows(d)
    BY <1>1, <2>4 DEF MarkFailedThrows, DrainOK
  <2>5. CASE CompletionThrows(d)
    BY <1>1, <2>1, <2>2, <2>5 DEF CompletionThrows, DrainOK
  <2> QED BY <2>3, <2>4, <2>5
<1>4. PICK k \in DrainStates :
          /\ drain' = [drain EXCEPT ![d] = k]
          /\ IF CompletionThrows(d) THEN k.step = "fail" /\ k.item = i
                                    ELSE k.step # "fail" /\ k.item = NoItem
  <2>1. CASE CompletionThrows(d)
    <3> DEFINE k == [drain[d] EXCEPT !.step = "fail"]
    <3>1. k \in DrainStates /\ k.step = "fail" /\ k.item = i
      BY <1>1 DEF DrainStates, Steps
    <3> QED BY <2>1, <3>1 DEF CompletionThrows
  <2>2. CASE ~CompletionThrows(d)
    <3>1. Continue(d, drain[d].batch)
      BY <2>2 DEF MarkCompleted, MarkFailedThrows
    <3>2. PICK k : Between(k, drain[d].batch) /\ drain' = [drain EXCEPT ![d] = k]
      BY <1>1, <3>1, ContinueGives
    <3> QED BY <2>2, <3>2 DEF Between
  <2> QED BY <2>1, <2>2
<1>5. drain'[d] = k /\ \A e \in Drainers \ {d} : drain'[e] = drain[e]
  BY <1>4
<1>6. ASSUME NEW j \in Items, j # i PROVE PromiseState'[j] = PromiseState[j]
  <2>1. Revoked(j)' = Revoked(j)
    BY <1>4, <1>5, <1>6, ReplayAssumption DEF Revoked
  <2> QED BY <1>3, <1>6, <2>1, MappedRow
<1>7. \/ PromiseState'[i] = PromiseState[i]
      \/ PromiseState[i] = "owed" /\ PromiseState'[i] = "done" /\ applied[i] > 0
  <2>1. PromiseState[i] = "owed"
    BY <1>0, <1>2, <1>3, MappedRow DEF Promised
  <2>2. PromiseState'[i] \in {"owed", "done"}
    BY <1>0, <1>3, MappedRow DEF Promised
  <2>3. PromiseState'[i] = "done" => applied[i] > 0
    <3> SUFFICES ASSUME PromiseState'[i] = "done" PROVE applied[i] > 0
      OBVIOUS
    <3>1. table'[i].status = "completed"
      BY <1>0, <1>3, MappedRow DEF Promised
    <3>2. RowOK(i)'
      OBVIOUS
    <3> QED BY <1>1, <3>1, <3>2 DEF RowOK
  <2> QED BY <2>1, <2>2, <2>3
<1>8. \A j \in Items :
          \/ PromiseState'[j] = PromiseState[j]
          \/ PromiseState[j] = "owed" /\ PromiseState'[j] = "done" /\ applied[j] > 0
  BY <1>6, <1>7
<1> QED BY <1>1, <1>3, <1>8, SettlingStep

\* A counted failure, also of a row whose completion was written.
LEMMA MarkFailedPromise ==
    ASSUME QueueOK, QueueOK', NEW d \in Drainers, MarkFailed(d)
    PROVE  PromiseStep
<1> USE DEF QueueOK, QueueTypes
<1>0. drain[d].step = "fail" /\ drain[d].item \in Items
  BY ItemFacts DEF MarkFailed
<1> PICK i \in Items : i = drain[d].item
  BY <1>0
<1>1. /\ Failed(table[i]).attempts = table[i].attempts + 1
      /\ Failed(table[i]).status \in {"pending", "dead_letter"}
      /\ Failed(table[i]).status = "dead_letter" <=> table[i].attempts + 1 = MaxAttempts
      /\ table[i].status \in {"in_progress", "completed"}
      /\ table[i].attempts \in Nat /\ table[i].attempts < MaxAttempts
  BY <1>0, WrittenRows
<1>2. /\ i \in Hand(drain[d]) /\ drain[d].batch \in SUBSET Items
  BY <1>0, ItemFacts
<1>3. Revoked(i) /\ \A e \in Drainers \ {d} : drain[e].item # i
  BY <1>0, <1>2, RevokedByOwner
<1>4. /\ table' = [table EXCEPT ![i] = Failed(table[i])]
      /\ Continue(d, drain[d].batch) /\ applied' = applied
  BY DEF MarkFailed
<1>5. PICK k : Between(k, drain[d].batch) /\ drain' = [drain EXCEPT ![d] = k]
  BY <1>2, <1>4, ContinueGives
<1>6. drain'[d] = k /\ k.step # "fail" /\ \A e \in Drainers \ {d} : drain'[e] = drain[e]
  BY <1>5 DEF Between
<1>7. table'[i] = Failed(table[i]) /\ \A j \in Items \ {i} : table'[j] = table[j]
  BY <1>4
<1>8. PromiseState[i] = "owed"
  BY <1>1, <1>3, MappedRow DEF Promised
<1>9. PromiseState'[i] = IF table[i].attempts + 1 = MaxAttempts THEN "given_up" ELSE "owed"
  BY <1>1, <1>7, MappedRow DEF Promised
<1>10. ASSUME NEW j \in Items, j # i PROVE PromiseState'[j] = PromiseState[j]
  <2>1. Revoked(j)' = Revoked(j)
    BY <1>0, <1>6, <1>10 DEF Revoked
  <2> QED BY <1>7, <1>10, <2>1, MappedRow
<1> DEFINE n == [j \in Items |-> table[j].attempts]
           v == IF n[i] + 1 = MaxAttempts THEN "given_up" ELSE "owed"
<1>11. n[i] = table[i].attempts
  OBVIOUS
<1>12. [j \in Items |-> table[j].attempts]' = [n EXCEPT ![i] = n[i] + 1]
  BY <1>1, <1>7
<1>13. PromiseState' = [PromiseState EXCEPT ![i] = v]
  <2>1. /\ PromiseState = [j \in Items |-> PromiseState[j]]
        /\ PromiseState' = [j \in Items |-> PromiseState'[j]]
    BY DEF PromiseState
  <2>2. PromiseState'[i] = v
    BY <1>9, <1>11
  <2> HIDE DEF v
  <2> QED BY <1>10, <2>1, <2>2
<1>14. Promise!Miss(i)
  BY <1>1, <1>4, <1>8, <1>11, <1>12, <1>13 DEF Promise!Miss
<1> QED BY <1>14 DEF PromiseStep, Promise!PromiseNext

\* A row is accepted, or becomes due.
LEMMA RowPromise ==
    ASSUME QueueOK, QueueOK', NEW i \in Items, Insert(i) \/ BackoffEnds(i)
    PROVE  PromiseStep
<1> USE DEF QueueOK, QueueTypes
<1>1. /\ UNCHANGED << draining, drain, applied >> /\ RowOK(i) /\ table[i] \in Rows
  BY DEF Insert, BackoffEnds
<1>2. \A j \in Items \ {i} : table'[j] = table[j]
  BY DEF Insert, BackoffEnds
<1>3. \A j \in Items : Revoked(j)' = Revoked(j)
  BY <1>1 DEF Revoked
<1>4. \A j \in Items \ {i} : PromiseState'[j] = PromiseState[j]
  BY <1>2, <1>3, MappedRow
<1>5. CASE Insert(i)
  <2>1. table[i].status = "absent" /\ table[i].attempts = 0 /\ table'[i] = Inserted
    BY <1>1, <1>5 DEF Insert, RowOK
  <2>2. Inserted.status = "pending" /\ Inserted.attempts = 0
    BY DEF Inserted
  <2>3. PromiseState[i] = "none" /\ PromiseState'[i] = "owed"
    BY <2>1, <2>2, MappedRow DEF Promised
  <2>4. [j \in Items |-> table[j].attempts]' = [j \in Items |-> table[j].attempts]
    BY <1>2, <2>1, <2>2
  <2>5. PromiseState' = [PromiseState EXCEPT ![i] = "owed"]
    <3>1. /\ PromiseState = [j \in Items |-> PromiseState[j]]
          /\ PromiseState' = [j \in Items |-> PromiseState'[j]]
      BY DEF PromiseState
    <3> QED BY <1>4, <2>3, <3>1
  <2>6. Promise!Accept(i)
    BY <1>1, <2>3, <2>4, <2>5 DEF Promise!Accept
  <2> QED BY <2>6 DEF PromiseStep, Promise!PromiseNext
<1>6. CASE BackoffEnds(i)
  <2>1. /\ table'[i].status = table[i].status /\ table'[i].attempts = table[i].attempts
    BY <1>1, <1>6 DEF BackoffEnds, Rows
  <2>2. PromiseState'[i] = PromiseState[i]
    BY <1>3, <2>1, MappedRow
  <2> QED BY <1>1, <1>2, <1>4, <2>1, <2>2, SettlingStep
<1> QED BY <1>5, <1>6

\* Drains that begin anew or are forgotten: what they had revoked is settled.
LEMMA DroppedHandsPromise ==
    ASSUME QueueOK, QueueOK', HandsDropped
    PROVE  PromiseStep
<1> USE DEF QueueOK, QueueTypes, HandsDropped
<1>1. ASSUME NEW d \in Drainers, drain'[d].step = "fail" PROVE drain'[d] = drain[d]
  <2>1. IdleDrain.step # "fail" /\ \A kinds \in SUBSET Kinds : DrainOf(kinds).step # "fail"
    BY DEF DrainOf, IdleDrain
  <2> QED BY <1>1, <2>1
<1>2. \A i \in Items : Revoked(i)' => Revoked(i)
  BY <1>1 DEF Revoked
<1>3. ASSUME NEW i \in Items
      PROVE  \/ PromiseState'[i] = PromiseState[i]
             \/ PromiseState[i] = "owed" /\ PromiseState'[i] = "done" /\ applied[i] > 0
  <2>1. table[i].status = "completed" => applied[i] > 0
    BY DEF RowOK
  <2>2. /\ PromiseState[i] = Promised(table[i].status, Revoked(i))
        /\ PromiseState'[i] = Promised(table[i].status, Revoked(i)')
    BY MappedRow
  <2> QED BY <1>2, <2>1, <2>2 DEF Promised
<1> QED BY <1>3, SettlingStep

\* Every step of a behaviour.
LEMMA NextPromise ==
    ASSUME IInv, IInv', [Next]_vars
    PROVE  PromiseStep
<1>1. QueueOK /\ QueueOK'
  BY DEF IInv
<1>2. CASE EvaluateHealth \/ \E i \in Items : StoreMemories(i)
  BY <1>1, <1>2, EvaluationKeeps, DroppedHandsPromise
<1>3. CASE SchedulerRun
  BY <1>1, <1>3, SchedulerRunKeeps, DroppedHandsPromise
<1>4. ASSUME NEW i \in Items, Enqueue(i) PROVE PromiseStep
  BY <1>1, <1>4, RowPromise DEF Enqueue
<1>5. ASSUME NEW c \in Cycles, HandlerStep(c) PROVE PromiseStep
  <2>1. HandsDropped
    BY <1>5, ReconnectKeeps, ResolveProvidersKeeps, ShutDownMem0Keeps, IgniteMem0Keeps,
       CycleEndsKeeps DEF HandlerStep
  <2> QED BY <1>1, <2>1, DroppedHandsPromise
<1>6. CASE ReplayStep
  BY <1>1, <1>6, ClaimPromise, TakeItemPromise, HandlerPromise, CompletedPromise,
     MarkFailedPromise, RowPromise DEF ReplayStep, DrainStep
<1>7. CASE LateConnect \/ Clock \/ (\E i \in Items : DropEnqueue(i)) \/ UNCHANGED vars
  <2>1. UNCHANGED replayVars
    BY <1>7 DEF LateConnect, Clock, CacheExpires, WindowEnds, HourPasses, DropEnqueue, vars
  <2>2. HandsDropped
    BY <2>1 DEF HandsDropped, replayVars
  <2> QED BY <1>1, <2>2, DroppedHandsPromise
<1>8. CASE Restart
  BY <1>1, <1>8, RestartKeeps, DroppedHandsPromise
<1> QED BY <1>2, <1>3, <1>4, <1>5, <1>6, <1>7, <1>8 DEF Next

\* The table, its drains and the repair cycles around them implement the queue of
\* ReplayPromise, whatever breaks and however often the process starts again.
THEOREM QueueImplementsPromise == Spec => ReplayKeepsPromise
<1>1. Init => Promise!PromiseInit
  <2> SUFFICES ASSUME Init PROVE Promise!PromiseInit
    OBVIOUS
  <2>1. table = [i \in Items |-> NoRow] /\ applied = [i \in Items |-> 0]
    BY DEF Init, ReplayInit
  <2>2. \A i \in Items : table[i].status = "absent" /\ table[i].attempts = 0
    BY <2>1 DEF NoRow
  <2>3. \A i \in Items : PromiseState[i] = "none"
    BY <2>2, MappedRow DEF Promised
  <2>4. PromiseState = [i \in Items |-> PromiseState[i]]
    BY DEF PromiseState
  <2> QED BY <2>1, <2>2, <2>3, <2>4 DEF Promise!PromiseInit
<1>2. IInv /\ IInv' /\ [Next]_vars => [Promise!PromiseNext]_(Promise!promiseVars)
  BY NextPromise DEF PromiseStep
<1> QED BY <1>1, <1>2, IInvHolds, PTL DEF Spec, ReplayKeepsPromise, Promise!PromiseSpec
=============================================================================
