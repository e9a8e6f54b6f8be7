-------------------------- MODULE MCMemoryRepair --------------------------
(***************************************************************************)
(* MemoryRepair for TLC.                                                   *)
(***************************************************************************)
EXTENDS MemoryRepair, TLC

\* Cycles differ in their slots only, and Begin may take any idle slot.
CycleSymmetry == Permutations(Cycles)

MCKindOf ==
    [i \in Items |-> IF i = "vector" THEN "embedding"
                     ELSE IF i = "fact" THEN "extraction" ELSE "graph_projection"]
=============================================================================
