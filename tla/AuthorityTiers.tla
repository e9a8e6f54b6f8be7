--------------------------- MODULE AuthorityTiers ---------------------------
(***************************************************************************)
(* The authority tiers of the governance layer, from                       *)
(* electron/services/governance/AuthorityTierModel.ts.  Pure operators:    *)
(* every tier has a priority, a number of human approvals, and a path to   *)
(* authorization (policy, human, or none).                                 *)
(***************************************************************************)
EXTENDS Naturals

\* allTiersOrdered(): least restrictive first, the position is the priority.
TierOrder == << "tala_self_low_risk", "tala_self_standard",
                "protected_subsystem", "human_review_required",
                "human_dual_approval", "emergency_manual_only", "blocked" >>

Tiers == {"tala_self_low_risk", "tala_self_standard",
          "protected_subsystem", "human_review_required",
          "human_dual_approval", "emergency_manual_only", "blocked"}

TierPriority(tier) == CHOOSE n \in 1..7 : TierOrder[n] = tier

\* Mutant: the comparison is turned round.
MoreRestrictive_Mutant(current, candidate) ==
    IF TierPriority(candidate) < TierPriority(current) THEN candidate ELSE current

\* One step of the reduce() of mostRestrictiveTier: the candidate replaces
\* the current tier only when it is strictly more restrictive.
MoreRestrictive(current, candidate) ==
    IF TierPriority(candidate) > TierPriority(current) THEN candidate ELSE current

\* Mutant: protected subsystems count as a self tier.
TierAllowsSelfAuthorization_Mutant(tier) ==
    tier \in {"tala_self_low_risk", "tala_self_standard", "protected_subsystem"}

TierAllowsSelfAuthorization(tier) ==
    tier \in {"tala_self_low_risk", "tala_self_standard"}

TierRequiresHumanApproval(tier) ==
    tier \in {"human_review_required", "human_dual_approval",
              "protected_subsystem", "emergency_manual_only"}

TierRequiresDualApproval(tier) == tier = "human_dual_approval"

IsBlockedTier(tier) == tier \in {"blocked", "emergency_manual_only"}

\* Mutant: protected_subsystem falls through with the self tiers.
ApprovalsRequired_Mutant(tier) ==
    CASE tier = "human_review_required" -> 1
      [] tier = "human_dual_approval" -> 2
      [] OTHER -> 0

ApprovalsRequired(tier) ==
    CASE tier \in {"protected_subsystem", "human_review_required"} -> 1
      [] tier = "human_dual_approval" -> 2
      [] OTHER -> 0
=============================================================================
