------------------------- MODULE MCApprovalWorkflow -------------------------
(* Instances of ApprovalWorkflow for TLC. *)
EXTENDS ApprovalWorkflow

Eval(tier, manual, escalate, self, file, subsystem) ==
    [tier |-> tier, requiresManualConfirmation |-> manual,
     escalateOnVerificationFailure |-> escalate,
     selfAuthorizationPermitted |-> self,
     hasProtectedFile |-> file, isProtectedSubsystem |-> subsystem]

\* One result of the policy engine per path through the workflow.  The second
\* self tier is what a policy file with selfAuthorizationDisabled gives, and
\* emergency_manual_only what a policy file with such a rule gives; the others
\* come from the bundled policy.
MCEvaluations ==
    { Eval("tala_self_low_risk", FALSE, FALSE, TRUE, FALSE, FALSE),
      Eval("tala_self_standard", FALSE, FALSE, FALSE, FALSE, FALSE),
      Eval("protected_subsystem", TRUE, TRUE, FALSE, FALSE, TRUE),
      Eval("human_review_required", TRUE, FALSE, FALSE, TRUE, FALSE),
      Eval("human_dual_approval", TRUE, TRUE, FALSE, FALSE, TRUE),
      Eval("emergency_manual_only", FALSE, FALSE, FALSE, FALSE, FALSE),
      Eval("blocked", TRUE, FALSE, FALSE, TRUE, FALSE) }

\* Three of them, enough to reach a status that forbids execution.
MCFewEvaluations ==
    { Eval("tala_self_low_risk", FALSE, FALSE, TRUE, FALSE, FALSE),
      Eval("human_review_required", FALSE, FALSE, FALSE, FALSE, FALSE),
      Eval("human_dual_approval", FALSE, FALSE, FALSE, FALSE, FALSE) }
=============================================================================
