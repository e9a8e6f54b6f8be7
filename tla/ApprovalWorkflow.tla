-------------------------- MODULE ApprovalWorkflow --------------------------
(***************************************************************************)
(* The life of a governance decision: ApprovalWorkflowRegistry.ts, called  *)
(* by the governance:* IPC handlers (GovernanceAppService.ts), by the      *)
(* promotion of a proposal (ExecutionAuthorizationGate.evaluateProposal)   *)
(* and by the expiry sweep.                                                *)
(*                                                                         *)
(* The registry holds nothing in memory: every call reads the decision     *)
(* file, appends to the approval log, rewrites the decision file and then  *)
(* appends to the audit log.  All of it is synchronous, so calls do not    *)
(* interleave, but the process may die between two writes, and a write     *)
(* that fails is logged and swallowed.  WriteFaults says which of the two  *)
(* an instance allows.                                                     *)
(***************************************************************************)
EXTENDS AuthorityTiers, FiniteSets

CONSTANTS
    Proposals,
    Actors,       \* actor ids; the IPC handlers only ever use 'local_user'
    NoDecision,
    Evaluations,  \* policy results a proposal of the instance may get
    WriteFaults,  \* "none", "crash" (a prefix of the writes), "disk" (any)
    MaxRequests,  \* bound: approval-flow calls per proposal
    MaxCuts       \* bound: calls per proposal that lose a write

ConfirmationKinds == {"pre_execution_manual", "protected_file_ack", "dual_approval_ack"}

EscalationTriggers == {"verification_failure", "critical_subsystem", "protected_file"}

Outcomes == {"approved", "rejected", "deferred"}

Statuses == {"pending", "approved", "self_authorized", "rejected",
             "deferred", "escalated", "blocked", "expired"}

\* What the policy engine says of a proposal, with the two facts about the
\* proposal that the requirement derivation also reads.
EvaluationSet ==
    [tier : Tiers, requiresManualConfirmation : BOOLEAN,
     escalateOnVerificationFailure : BOOLEAN,
     selfAuthorizationPermitted : BOOLEAN,
     hasProtectedFile : BOOLEAN, isProtectedSubsystem : BOOLEAN]

\* selfAuthorizationPermitted is only true for the tala_self_* tiers
\* (GovernancePolicyEngine.ts).
ASSUME WorkflowAssumption ==
    /\ Evaluations \subseteq EvaluationSet
    /\ \A e \in Evaluations :
          e.selfAuthorizationPermitted => TierAllowsSelfAuthorization(e.tier)
    /\ WriteFaults \in {"none", "crash", "disk"}
    /\ MaxRequests \in Nat
    /\ MaxCuts \in Nat

ApprovalRecords == [approvalId : 1..MaxRequests, actor : Actors, outcome : Outcomes]

Decisions ==
    [status : Statuses, requiredTier : Tiers, selfAuthorized : BOOLEAN,
     approvals : SUBSET ApprovalRecords, approvalsRequired : 0..2,
     confirmations : SUBSET ConfirmationKinds, satisfied : SUBSET ConfirmationKinds,
     openEscalations : SUBSET EscalationTriggers, executionAuthorized : BOOLEAN]

ASSUME NoDecisionAssumption == NoDecision \notin Decisions

AuditEvents == {"policy_evaluated", "decision_created", "execution_authorized",
                "execution_blocked", "approval_recorded", "rejection_recorded",
                "deferral_recorded", "confirmation_satisfied",
                "self_authorization_applied", "decision_expired"}

\* The planner lists a proposal for 1 h (PlanRunRegistry.listRecent) and
\* keeps it for 4 h (pruneOldRuns); its decision expires after 7 d.
Ages == {"listed", "retained", "dropped", "stale"}

VARIABLES
    decision, \* governance/decisions/<proposalId>.json
    records,  \* governance/approvals/<proposalId>.jsonl
    audit,    \* kinds of event in governance/audit/<proposalId>.jsonl
    age,      \* of the proposal, as the calls that look it up see it
    requests, \* approval-flow calls so far; names the next approvalId
    cut       \* history: the calls on the proposal that lost one of their writes

vars == << decision, records, audit, age, requests, cut >>

-----------------------------------------------------------------------------
Writes == {"record", "decision", "audit"}

\* Mutant: the decision file is written before the approval log.
WriteOutcomes_Mutant ==
    CASE WriteFaults = "none"  -> {Writes}
      [] WriteFaults = "crash" -> {{}, {"decision"}, {"record", "decision"}, Writes}
      [] OTHER                 -> SUBSET Writes

\* The sets of writes that may take effect in one call.
WriteOutcomes ==
    CASE WriteFaults = "none"  -> {Writes}
      [] WriteFaults = "crash" -> {{}, {"record"}, {"record", "decision"}, Writes}
      [] OTHER                 -> SUBSET Writes

\* The decision as the next read of its file finds it.
Reread(done, old, new) == IF "decision" \in done THEN new ELSE old

\* One call: of the three writes, those in done take effect.
Persist(p, done, newRecords, newDecision, events) ==
    /\ records' = [records EXCEPT ![p] =
                      IF "record" \in done THEN @ \cup newRecords ELSE @]
    /\ decision' = [decision EXCEPT ![p] = Reread(done, @, newDecision)]
    /\ audit' = [audit EXCEPT ![p] = IF "audit" \in done THEN @ \cup events ELSE @]
    /\ \/ done = Writes /\ UNCHANGED cut
       \/ done # Writes /\ cut[p] < MaxCuts /\ cut' = [cut EXCEPT ![p] = @ + 1]

ApprovedIn(d) == {r \in d.approvals : r.outcome = "approved"}

AllConfirmed(d) == d.confirmations \subseteq d.satisfied

\* Mutant: the callers forget the event.
AuthorizedEvent_Mutant(d) == {}

\* The audit event that records an authorization, when there is one.
AuthorizedEvent(d) == IF d.executionAuthorized THEN {"execution_authorized"} ELSE {}

-----------------------------------------------------------------------------
(***************************************************************************)
(* Decision creation.                                                      *)
(***************************************************************************)

\* ConfirmationRequirementsEngine.deriveConfirmations
DeriveConfirmations(e) ==
    (IF e.requiresManualConfirmation \/ TierRequiresHumanApproval(e.tier)
       THEN {"pre_execution_manual"} ELSE {})
    \cup (IF e.hasProtectedFile THEN {"protected_file_ack"} ELSE {})
    \cup (IF TierRequiresDualApproval(e.tier) THEN {"dual_approval_ack"} ELSE {})

\* ConfirmationRequirementsEngine.deriveEscalations
DeriveEscalations(e) ==
    (IF e.escalateOnVerificationFailure THEN {"verification_failure"} ELSE {})
    \cup (IF e.isProtectedSubsystem THEN {"critical_subsystem"} ELSE {})
    \cup (IF e.hasProtectedFile /\ e.tier # "blocked" THEN {"protected_file"} ELSE {})

\* ApprovalWorkflowRegistry.createDecision
NewDecision(e) ==
    LET blocked == IsBlockedTier(e.tier)
        selfAuth == e.selfAuthorizationPermitted /\ ~blocked
    IN  [status |-> IF blocked THEN "blocked"
                    ELSE IF selfAuth THEN "self_authorized" ELSE "pending",
         requiredTier |-> e.tier,
         selfAuthorized |-> selfAuth,
         approvals |-> {},
         approvalsRequired |-> ApprovalsRequired(e.tier),
         confirmations |-> DeriveConfirmations(e),
         satisfied |-> {},
         openEscalations |-> DeriveEscalations(e),
         executionAuthorized |-> selfAuth /\ DeriveConfirmations(e) = {}]

\* Mutant: an existing decision is evaluated anew.
EvaluateProposal_Mutant(p) ==
    /\ age[p] \in {"listed", "retained"}
    /\ \E e \in Evaluations, done \in WriteOutcomes :
          Persist(p, done, {}, NewDecision(e), {"policy_evaluated", "decision_created"})
    /\ UNCHANGED << age, requests >>

\* evaluateProposal: on promotion (the planner finds the proposal for 4 h) or
\* by governance:evaluateProposal (1 h).  An existing decision is returned as
\* it is, with no write; so reEvaluateProposal, which has no caller and only
\* calls evaluateProposal, is the same step.
EvaluateProposal(p) ==
    /\ age[p] \in {"listed", "retained"}
    /\ decision[p] = NoDecision
    /\ \E e \in Evaluations, done \in WriteOutcomes :
          Persist(p, done, {}, NewDecision(e),
                  {"policy_evaluated", "decision_created"}
                  \cup (IF NewDecision(e).selfAuthorized
                          THEN {"self_authorization_applied"} ELSE {})
                  \cup AuthorizedEvent(NewDecision(e)))
    /\ UNCHANGED << age, requests >>

-----------------------------------------------------------------------------
(***************************************************************************)
(* Calls on an existing decision.                                          *)
(***************************************************************************)

CallAllowed(p) == decision[p] # NoDecision /\ requests[p] < MaxRequests

NewRecord(p, actor, outcome) ==
    [approvalId |-> requests[p] + 1, actor |-> actor, outcome |-> outcome]

CountCall(p) == requests' = [requests EXCEPT ![p] = @ + 1]

\* Mutant: nobody looks at who approved before.
DuplicateApprover_Mutant(d, actor) == FALSE

\* Same-actor check of recordApproval, only made when two approvals are needed.
DuplicateApprover(d, actor) ==
    /\ d.approvalsRequired >= 2
    /\ \E r \in ApprovedIn(d) : r.actor = actor

\* Mutant: the confirmations are left to satisfyConfirmation.
AfterApproval_Mutant(d, rec) ==
    LET withRecord == [d EXCEPT !.approvals = @ \cup {rec}]
        enough == Cardinality(ApprovedIn(withRecord)) >= d.approvalsRequired
    IN  [withRecord EXCEPT !.status = IF enough THEN "approved" ELSE d.status,
                           !.executionAuthorized = enough]

\* The decision after recordApproval accepted one more approval.
AfterApproval(d, rec) ==
    LET withRecord == [d EXCEPT !.approvals = @ \cup {rec}]
        enough == Cardinality(ApprovedIn(withRecord)) >= d.approvalsRequired
    IN  [withRecord EXCEPT
            !.status = IF enough THEN "approved" ELSE d.status,
            !.executionAuthorized = enough /\ AllConfirmed(d)]

\* governance:approve -> recordApproval.  The handler first looks the proposal
\* up in the planner's one-hour listing.
Approve(p, actor) ==
    LET d == decision[p]
        rec == NewRecord(p, actor, "approved")
    IN  /\ CallAllowed(p)
        /\ age[p] = "listed"
        /\ d.status \in {"pending", "escalated"}
        /\ ~DuplicateApprover(d, actor)
        /\ \E done \in WriteOutcomes :
              Persist(p, done, {rec}, AfterApproval(d, rec),
                      {"approval_recorded"}
                      \cup AuthorizedEvent(Reread(done, d, AfterApproval(d, rec))))
        /\ CountCall(p)
        /\ UNCHANGED age

\* Mutant: the status is one the decision type does not have.
AfterRefusal_Mutant(d, rec) ==
    [d EXCEPT !.approvals = @ \cup {rec}, !.status = "refused",
              !.executionAuthorized = FALSE]

\* The decision after recordRejection or recordDeferral: neither looks at the
\* status, both withdraw the authorization.
AfterRefusal(d, rec) ==
    [d EXCEPT !.approvals = @ \cup {rec}, !.status = rec.outcome,
              !.executionAuthorized = FALSE]

Refuse(p, actor, outcome, event) ==
    LET rec == NewRecord(p, actor, outcome)
    IN  /\ CallAllowed(p)
        /\ \E done \in WriteOutcomes :
              Persist(p, done, {rec}, AfterRefusal(decision[p], rec), {event})
        /\ CountCall(p)
        /\ UNCHANGED age

\* governance:reject -> recordRejection
Reject(p, actor) == Refuse(p, actor, "rejected", "rejection_recorded")

\* governance:defer -> recordDeferral
Defer(p, actor) == Refuse(p, actor, "deferred", "deferral_recorded")

\* The decision after satisfyConfirmation: authorization is recomputed from
\* the approvals and the confirmations, whatever the status says.
AfterConfirmation(d, kind) ==
    LET confirmed == [d EXCEPT !.satisfied = @ \cup {kind}]
    IN  [confirmed EXCEPT !.executionAuthorized =
            /\ d.selfAuthorized
               \/ Cardinality(ApprovedIn(d)) >= d.approvalsRequired
            /\ AllConfirmed(confirmed)]

\* governance:satisfyConfirmation
SatisfyConfirmation(p, kind) ==
    /\ decision[p] # NoDecision
    /\ kind \in decision[p].confirmations
    /\ LET new == AfterConfirmation(decision[p], kind)
       IN  \E done \in WriteOutcomes :
              Persist(p, done, {}, new, {"confirmation_satisfied"}
                      \cup AuthorizedEvent(Reread(done, decision[p], new)))
    /\ UNCHANGED << age, requests >>

\* addEscalation: part of the registry's interface, with no caller in the app.
AddEscalation(p, trigger) ==
    /\ CallAllowed(p)
    /\ \E done \in WriteOutcomes :
          Persist(p, done, {},
                  [decision[p] EXCEPT
                      !.openEscalations = @ \cup {trigger},
                      !.status = IF @ = "approved" THEN "escalated" ELSE @,
                      !.executionAuthorized = FALSE], {})
    /\ CountCall(p)
    /\ UNCHANGED age

\* resolveEscalation: likewise without a caller; it restores no authorization.
ResolveEscalation(p, trigger) ==
    /\ decision[p] # NoDecision
    /\ trigger \in decision[p].openEscalations
    /\ \E done \in WriteOutcomes :
          Persist(p, done, {}, [decision[p] EXCEPT !.openEscalations = @ \ {trigger}], {})
    /\ UNCHANGED << age, requests >>

\* ExecutionAuthorizationGate.canExecute: the answer, and its audit record.
\* It is the tenth check of the execution gate.
CanExecute(p) == decision[p] # NoDecision /\ decision[p].executionAuthorized

CheckExecution(p) ==
    /\ decision[p] # NoDecision
    /\ \E done \in WriteOutcomes :
          Persist(p, done, {}, decision[p],
                  {IF CanExecute(p) THEN "execution_authorized" ELSE "execution_blocked"})
    /\ UNCHANGED << age, requests >>

-----------------------------------------------------------------------------
(***************************************************************************)
(* Time.                                                                   *)
(***************************************************************************)

Pending(p) == decision[p] # NoDecision /\ decision[p].status = "pending"

\* The clock, from one of the ages that the lookups tell apart to the next.
TimePasses(p) ==
    /\ \/ age[p] = "listed" /\ age' = [age EXCEPT ![p] = "retained"]
       \/ age[p] = "retained" /\ age' = [age EXCEPT ![p] = "dropped"]
       \/ age[p] = "dropped" /\ age' = [age EXCEPT ![p] = "stale"]
    /\ UNCHANGED << decision, records, audit, requests, cut >>

\* Mutant: the sweep looks for deferred decisions.
ExpirySweep_Mutant ==
    LET due == {p \in Proposals : /\ decision[p] # NoDecision
                                 /\ decision[p].status = "deferred"
                                 /\ age[p] = "stale"}
    IN  /\ due # {}
        /\ decision' = [p \in Proposals |->
                           IF p \in due THEN [decision[p] EXCEPT !.status = "expired"]
                           ELSE decision[p]]
        /\ UNCHANGED << records, audit, age, requests, cut >>

\* expireStaleDecisions: one sweep rewrites every stale pending decision; a
\* fault leaves out some of the writes.  It appends nothing to the audit log.
ExpirySweep ==
    LET due == {p \in Proposals : Pending(p) /\ age[p] = "stale"}
    IN  /\ due # {}
        /\ \E written \in (IF WriteFaults = "none" THEN {due} ELSE SUBSET due) :
              decision' = [p \in Proposals |->
                  IF p \in written
                    THEN [decision[p] EXCEPT !.status = "expired",
                                             !.executionAuthorized = FALSE]
                    ELSE decision[p]]
        /\ UNCHANGED << records, audit, age, requests, cut >>

-----------------------------------------------------------------------------
Init ==
    /\ decision = [p \in Proposals |-> NoDecision]
    /\ records = [p \in Proposals |-> {}]
    /\ audit = [p \in Proposals |-> {}]
    /\ age = [p \in Proposals |-> "listed"]
    /\ requests = [p \in Proposals |-> 0]
    /\ cut = [p \in Proposals |-> 0]

Next ==
    \/ \E p \in Proposals :
          \/ EvaluateProposal(p)
          \/ CheckExecution(p)
          \/ TimePasses(p)
          \/ \E a \in Actors : Approve(p, a) \/ Reject(p, a) \/ Defer(p, a)
          \/ \E k \in ConfirmationKinds : SatisfyConfirmation(p, k)
          \/ \E t \in EscalationTriggers : AddEscalation(p, t) \/ ResolveEscalation(p, t)
    \/ ExpirySweep

Spec == Init /\ [][Next]_vars

\* Time passes, and the sweep's interval timer keeps firing while the app runs.
FairSpec ==
    /\ Spec
    /\ \A p \in Proposals : WF_vars(TimePasses(p))
    /\ WF_vars(ExpirySweep)

-----------------------------------------------------------------------------
(***************************************************************************)
(* Properties.                                                             *)
(***************************************************************************)
TypeOK ==
    /\ decision \in [Proposals -> Decisions \cup {NoDecision}]
    /\ records \in [Proposals -> SUBSET ApprovalRecords]
    /\ audit \in [Proposals -> SUBSET AuditEvents]
    /\ age \in [Proposals -> Ages]
    /\ requests \in [Proposals -> 0..MaxRequests]
    /\ cut \in [Proposals -> 0..MaxCuts]

\* Whatever calls were made, in whatever order and with whatever writes lost,
\* an authorized decision has every required confirmation and either the
\* policy's own authorization or the number of approvals its tier requires.
\* Three handlers compute executionAuthorized, each in its own way.
AuthorizationEarned ==
    \A p \in Proposals : CanExecute(p) =>
        /\ AllConfirmed(decision[p])
        /\ \/ decision[p].selfAuthorized
           \/ Cardinality(ApprovedIn(decision[p])) >= ApprovalsRequired(decision[p].requiredTier)

\* "Two distinct human approvals required" (governanceTypes.ts): a decision of
\* the dual tier is approved, or lets execution start, only when two different
\* actors approved it.
DualControl ==
    \A p \in Proposals :
        /\ decision[p] # NoDecision
        /\ TierRequiresDualApproval(decision[p].requiredTier)
        /\ decision[p].status = "approved" \/ decision[p].executionAuthorized
        => \E a, b \in Actors :
              a # b /\ {a, b} \subseteq {r.actor : r \in ApprovedIn(decision[p])}

\* Write order: an approval that counts is always in the append-only log, even
\* if the process died inside the call that recorded it.
ApprovalsOnRecord ==
    \A p \in Proposals :
        decision[p] # NoDecision => decision[p].approvals \subseteq records[p]

\* "If a decision already exists, returns it without re-evaluation"
\* (evaluateProposal): the tier stands and no approval is lost, whichever of
\* promotion, IPC and sweep comes next.  The docstring of reEvaluateProposal,
\* which calls it, says the opposite: "previous decision is overwritten if same
\* proposalId".  The code keeps the decision, so a policy that became stricter,
\* or a proposal planned anew under its id, does not reach it.
DecisionIsKept ==
    [][\A p \in Proposals : decision[p] # NoDecision =>
          /\ decision'[p] # NoDecision
          /\ decision'[p].requiredTier = decision[p].requiredTier
          /\ decision[p].approvals \subseteq decision'[p].approvals]_vars

\* Every decision that lets execution start has left an execution_authorized
\* event in the audit log, whichever of the three calls authorized it, unless
\* a call on that proposal was cut short before its last write.
AuthorizationAudited ==
    \A p \in Proposals :
        CanExecute(p) /\ cut[p] = 0 => "execution_authorized" \in audit[p]

\* A decision does not wait for ever: the sweep ends what humans leave pending.
PendingResolves == \A p \in Proposals : Pending(p) ~> ~Pending(p)

(***************************************************************************)
(* What a comment of the code claims, and the code does not do.            *)
(***************************************************************************)

\* ExecutionAuthorizationGate.canExecute: "Its status is 'approved' or
\* 'self_authorized'".
AuthorizedStatus ==
    \A p \in Proposals :
        CanExecute(p) => decision[p].status \in {"approved", "self_authorized"}
====
