----------------------- MODULE ApprovalWorkflowProofs -----------------------
(***************************************************************************)
(* Proofs about ApprovalWorkflow, for any set of proposals and actors, any *)
(* bound on the calls and any of the write faults.                         *)
(*                                                                         *)
(* The invariants asked for are not inductive: that an authorized decision *)
(* has the approvals of its tier follows from what the registry counts     *)
(* against, approvalsRequired, only while that is the tier's number, and   *)
(* that two approvals are two people's only because the approvals of a     *)
(* dual decision are kept apart by their actors.  Good(d) is what one      *)
(* decision needs; every call maps a good decision to a good one.          *)
(***************************************************************************)
EXTENDS ApprovalWorkflow, FiniteSetTheorems, TLAPS

Dual(d) == TierRequiresDualApproval(d.requiredTier)

TwoApprovers(d) ==
    \E r, s \in ApprovedIn(d) : r.actor # s.actor

\* No actor has approved twice.
ApproversDiffer(d) ==
    \A r, s \in ApprovedIn(d) : r.actor = s.actor => r = s

Earned(d) ==
    /\ AllConfirmed(d)
    /\ d.selfAuthorized \/ Cardinality(ApprovedIn(d)) >= d.approvalsRequired

Good(d) ==
    /\ d.approvalsRequired = ApprovalsRequired(d.requiredTier)
    /\ IsFiniteSet(d.approvals)
    /\ d.executionAuthorized => Earned(d)
    /\ Dual(d) => ~d.selfAuthorized /\ ApproversDiffer(d)
    /\ Dual(d) /\ d.status = "approved" => TwoApprovers(d)

AllGood == \A p \in Proposals : decision[p] # NoDecision => Good(decision[p])

IInv == TypeOK /\ AllGood

-----------------------------------------------------------------------------
(***************************************************************************)
(* Sets of approvals.                                                      *)
(***************************************************************************)

\* A subset of finitely many approvals: its size is a number, and the number
\* two means two approvals.
LEMMA TwoElements ==
    ASSUME NEW S, IsFiniteSet(S), Cardinality(S) >= 2
    PROVE  \E x, y \in S : x # y
<1>1. PICK x \in S : TRUE
  <2>1. S # {}
    BY FS_EmptySet
  <2> QED BY <2>1
<1>2. /\ IsFiniteSet(S \ {x})
      /\ Cardinality(S \ {x}) = Cardinality(S) - 1
  BY <1>1, FS_RemoveElement
<1>3. Cardinality(S \ {x}) # 0
  <2>1. Cardinality(S) \in Nat
    BY FS_CardinalityType
  <2> QED BY <1>2, <2>1
<1>4. S \ {x} # {}
  BY <1>2, <1>3, FS_EmptySet
<1> QED BY <1>1, <1>4

\* The approvals among finitely many records are finitely many.
LEMMA ApprovedFinite ==
    ASSUME NEW d, IsFiniteSet(d.approvals)
    PROVE  IsFiniteSet(ApprovedIn(d)) /\ Cardinality(ApprovedIn(d)) \in Nat
<1>1. ApprovedIn(d) \subseteq d.approvals
  BY DEF ApprovedIn
<1>2. IsFiniteSet(ApprovedIn(d))
  BY <1>1, FS_Subset
<1> QED BY <1>2, FS_CardinalityType

\* Enough approvals of a dual decision are approvals of two actors.
LEMMA EnoughMeansTwo ==
    ASSUME NEW d, IsFiniteSet(d.approvals), ApproversDiffer(d),
           Cardinality(ApprovedIn(d)) >= 2
    PROVE  TwoApprovers(d)
<1>1. PICK r, s \in ApprovedIn(d) : r # s
  BY ApprovedFinite, TwoElements
<1> QED BY <1>1 DEF ApproversDiffer, TwoApprovers

\* What the tiers ask for: at most two approvals, two for the dual tier, and the
\* dual tier never authorizes itself.
LEMMA RequiredNumbers ==
    ASSUME NEW t \in Tiers
    PROVE  /\ ApprovalsRequired(t) \in 0..2
           /\ TierRequiresDualApproval(t) => ApprovalsRequired(t) = 2
           /\ TierAllowsSelfAuthorization(t) => ~TierRequiresDualApproval(t)
BY DEF Tiers, ApprovalsRequired, TierRequiresDualApproval, TierAllowsSelfAuthorization

-----------------------------------------------------------------------------
(***************************************************************************)
(* Each call maps good decisions to good decisions.                        *)
(***************************************************************************)
\* createDecision: what it derives from an evaluation is a good decision.
LEMMA NewDecisionGood ==
    ASSUME NEW e \in Evaluations
    PROVE  NewDecision(e) \in Decisions /\ Good(NewDecision(e))
<1> DEFINE d == NewDecision(e)
<1>1. /\ e \in EvaluationSet
      /\ e.selfAuthorizationPermitted => TierAllowsSelfAuthorization(e.tier)
  BY WorkflowAssumption
<1>2. /\ e.tier \in Tiers /\ e.selfAuthorizationPermitted \in BOOLEAN
  BY <1>1 DEF EvaluationSet
<1>3. DeriveConfirmations(e) \in SUBSET ConfirmationKinds
  BY DEF DeriveConfirmations, ConfirmationKinds
<1>4. DeriveEscalations(e) \in SUBSET EscalationTriggers
  BY DEF DeriveEscalations, EscalationTriggers
<1>5. d \in Decisions
  BY <1>2, <1>3, <1>4, RequiredNumbers DEF NewDecision, Decisions, Statuses
<1>6. /\ d.approvals = {} /\ d.satisfied = {}
      /\ d.requiredTier = e.tier /\ d.approvalsRequired = ApprovalsRequired(e.tier)
      /\ d.selfAuthorized = (e.selfAuthorizationPermitted /\ ~IsBlockedTier(e.tier))
      /\ d.executionAuthorized = (d.selfAuthorized /\ d.confirmations = {})
      /\ d.status # "approved"
  BY DEF NewDecision
<1>7. ApprovedIn(d) = {}
  BY <1>6 DEF ApprovedIn
<1>8. d.executionAuthorized => Earned(d)
  BY <1>6 DEF Earned, AllConfirmed
<1>9. Dual(d) => ~d.selfAuthorized
  BY <1>1, <1>2, <1>6, RequiredNumbers DEF Dual
<1> QED BY <1>5, <1>6, <1>7, <1>8, <1>9, FS_EmptySet DEF Good, ApproversDiffer

\* recordApproval: the duplicate check keeps the approvers of a dual decision
\* apart, and the authorization is given only with the approvals and confirmations.
LEMMA AfterApprovalGood ==
    ASSUME NEW d \in Decisions, Good(d), NEW rec \in ApprovalRecords,
           rec.outcome = "approved", ~DuplicateApprover(d, rec.actor),
           d.status # "approved"
    PROVE  AfterApproval(d, rec) \in Decisions /\ Good(AfterApproval(d, rec))
<1> DEFINE withRecord == [d EXCEPT !.approvals = @ \cup {rec}]
           new == AfterApproval(d, rec)
           enough == Cardinality(ApprovedIn(withRecord)) >= d.approvalsRequired
<1>1. /\ d.status \in Statuses /\ d.requiredTier \in Tiers
      /\ d.selfAuthorized \in BOOLEAN /\ d.approvals \in SUBSET ApprovalRecords
      /\ d.approvalsRequired \in 0..2
  BY DEF Decisions
<1>2. /\ new.approvals = d.approvals \cup {rec}
      /\ new.requiredTier = d.requiredTier /\ new.approvalsRequired = d.approvalsRequired
      /\ new.selfAuthorized = d.selfAuthorized
      /\ new.confirmations = d.confirmations /\ new.satisfied = d.satisfied
      /\ new.status = (IF enough THEN "approved" ELSE d.status)
      /\ new.executionAuthorized = (enough /\ AllConfirmed(d))
  BY DEF AfterApproval, Decisions
<1>3. /\ ApprovedIn(new) = ApprovedIn(d) \cup {rec}
      /\ ApprovedIn(withRecord) = ApprovedIn(d) \cup {rec}
  BY <1>2 DEF ApprovedIn, Decisions
<1>4. new \in Decisions
  BY <1>1 DEF AfterApproval, Decisions, Statuses
<1>5. IsFiniteSet(new.approvals)
  BY <1>2, FS_AddElement DEF Good
<1>6. new.executionAuthorized => Earned(new)
  BY <1>2, <1>3 DEF Earned, AllConfirmed
<1>7. CASE Dual(d)
  <2>1. d.approvalsRequired = 2 /\ Dual(new)
    BY <1>1, <1>2, <1>7, RequiredNumbers DEF Good, Dual
  <2>2. \A r \in ApprovedIn(d) : r.actor # rec.actor
    BY <2>1 DEF DuplicateApprover
  <2>3. ApproversDiffer(new)
    BY <1>3, <1>7, <2>2 DEF Good, ApproversDiffer
  <2>4. new.status = "approved" => TwoApprovers(new)
    BY <1>2, <1>3, <1>5, <2>1, <2>3, EnoughMeansTwo
  <2> QED BY <1>2, <1>4, <1>5, <1>6, <1>7, <2>3, <2>4 DEF Good
<1>8. CASE ~Dual(d)
  <2>1. ~Dual(new)
    BY <1>2, <1>8 DEF Dual
  <2> QED BY <1>2, <1>4, <1>5, <1>6, <2>1 DEF Good
<1> QED BY <1>7, <1>8

\* recordRejection and recordDeferral add no approval and authorize nothing.
LEMMA AfterRefusalGood ==
    ASSUME NEW d \in Decisions, Good(d), NEW rec \in ApprovalRecords,
           rec.outcome \in {"rejected", "deferred"}
    PROVE  AfterRefusal(d, rec) \in Decisions /\ Good(AfterRefusal(d, rec))
<1> DEFINE new == AfterRefusal(d, rec)
<1>1. /\ new.approvals = d.approvals \cup {rec}
      /\ new.requiredTier = d.requiredTier /\ new.approvalsRequired = d.approvalsRequired
      /\ new.selfAuthorized = d.selfAuthorized
      /\ new.status = rec.outcome /\ new.executionAuthorized = FALSE
  BY DEF AfterRefusal, Decisions
<1>2. ApprovedIn(new) = ApprovedIn(d)
  BY <1>1 DEF ApprovedIn
<1>3. new \in Decisions
  BY DEF AfterRefusal, Decisions, Statuses
<1>4. IsFiniteSet(new.approvals)
  BY <1>1, FS_AddElement DEF Good
<1> QED BY <1>1, <1>2, <1>3, <1>4 DEF Good, Dual, ApproversDiffer

\* satisfyConfirmation: it recomputes the authorization from the same facts.
LEMMA AfterConfirmationGood ==
    ASSUME NEW d \in Decisions, Good(d), NEW kind \in ConfirmationKinds
    PROVE  AfterConfirmation(d, kind) \in Decisions /\ Good(AfterConfirmation(d, kind))
<1> DEFINE confirmed == [d EXCEPT !.satisfied = @ \cup {kind}]
           new == AfterConfirmation(d, kind)
<1>1. /\ new.approvals = d.approvals /\ new.status = d.status
      /\ new.requiredTier = d.requiredTier /\ new.approvalsRequired = d.approvalsRequired
      /\ new.selfAuthorized = d.selfAuthorized
      /\ new.confirmations = confirmed.confirmations /\ new.satisfied = confirmed.satisfied
      /\ new.executionAuthorized =
            (/\ d.selfAuthorized \/ Cardinality(ApprovedIn(d)) >= d.approvalsRequired
             /\ AllConfirmed(confirmed))
  BY DEF AfterConfirmation, Decisions
<1>2. ApprovedIn(new) = ApprovedIn(d)
  BY <1>1 DEF ApprovedIn
<1>3. new \in Decisions
  <2>1. confirmed \in Decisions
    BY DEF Decisions
  <2> QED BY <2>1 DEF AfterConfirmation, Decisions
<1>4. new.executionAuthorized => Earned(new)
  BY <1>1, <1>2 DEF Earned, AllConfirmed
<1> QED BY <1>1, <1>2, <1>3, <1>4 DEF Good, Dual, ApproversDiffer, TwoApprovers

\* Calls that keep the approvals, give no authorization and do not approve.
LEMMA WithdrawnGood ==
    ASSUME NEW d \in Decisions, Good(d), NEW status \in Statuses,
           status # "approved" \/ status = d.status,
           NEW escalations \in SUBSET EscalationTriggers,
           NEW authorized \in {FALSE, d.executionAuthorized}
    PROVE  LET new == [d EXCEPT !.openEscalations = escalations, !.status = status,
                                !.executionAuthorized = authorized]
           IN  new \in Decisions /\ Good(new)
<1> DEFINE new == [d EXCEPT !.openEscalations = escalations, !.status = status,
                            !.executionAuthorized = authorized]
<1>1. /\ new.approvals = d.approvals /\ new.status = status
      /\ new.requiredTier = d.requiredTier /\ new.approvalsRequired = d.approvalsRequired
      /\ new.selfAuthorized = d.selfAuthorized
      /\ new.confirmations = d.confirmations /\ new.satisfied = d.satisfied
      /\ new.executionAuthorized = authorized
  BY DEF Decisions
<1>2. ApprovedIn(new) = ApprovedIn(d)
  BY <1>1 DEF ApprovedIn
<1>3. new \in Decisions
  BY DEF Decisions
<1>4. new.executionAuthorized => Earned(new)
  BY <1>1, <1>2 DEF Good, Earned, AllConfirmed
<1> QED BY <1>1, <1>2, <1>3, <1>4 DEF Good, Dual, ApproversDiffer, TwoApprovers

-----------------------------------------------------------------------------
(***************************************************************************)
(* The inductive invariant.                                                *)
(***************************************************************************)

\* Whichever of the writes of a call take effect, the store stays good when
\* the decision the call computed is good.
LEMMA PersistKeeps ==
    ASSUME IInv, NEW p \in Proposals, NEW done, NEW newRecords \in SUBSET ApprovalRecords,
           NEW d \in Decisions, Good(d), NEW events \in SUBSET AuditEvents,
           Persist(p, done, newRecords, d, events)
    PROVE  /\ decision' \in [Proposals -> Decisions \cup {NoDecision}]
           /\ records' \in [Proposals -> SUBSET ApprovalRecords]
           /\ audit' \in [Proposals -> SUBSET AuditEvents]
           /\ cut' \in [Proposals -> 0..MaxCuts]
           /\ AllGood'
<1>1. /\ decision' \in [Proposals -> Decisions \cup {NoDecision}]
      /\ \A q \in Proposals : decision'[q] = decision[q] \/ decision'[q] = d
  BY DEF IInv, TypeOK, Persist, Reread
<1>2. records' \in [Proposals -> SUBSET ApprovalRecords]
  BY DEF IInv, TypeOK, Persist, Reread
<1>3. audit' \in [Proposals -> SUBSET AuditEvents]
  BY DEF IInv, TypeOK, Persist, Reread
<1>4. \A q \in Proposals : decision'[q] # NoDecision => Good(decision'[q])
  BY <1>1 DEF IInv, AllGood
<1>5. cut' \in [Proposals -> 0..MaxCuts]
  BY WorkflowAssumption DEF IInv, TypeOK, Persist
<1> QED BY <1>1, <1>2, <1>3, <1>4, <1>5 DEF AllGood, Good, Earned, AllConfirmed, ApprovedIn,
             Dual, ApproversDiffer, TwoApprovers

\* An empty store satisfies the invariant.
LEMMA InitIInv == Init => IInv
BY WorkflowAssumption DEF Init, IInv, TypeOK, AllGood, Ages

\* A recorded call: its record is of the type the store keeps.
LEMMA NewRecordTyped ==
    ASSUME IInv, NEW p \in Proposals, NEW actor \in Actors, NEW outcome \in Outcomes,
           CallAllowed(p)
    PROVE  /\ NewRecord(p, actor, outcome) \in ApprovalRecords
           /\ NewRecord(p, actor, outcome).actor = actor
           /\ NewRecord(p, actor, outcome).outcome = outcome
           /\ CountCall(p) => requests' \in [Proposals -> 0..MaxRequests]
BY WorkflowAssumption
   DEF IInv, TypeOK, CallAllowed, NewRecord, ApprovalRecords, CountCall

\* A rejection or a deferral, with any of its writes lost, keeps the invariant.
LEMMA RefuseKeeps ==
    ASSUME IInv, NEW p \in Proposals, NEW actor \in Actors,
           NEW outcome \in {"rejected", "deferred"}, NEW event \in AuditEvents,
           Refuse(p, actor, outcome, event)
    PROVE  IInv'
<1> DEFINE rec == NewRecord(p, actor, outcome)
           d == decision[p]
<1>1. CallAllowed(p) /\ CountCall(p) /\ UNCHANGED age
  BY DEF Refuse
<1>2. rec \in ApprovalRecords /\ rec.outcome = outcome
      /\ requests' \in [Proposals -> 0..MaxRequests]
  BY <1>1, NewRecordTyped DEF Outcomes
<1>3. d \in Decisions /\ Good(d)
  BY <1>1 DEF CallAllowed, IInv, TypeOK, AllGood
<1>4. AfterRefusal(d, rec) \in Decisions /\ Good(AfterRefusal(d, rec))
  BY <1>2, <1>3, AfterRefusalGood
<1>5. PICK done \in WriteOutcomes : Persist(p, done, {rec}, AfterRefusal(d, rec), {event})
  BY DEF Refuse
<1>6. /\ decision' \in [Proposals -> Decisions \cup {NoDecision}]
      /\ records' \in [Proposals -> SUBSET ApprovalRecords]
      /\ audit' \in [Proposals -> SUBSET AuditEvents]
      /\ cut' \in [Proposals -> 0..MaxCuts]
      /\ AllGood'
  <2>1. {rec} \in SUBSET ApprovalRecords /\ {event} \in SUBSET AuditEvents
    BY <1>2
  <2> QED BY <1>4, <1>5, <2>1, PersistKeeps
<1> QED BY <1>1, <1>2, <1>6 DEF IInv, TypeOK

\* Every step of the registry keeps the invariant.
LEMMA NextKeepsIInv == IInv /\ [Next]_vars => IInv'
<1> SUFFICES ASSUME IInv, [Next]_vars PROVE IInv'
  OBVIOUS
<1>1. ASSUME NEW p \in Proposals, EvaluateProposal(p) PROVE IInv'
  <2>1. PICK e \in Evaluations, done \in WriteOutcomes :
           Persist(p, done, {}, NewDecision(e),
                   {"policy_evaluated", "decision_created"}
                   \cup (IF NewDecision(e).selfAuthorized
                           THEN {"self_authorization_applied"} ELSE {})
                   \cup AuthorizedEvent(NewDecision(e)))
    BY <1>1 DEF EvaluateProposal
  <2>2. NewDecision(e) \in Decisions /\ Good(NewDecision(e))
    BY NewDecisionGood
  <2>3. {"policy_evaluated", "decision_created"}
        \cup (IF NewDecision(e).selfAuthorized THEN {"self_authorization_applied"} ELSE {})
        \cup AuthorizedEvent(NewDecision(e)) \in SUBSET AuditEvents
    BY DEF AuthorizedEvent, AuditEvents
  <2>4. /\ decision' \in [Proposals -> Decisions \cup {NoDecision}]
        /\ records' \in [Proposals -> SUBSET ApprovalRecords]
        /\ audit' \in [Proposals -> SUBSET AuditEvents]
        /\ cut' \in [Proposals -> 0..MaxCuts]
        /\ AllGood'
    BY <2>1, <2>2, <2>3, PersistKeeps
  <2> QED BY <1>1, <2>4 DEF EvaluateProposal, IInv, TypeOK
<1>2. ASSUME NEW p \in Proposals, CheckExecution(p) PROVE IInv'
  <2>1. decision[p] \in Decisions /\ Good(decision[p])
    BY <1>2 DEF CheckExecution, IInv, TypeOK, AllGood
  <2>2. PICK done \in WriteOutcomes :
           Persist(p, done, {}, decision[p],
                   {IF CanExecute(p) THEN "execution_authorized" ELSE "execution_blocked"})
    BY <1>2 DEF CheckExecution
  <2>3. /\ decision' \in [Proposals -> Decisions \cup {NoDecision}]
        /\ records' \in [Proposals -> SUBSET ApprovalRecords]
        /\ audit' \in [Proposals -> SUBSET AuditEvents]
        /\ cut' \in [Proposals -> 0..MaxCuts]
        /\ AllGood'
    BY <2>1, <2>2, PersistKeeps DEF AuditEvents
  <2> QED BY <1>2, <2>3 DEF CheckExecution, IInv, TypeOK
<1>3. ASSUME NEW p \in Proposals, TimePasses(p) PROVE IInv'
  <2>1. TypeOK'
    BY <1>3 DEF TimePasses, IInv, TypeOK, Ages
  <2>2. AllGood'
    BY <1>3 DEF TimePasses, IInv, AllGood, Good, Earned, AllConfirmed, ApprovedIn, Dual,
                ApproversDiffer, TwoApprovers
  <2> QED BY <2>1, <2>2 DEF IInv
<1>4. ASSUME NEW p \in Proposals, NEW a \in Actors, Approve(p, a) PROVE IInv'
  <2> DEFINE rec == NewRecord(p, a, "approved")
             d == decision[p]
  <2>1. /\ CallAllowed(p) /\ CountCall(p) /\ UNCHANGED age
        /\ d.status \in {"pending", "escalated"} /\ ~DuplicateApprover(d, a)
    BY <1>4 DEF Approve
  <2>2. /\ rec \in ApprovalRecords /\ rec.outcome = "approved" /\ rec.actor = a
        /\ requests' \in [Proposals -> 0..MaxRequests]
    BY <2>1, NewRecordTyped DEF Outcomes
  <2>3. d \in Decisions /\ Good(d)
    BY <2>1 DEF CallAllowed, IInv, TypeOK, AllGood
  <2>4. AfterApproval(d, rec) \in Decisions /\ Good(AfterApproval(d, rec))
    BY <2>1, <2>2, <2>3, AfterApprovalGood
  <2>5. PICK done \in WriteOutcomes :
           Persist(p, done, {rec}, AfterApproval(d, rec),
                   {"approval_recorded"}
                   \cup AuthorizedEvent(Reread(done, d, AfterApproval(d, rec))))
    BY <1>4 DEF Approve
  <2>6. {"approval_recorded"} \cup AuthorizedEvent(Reread(done, d, AfterApproval(d, rec)))
        \in SUBSET AuditEvents
    BY DEF AuthorizedEvent, AuditEvents
  <2>7. /\ decision' \in [Proposals -> Decisions \cup {NoDecision}]
        /\ records' \in [Proposals -> SUBSET ApprovalRecords]
        /\ audit' \in [Proposals -> SUBSET AuditEvents]
        /\ cut' \in [Proposals -> 0..MaxCuts]
        /\ AllGood'
    BY <2>2, <2>4, <2>5, <2>6, PersistKeeps
  <2> QED BY <2>1, <2>2, <2>7 DEF IInv, TypeOK
<1>5. ASSUME NEW p \in Proposals, NEW a \in Actors, Reject(p, a) PROVE IInv'
  BY <1>5, RefuseKeeps DEF Reject, AuditEvents
<1>6. ASSUME NEW p \in Proposals, NEW a \in Actors, Defer(p, a) PROVE IInv'
  BY <1>6, RefuseKeeps DEF Defer, AuditEvents
<1>7. ASSUME NEW p \in Proposals, NEW k \in ConfirmationKinds, SatisfyConfirmation(p, k)
      PROVE  IInv'
  <2> DEFINE new == AfterConfirmation(decision[p], k)
  <2>1. decision[p] \in Decisions /\ Good(decision[p])
    BY <1>7 DEF SatisfyConfirmation, IInv, TypeOK, AllGood
  <2>2. new \in Decisions /\ Good(new)
    BY <2>1, AfterConfirmationGood
  <2>3. PICK done \in WriteOutcomes :
           Persist(p, done, {}, new,
                   {"confirmation_satisfied"}
                   \cup AuthorizedEvent(Reread(done, decision[p], new)))
    BY <1>7 DEF SatisfyConfirmation
  <2>4. {"confirmation_satisfied"} \cup AuthorizedEvent(Reread(done, decision[p], new))
        \in SUBSET AuditEvents
    BY DEF AuthorizedEvent, AuditEvents
  <2>5. /\ decision' \in [Proposals -> Decisions \cup {NoDecision}]
        /\ records' \in [Proposals -> SUBSET ApprovalRecords]
        /\ audit' \in [Proposals -> SUBSET AuditEvents]
        /\ cut' \in [Proposals -> 0..MaxCuts]
        /\ AllGood'
    BY <2>2, <2>3, <2>4, PersistKeeps
  <2> QED BY <1>7, <2>5 DEF SatisfyConfirmation, IInv, TypeOK
<1>8. ASSUME NEW p \in Proposals, NEW t \in EscalationTriggers, AddEscalation(p, t)
      PROVE  IInv'
  <2> DEFINE d == decision[p]
             status == IF d.status = "approved" THEN "escalated" ELSE d.status
             new == [d EXCEPT !.openEscalations = d.openEscalations \cup {t},
                              !.status = status, !.executionAuthorized = FALSE]
  <2>1. CallAllowed(p) /\ CountCall(p) /\ UNCHANGED age
    BY <1>8 DEF AddEscalation
  <2>2. d \in Decisions /\ Good(d)
    BY <2>1 DEF CallAllowed, IInv, TypeOK, AllGood
  <2>3. status \in Statuses /\ status # "approved"
        /\ d.openEscalations \cup {t} \in SUBSET EscalationTriggers
    BY <2>2 DEF Decisions, Statuses
  <2>4. new \in Decisions /\ Good(new)
    BY <2>2, <2>3, WithdrawnGood
  <2>5. PICK done \in WriteOutcomes : Persist(p, done, {}, new, {})
    BY <1>8 DEF AddEscalation
  <2>6. /\ decision' \in [Proposals -> Decisions \cup {NoDecision}]
        /\ records' \in [Proposals -> SUBSET ApprovalRecords]
        /\ audit' \in [Proposals -> SUBSET AuditEvents]
        /\ cut' \in [Proposals -> 0..MaxCuts]
        /\ AllGood'
    <3>1. {} \in SUBSET ApprovalRecords /\ {} \in SUBSET AuditEvents
      OBVIOUS
    <3> HIDE DEF new
    <3> QED BY <2>4, <2>5, <3>1, PersistKeeps
  <2>7. requests' \in [Proposals -> 0..MaxRequests]
    BY <2>1, WorkflowAssumption DEF CallAllowed, CountCall, IInv, TypeOK
  <2> QED BY <2>1, <2>6, <2>7 DEF IInv, TypeOK
<1>9. ASSUME NEW p \in Proposals, NEW t \in EscalationTriggers, ResolveEscalation(p, t)
      PROVE  IInv'
  <2> DEFINE d == decision[p]
             new == [d EXCEPT !.openEscalations = @ \ {t}]
  <2>1. d \in Decisions /\ Good(d)
    BY <1>9 DEF ResolveEscalation, IInv, TypeOK, AllGood
  <2>2. d.status \in Statuses /\ d.openEscalations \ {t} \in SUBSET EscalationTriggers
    BY <2>1 DEF Decisions
  <2>3. new = [d EXCEPT !.openEscalations = d.openEscalations \ {t}, !.status = d.status,
                        !.executionAuthorized = d.executionAuthorized]
    BY <2>1 DEF Decisions
  <2>4. new \in Decisions /\ Good(new)
    BY <2>1, <2>2, <2>3, WithdrawnGood
  <2>5. PICK done \in WriteOutcomes : Persist(p, done, {}, new, {})
    BY <1>9 DEF ResolveEscalation
  <2>6. /\ decision' \in [Proposals -> Decisions \cup {NoDecision}]
        /\ records' \in [Proposals -> SUBSET ApprovalRecords]
        /\ audit' \in [Proposals -> SUBSET AuditEvents]
        /\ cut' \in [Proposals -> 0..MaxCuts]
        /\ AllGood'
    <3>1. {} \in SUBSET ApprovalRecords /\ {} \in SUBSET AuditEvents
      OBVIOUS
    <3> HIDE DEF new
    <3> QED BY <2>4, <2>5, <3>1, PersistKeeps
  <2> QED BY <1>9, <2>6 DEF ResolveEscalation, IInv, TypeOK
<1>10. ASSUME ExpirySweep PROVE IInv'
  <2> DEFINE due == {p \in Proposals : Pending(p) /\ age[p] = "stale"}
             Expired(d) == [d EXCEPT !.status = "expired", !.executionAuthorized = FALSE]
  <2>1. PICK written \in SUBSET due :
           decision' = [p \in Proposals |->
                          IF p \in written
                            THEN [decision[p] EXCEPT !.status = "expired",
                                                     !.executionAuthorized = FALSE]
                            ELSE decision[p]]
    BY <1>10 DEF ExpirySweep
  <2>2. ASSUME NEW p \in written
        PROVE  Expired(decision[p]) \in Decisions /\ Good(Expired(decision[p]))
    <3> DEFINE d == decision[p]
    <3>1. d \in Decisions /\ Good(d)
      BY <2>2 DEF Pending, IInv, TypeOK, AllGood
    <3>2. Expired(d) = [d EXCEPT !.openEscalations = d.openEscalations, !.status = "expired",
                                 !.executionAuthorized = FALSE]
      BY <3>1 DEF Decisions
    <3>3. d.openEscalations \in SUBSET EscalationTriggers
      BY <3>1 DEF Decisions
    <3> QED BY <3>1, <3>2, <3>3, WithdrawnGood DEF Statuses
  <2>3. decision' \in [Proposals -> Decisions \cup {NoDecision}]
    BY <2>1, <2>2 DEF IInv, TypeOK
  <2>4. \A p \in Proposals : decision'[p] # NoDecision => Good(decision'[p])
    BY <2>1, <2>2 DEF IInv, AllGood
  <2>5. AllGood'
    BY <2>4 DEF AllGood, Good, Earned, AllConfirmed, ApprovedIn, Dual, ApproversDiffer,
                TwoApprovers
  <2> QED BY <1>10, <2>3, <2>5 DEF ExpirySweep, IInv, TypeOK
<1>11. CASE UNCHANGED vars
  BY <1>11 DEF vars, IInv, TypeOK, AllGood, Good, Earned, AllConfirmed,
               ApprovedIn, Dual, ApproversDiffer, TwoApprovers
<1> QED BY <1>1, <1>2, <1>3, <1>4, <1>5, <1>6, <1>7, <1>8, <1>9, <1>10, <1>11 DEF Next

\* The invariant of the registry: what it computes from is always consistent.
THEOREM IInvHolds == Spec => []IInv
BY InitIInv, NextKeepsIInv, PTL DEF Spec

-----------------------------------------------------------------------------
(***************************************************************************)
(* The properties that follow.                                             *)
(***************************************************************************)

\* Every decision, log and audit trail has its type: no call builds a record
\* that the readers of the files would not expect.
THEOREM TypeCorrect == Spec => []TypeOK
<1>1. IInv => TypeOK
  BY DEF IInv
<1> QED BY <1>1, IInvHolds, PTL

\* Execution is only ever authorized by the policy or by as many approvals as
\* the tier requires, with every confirmation given: for any number of
\* proposals and calls, and whichever writes are lost.
THEOREM AuthorizationIsEarned == Spec => []AuthorizationEarned
<1>1. IInv => AuthorizationEarned
  <2> SUFFICES ASSUME IInv, NEW p \in Proposals, CanExecute(p)
               PROVE  /\ AllConfirmed(decision[p])
                      /\ \/ decision[p].selfAuthorized
                         \/ Cardinality(ApprovedIn(decision[p]))
                              >= ApprovalsRequired(decision[p].requiredTier)
    BY DEF AuthorizationEarned
  <2>1. Good(decision[p]) /\ decision[p].executionAuthorized
    BY DEF IInv, AllGood, CanExecute
  <2> QED BY <2>1 DEF Good, Earned
<1> QED BY <1>1, IInvHolds, PTL

\* A decision of the dual tier is approved, or starts execution, only after
\* two different actors approved it.
THEOREM DualControlHolds == Spec => []DualControl
<1>1. IInv => DualControl
  <2> SUFFICES ASSUME IInv, NEW p \in Proposals, decision[p] # NoDecision,
                      Dual(decision[p]),
                      decision[p].status = "approved" \/ decision[p].executionAuthorized
               PROVE  \E a, b \in Actors :
                         /\ a # b
                         /\ {a, b} \subseteq {r.actor : r \in ApprovedIn(decision[p])}
    BY DEF DualControl, Dual
  <2> DEFINE d == decision[p]
  <2>1. d \in Decisions /\ Good(d)
    BY DEF IInv, TypeOK, AllGood
  <2>2. TwoApprovers(d)
    <3>1. CASE d.status = "approved"
      BY <2>1, <3>1 DEF Good
    <3>2. CASE d.executionAuthorized
      <4>1. d.approvalsRequired = 2
        BY <2>1, RequiredNumbers DEF Good, Dual, Decisions
      <4>2. Cardinality(ApprovedIn(d)) >= 2
        BY <2>1, <3>2, <4>1 DEF Good, Earned
      <4> QED BY <2>1, <4>2, EnoughMeansTwo DEF Good
    <3> QED BY <3>1, <3>2
  <2>3. PICK r, s \in ApprovedIn(d) : r.actor # s.actor
    BY <2>2 DEF TwoApprovers
  <2>4. r.actor \in Actors /\ s.actor \in Actors
    BY <2>1 DEF ApprovedIn, Decisions, ApprovalRecords
  <2> QED BY <2>3, <2>4
<1> QED BY <1>1, IInvHolds, PTL

\* d continues the decision c.
Continues(c, d) ==
    d # NoDecision /\ d.requiredTier = c.requiredTier /\ c.approvals \subseteq d.approvals

\* What an approval or a refusal computes continues what it is computed from.
LEMMA AnswerContinues ==
    ASSUME NEW d \in Decisions, NEW rec \in ApprovalRecords
    PROVE  /\ Continues(d, AfterApproval(d, rec))
           /\ rec.outcome \in Statuses => Continues(d, AfterRefusal(d, rec))
<1>1. \A e \in Decisions : e # NoDecision
  BY NoDecisionAssumption
<1>2. AfterApproval(d, rec) \in Decisions
  BY DEF AfterApproval, Decisions, Statuses
<1>3. /\ AfterApproval(d, rec).requiredTier = d.requiredTier
      /\ AfterApproval(d, rec).approvals = d.approvals \cup {rec}
  BY DEF AfterApproval, Decisions
<1>4. /\ rec.outcome \in Statuses => AfterRefusal(d, rec) \in Decisions
      /\ AfterRefusal(d, rec).requiredTier = d.requiredTier
      /\ AfterRefusal(d, rec).approvals = d.approvals \cup {rec}
  BY DEF AfterRefusal, Decisions
<1> QED BY <1>1, <1>2, <1>3, <1>4 DEF Continues

\* So does a confirmation.
LEMMA ConfirmationContinues ==
    ASSUME NEW d \in Decisions, NEW kind \in ConfirmationKinds
    PROVE  Continues(d, AfterConfirmation(d, kind))
<1>1. AfterConfirmation(d, kind) \in Decisions
  <2>1. [d EXCEPT !.satisfied = @ \cup {kind}] \in Decisions
    BY DEF Decisions
  <2> QED BY <2>1 DEF AfterConfirmation, Decisions
<1>2. /\ AfterConfirmation(d, kind).requiredTier = d.requiredTier
      /\ AfterConfirmation(d, kind).approvals = d.approvals
  BY DEF AfterConfirmation, Decisions
<1> QED BY <1>1, <1>2, NoDecisionAssumption DEF Continues

\* Persisting a continuation of p's decision continues every decision.
LEMMA PersistContinues ==
    ASSUME IInv, NEW p \in Proposals, NEW done, NEW recs, NEW d, NEW events,
           decision[p] = NoDecision \/ Continues(decision[p], d),
           Persist(p, done, recs, d, events),
           NEW q \in Proposals, decision[q] # NoDecision
    PROVE  Continues(decision[q], decision'[q])
<1>1. decision'[q] = decision[q] \/ (q = p /\ decision'[q] = d)
  BY DEF IInv, TypeOK, Persist, Reread
<1>2. Continues(decision[q], decision[q])
  BY DEF Continues
<1> QED BY <1>1, <1>2

\* The tier of a decision and its approvals outlive every call: re-evaluation
\* on promotion, by IPC or by the sweep never replaces a decision.
THEOREM DecisionsAreKept == Spec => DecisionIsKept
<1>1. ASSUME IInv, Next, NEW q \in Proposals, decision[q] # NoDecision
      PROVE  Continues(decision[q], decision'[q])
  <2>1. \A p \in Proposals : decision[p] # NoDecision =>
           decision[p] \in Decisions /\ Continues(decision[p], decision[p])
    BY <1>1 DEF IInv, TypeOK, Continues
  <2>2. ASSUME NEW p \in Proposals, EvaluateProposal(p)
        PROVE  Continues(decision[q], decision'[q])
    BY <1>1, <2>2, PersistContinues DEF EvaluateProposal
  <2>3. ASSUME NEW p \in Proposals, CheckExecution(p)
        PROVE  Continues(decision[q], decision'[q])
    BY <1>1, <2>1, <2>3, PersistContinues DEF CheckExecution
  <2>4. ASSUME NEW p \in Proposals, TimePasses(p)
        PROVE  Continues(decision[q], decision'[q])
    BY <1>1, <2>1, <2>4 DEF TimePasses
  <2>5. ASSUME NEW p \in Proposals, NEW a \in Actors, Approve(p, a)
        PROVE  Continues(decision[q], decision'[q])
    <3>1. CallAllowed(p) /\ decision[p] # NoDecision
      BY <2>5 DEF Approve, CallAllowed
    <3>2. NewRecord(p, a, "approved") \in ApprovalRecords
      BY <1>1, <3>1, NewRecordTyped DEF Outcomes
    <3>3. Continues(decision[p], AfterApproval(decision[p], NewRecord(p, a, "approved")))
      BY <2>1, <3>1, <3>2, AnswerContinues
    <3> QED BY <1>1, <2>5, <3>3, PersistContinues DEF Approve
  <2>6. ASSUME NEW p \in Proposals, NEW a \in Actors,
               NEW outcome \in {"rejected", "deferred"}, NEW event,
               Refuse(p, a, outcome, event)
        PROVE  Continues(decision[q], decision'[q])
    <3>1. CallAllowed(p) /\ decision[p] # NoDecision
      BY <2>6 DEF Refuse, CallAllowed
    <3>2. /\ NewRecord(p, a, outcome) \in ApprovalRecords
          /\ NewRecord(p, a, outcome).outcome \in Statuses
      BY <1>1, <3>1, NewRecordTyped DEF Outcomes, Statuses
    <3>3. Continues(decision[p], AfterRefusal(decision[p], NewRecord(p, a, outcome)))
      BY <2>1, <3>1, <3>2, AnswerContinues
    <3> QED BY <1>1, <2>6, <3>3, PersistContinues DEF Refuse
  <2>7. ASSUME NEW p \in Proposals, NEW k \in ConfirmationKinds, SatisfyConfirmation(p, k)
        PROVE  Continues(decision[q], decision'[q])
    <3>1. decision[p] # NoDecision
      BY <2>7 DEF SatisfyConfirmation
    <3>2. Continues(decision[p], AfterConfirmation(decision[p], k))
      BY <2>1, <3>1, ConfirmationContinues
    <3> QED BY <1>1, <2>7, <3>2, PersistContinues DEF SatisfyConfirmation
  <2>8. ASSUME NEW p \in Proposals, NEW t \in EscalationTriggers, AddEscalation(p, t)
        PROVE  Continues(decision[q], decision'[q])
    <3> DEFINE new == [decision[p] EXCEPT
                          !.openEscalations = @ \cup {t},
                          !.status = IF @ = "approved" THEN "escalated" ELSE @,
                          !.executionAuthorized = FALSE]
    <3>1. decision[p] \in Decisions
      BY <2>1, <2>8 DEF AddEscalation, CallAllowed
    <3>2. new \in Decisions
      BY <3>1 DEF Decisions, Statuses
    <3>3. new.requiredTier = decision[p].requiredTier /\ new.approvals = decision[p].approvals
      BY <3>1 DEF Decisions
    <3>4. Continues(decision[p], new)
      BY <3>2, <3>3, NoDecisionAssumption DEF Continues
    <3>5. \E done \in WriteOutcomes : Persist(p, done, {}, new, {})
      BY <2>8 DEF AddEscalation
    <3> QED BY <1>1, <3>4, <3>5, PersistContinues
  <2>9. ASSUME NEW p \in Proposals, NEW t \in EscalationTriggers, ResolveEscalation(p, t)
        PROVE  Continues(decision[q], decision'[q])
    <3> DEFINE new == [decision[p] EXCEPT !.openEscalations = @ \ {t}]
    <3>1. decision[p] \in Decisions
      BY <2>1, <2>9 DEF ResolveEscalation
    <3>2. new \in Decisions
      BY <3>1 DEF Decisions
    <3>3. new.requiredTier = decision[p].requiredTier /\ new.approvals = decision[p].approvals
      BY <3>1 DEF Decisions
    <3>4. Continues(decision[p], new)
      BY <3>2, <3>3, NoDecisionAssumption DEF Continues
    <3>5. \E done \in WriteOutcomes : Persist(p, done, {}, new, {})
      BY <2>9 DEF ResolveEscalation
    <3> QED BY <1>1, <3>4, <3>5, PersistContinues
  <2>10. CASE ExpirySweep
    <3> DEFINE expired == [decision[q] EXCEPT !.status = "expired",
                                              !.executionAuthorized = FALSE]
    <3>1. decision[q] \in Decisions
      BY <1>1, <2>1
    <3>2. decision'[q] = decision[q] \/ decision'[q] = expired
      BY <2>10 DEF ExpirySweep
    <3>3. expired \in Decisions
      BY <3>1 DEF Decisions, Statuses
    <3>4. expired.requiredTier = decision[q].requiredTier
          /\ expired.approvals = decision[q].approvals
      BY <3>1 DEF Decisions
    <3> QED BY <1>1, <2>1, <3>2, <3>3, <3>4, NoDecisionAssumption DEF Continues
  <2> QED
    BY <1>1, <2>2, <2>3, <2>4, <2>5, <2>6, <2>7, <2>8, <2>9, <2>10 DEF Next, Reject, Defer
<1>2. IInv /\ [Next]_vars =>
         [\A p \in Proposals : decision[p] # NoDecision =>
             /\ decision'[p] # NoDecision
             /\ decision'[p].requiredTier = decision[p].requiredTier
             /\ decision[p].approvals \subseteq decision'[p].approvals]_vars
  BY <1>1 DEF Continues
<1> QED BY <1>2, IInvHolds, PTL DEF Spec, DecisionIsKept

-----------------------------------------------------------------------------
(***************************************************************************)
(* The order of the writes.                                                *)
(***************************************************************************)

\* When only a crash can cut a call short, the decision is never written
\* without the approval record that was appended before it.
LEMMA RecordComesFirst ==
    ASSUME WriteFaults # "disk", NEW done \in WriteOutcomes, "decision" \in done
    PROVE  "record" \in done
BY WorkflowAssumption DEF WriteOutcomes, Writes

Logged(p) == decision[p] # NoDecision => decision[p].approvals \subseteq records[p]

\* A call whose decision adds only approvals that it also logs leaves every
\* decision behind its log.
LEMMA PersistLogs ==
    ASSUME IInv, WriteFaults # "disk", NEW p \in Proposals, NEW done \in WriteOutcomes,
           NEW recs, NEW d, NEW events, Persist(p, done, recs, d, events),
           d = NoDecision \/ d.approvals \subseteq records[p] \cup recs,
           NEW q \in Proposals, Logged(q)
    PROVE  Logged(q)'
<1>1. CASE q # p
  BY <1>1 DEF IInv, TypeOK, Persist, Reread, Logged
<1>2. CASE q = p /\ "decision" \in done
  <2>1. "record" \in done
    BY <1>2, RecordComesFirst
  <2>2. decision'[p] = d /\ records'[p] = records[p] \cup recs
    BY <1>2, <2>1 DEF IInv, TypeOK, Persist, Reread
  <2> QED BY <1>2, <2>2 DEF Logged
<1>3. CASE q = p /\ "decision" \notin done
  <2>1. decision'[p] = decision[p] /\ records[p] \subseteq records'[p]
    BY <1>3 DEF IInv, TypeOK, Persist, Reread
  <2> QED BY <1>3, <2>1 DEF Logged
<1> QED BY <1>1, <1>2, <1>3

\* An approval that counts is in the append-only log: if the process dies in
\* the middle of a call, the decision is at most behind its log.
THEOREM ApprovalsAreLogged ==
    ASSUME WriteFaults # "disk"
    PROVE  Spec => []ApprovalsOnRecord
<1>1. Init => ApprovalsOnRecord
  BY DEF Init, ApprovalsOnRecord
<1>2. ASSUME IInv, Next, ApprovalsOnRecord, NEW q \in Proposals
      PROVE  Logged(q)'
  <2>1. \A p \in Proposals :
           /\ Logged(p)
           /\ decision[p] # NoDecision => decision[p] \in Decisions
    BY <1>2 DEF ApprovalsOnRecord, Logged, IInv, TypeOK
  <2>2. ASSUME NEW p \in Proposals, EvaluateProposal(p) PROVE Logged(q)'
    <3>1. \A e : NewDecision(e).approvals = {}
      BY DEF NewDecision
    <3> QED BY <1>2, <2>1, <2>2, <3>1, PersistLogs DEF EvaluateProposal
  <2>3. ASSUME NEW p \in Proposals, CheckExecution(p) PROVE Logged(q)'
    <3>1. decision[p].approvals \subseteq records[p] \cup {}
      BY <2>1, <2>3 DEF CheckExecution, Logged
    <3> QED BY <1>2, <2>1, <2>3, <3>1, PersistLogs DEF CheckExecution
  <2>4. ASSUME NEW p \in Proposals, TimePasses(p) PROVE Logged(q)'
    BY <2>1, <2>4 DEF TimePasses, Logged
  <2>5. ASSUME NEW p \in Proposals, NEW a \in Actors, Approve(p, a) PROVE Logged(q)'
    <3> DEFINE rec == NewRecord(p, a, "approved")
               new == AfterApproval(decision[p], rec)
    <3>1. decision[p] \in Decisions /\ decision[p].approvals \subseteq records[p]
      BY <2>1, <2>5 DEF Approve, CallAllowed, Logged
    <3>2. new.approvals = decision[p].approvals \cup {rec}
      BY <3>1 DEF AfterApproval, Decisions
    <3>3. PICK done \in WriteOutcomes :
             Persist(p, done, {rec}, new,
                     {"approval_recorded"}
                     \cup AuthorizedEvent(Reread(done, decision[p], new)))
      BY <2>5 DEF Approve
    <3>4. new.approvals \subseteq records[p] \cup {rec}
      BY <3>1, <3>2
    <3> HIDE DEF new, rec
    <3> QED BY <1>2, <2>1, <3>3, <3>4, PersistLogs
  <2>6. ASSUME NEW p \in Proposals, NEW a \in Actors, NEW outcome, NEW event,
               Refuse(p, a, outcome, event)
        PROVE  Logged(q)'
    <3> DEFINE rec == NewRecord(p, a, outcome)
               new == AfterRefusal(decision[p], rec)
    <3>1. decision[p] \in Decisions /\ decision[p].approvals \subseteq records[p]
      BY <2>1, <2>6 DEF Refuse, CallAllowed, Logged
    <3>2. new.approvals = decision[p].approvals \cup {rec}
      BY <3>1 DEF AfterRefusal, Decisions
    <3>3. PICK done \in WriteOutcomes : Persist(p, done, {rec}, new, {event})
      BY <2>6 DEF Refuse
    <3>4. new.approvals \subseteq records[p] \cup {rec}
      BY <3>1, <3>2
    <3> HIDE DEF new, rec
    <3> QED BY <1>2, <2>1, <3>3, <3>4, PersistLogs
  <2>7. ASSUME NEW p \in Proposals, NEW k \in ConfirmationKinds, SatisfyConfirmation(p, k)
        PROVE  Logged(q)'
    <3> DEFINE new == AfterConfirmation(decision[p], k)
    <3>1. decision[p] \in Decisions /\ decision[p].approvals \subseteq records[p]
      BY <2>1, <2>7 DEF SatisfyConfirmation, Logged
    <3>2. new.approvals \subseteq records[p] \cup {}
      BY <3>1 DEF AfterConfirmation, Decisions
    <3>3. PICK done \in WriteOutcomes :
             Persist(p, done, {}, new,
                   {"confirmation_satisfied"}
                   \cup AuthorizedEvent(Reread(done, decision[p], new)))
      BY <2>7 DEF SatisfyConfirmation
    <3> HIDE DEF new
    <3> QED BY <1>2, <2>1, <3>2, <3>3, PersistLogs
  <2>8. ASSUME NEW p \in Proposals, NEW t \in EscalationTriggers, AddEscalation(p, t)
        PROVE  Logged(q)'
    <3> DEFINE new == [decision[p] EXCEPT
                          !.openEscalations = @ \cup {t},
                          !.status = IF @ = "approved" THEN "escalated" ELSE @,
                          !.executionAuthorized = FALSE]
    <3>1. decision[p] \in Decisions /\ decision[p].approvals \subseteq records[p]
      BY <2>1, <2>8 DEF AddEscalation, CallAllowed, Logged
    <3>2. new.approvals \subseteq records[p] \cup {}
      BY <3>1 DEF Decisions
    <3>3. PICK done \in WriteOutcomes : Persist(p, done, {}, new, {})
      BY <2>8 DEF AddEscalation
    <3> HIDE DEF new
    <3> QED BY <1>2, <2>1, <3>2, <3>3, PersistLogs
  <2>9. ASSUME NEW p \in Proposals, NEW t \in EscalationTriggers, ResolveEscalation(p, t)
        PROVE  Logged(q)'
    <3> DEFINE new == [decision[p] EXCEPT !.openEscalations = @ \ {t}]
    <3>1. decision[p] \in Decisions /\ decision[p].approvals \subseteq records[p]
      BY <2>1, <2>9 DEF ResolveEscalation, Logged
    <3>2. new.approvals \subseteq records[p] \cup {}
      BY <3>1 DEF Decisions
    <3>3. PICK done \in WriteOutcomes : Persist(p, done, {}, new, {})
      BY <2>9 DEF ResolveEscalation
    <3> HIDE DEF new
    <3> QED BY <1>2, <2>1, <3>2, <3>3, PersistLogs
  <2>10. CASE ExpirySweep
    <3> DEFINE expired == [decision[q] EXCEPT !.status = "expired",
                                              !.executionAuthorized = FALSE]
    <3>1. decision'[q] = decision[q]
          \/ (decision[q] # NoDecision /\ decision'[q] = expired)
      BY <2>10 DEF ExpirySweep, Pending
    <3>2. decision[q] # NoDecision => expired.approvals = decision[q].approvals
      BY <2>1 DEF Decisions
    <3>3. records' = records
      BY <2>10 DEF ExpirySweep
    <3> QED BY <2>1, <3>1, <3>2, <3>3 DEF Logged
  <2> QED
    BY <1>2, <2>2, <2>3, <2>4, <2>5, <2>6, <2>7, <2>8, <2>9, <2>10 DEF Next, Reject, Defer
<1>3. IInv /\ ApprovalsOnRecord /\ [Next]_vars => ApprovalsOnRecord'
  <2>1. CASE Next
    BY <1>2, <2>1 DEF Logged, ApprovalsOnRecord
  <2>2. CASE UNCHANGED vars
    BY <2>2 DEF vars, ApprovalsOnRecord
  <2> QED BY <2>1, <2>2
<1> QED BY <1>1, <1>3, IInvHolds, PTL DEF Spec

-----------------------------------------------------------------------------
(***************************************************************************)
(* The audit of authorizations.                                            *)
(***************************************************************************)
Audited(p) == CanExecute(p) /\ cut[p] = 0 => "execution_authorized" \in audit[p]

\* A call that loses no write leaves the event with the authorization it gives,
\* if it gives one, and never takes an event back; one that loses a write is
\* counted in cut.
LEMMA PersistAudits ==
    ASSUME IInv, NEW p \in Proposals, NEW done,
           NEW recs, NEW d, NEW events, Persist(p, done, recs, d, events),
           done = Writes /\ d.executionAuthorized =>
              "execution_authorized" \in events \/ (CanExecute(p) /\ Audited(p)),
           NEW q \in Proposals, Audited(q)
    PROVE  Audited(q)'
<1>1. CASE q # p
  <2>1. cut'[q] = cut[q] /\ decision'[q] = decision[q] /\ audit'[q] = audit[q]
    BY <1>1 DEF IInv, TypeOK, Persist, Reread
  <2> QED BY <2>1 DEF Audited, CanExecute
<1>2. CASE q = p /\ done = Writes
  <2>1. decision'[p] = d /\ audit'[p] = audit[p] \cup events /\ cut'[p] = cut[p]
    BY <1>2 DEF IInv, TypeOK, Persist, Reread, Writes
  <2> QED BY <1>2, <2>1 DEF Audited, CanExecute
<1>3. CASE q = p /\ done # Writes
  <2>1. cut[p] \in Nat /\ cut'[p] = cut[p] + 1
    BY <1>3, WorkflowAssumption DEF IInv, TypeOK, Persist
  <2> QED BY <1>3, <2>1 DEF Audited
<1> QED BY <1>1, <1>2, <1>3

\* Whichever call authorizes a decision, its event is in the audit log, unless
\* a call on the proposal lost one of its writes.
THEOREM AuthorizationsAreAudited == Spec => []AuthorizationAudited
<1>1. Init => AuthorizationAudited
  BY DEF Init, AuthorizationAudited, CanExecute
<1>2. ASSUME IInv, Next, AuthorizationAudited, NEW q \in Proposals
      PROVE  Audited(q)'
  <2>1. \A p \in Proposals :
           /\ Audited(p)
           /\ decision[p] # NoDecision => decision[p] \in Decisions
    BY <1>2 DEF AuthorizationAudited, Audited, IInv, TypeOK
  <2>0. \A old, new : Reread(Writes, old, new) = new
    BY DEF Writes, Reread
  <2>2. ASSUME NEW p \in Proposals, EvaluateProposal(p) PROVE Audited(q)'
    <3>1. PICK e \in Evaluations, done \in WriteOutcomes :
             Persist(p, done, {}, NewDecision(e),
                     {"policy_evaluated", "decision_created"}
                     \cup (IF NewDecision(e).selfAuthorized
                             THEN {"self_authorization_applied"} ELSE {})
                     \cup AuthorizedEvent(NewDecision(e)))
      BY <2>2 DEF EvaluateProposal
    <3> QED BY <1>2, <2>1, <3>1, PersistAudits DEF AuthorizedEvent
  <2>3. ASSUME NEW p \in Proposals, CheckExecution(p) PROVE Audited(q)'
    <3>1. PICK done \in WriteOutcomes :
             Persist(p, done, {}, decision[p],
                     {IF CanExecute(p) THEN "execution_authorized" ELSE "execution_blocked"})
      BY <2>3 DEF CheckExecution
    <3>2. decision[p].executionAuthorized => CanExecute(p)
      BY <2>3 DEF CheckExecution, CanExecute
    <3> QED BY <1>2, <2>1, <3>1, <3>2, PersistAudits
  <2>4. ASSUME NEW p \in Proposals, TimePasses(p) PROVE Audited(q)'
    BY <2>1, <2>4 DEF TimePasses, Audited, CanExecute
  <2>5. ASSUME NEW p \in Proposals, NEW a \in Actors, Approve(p, a) PROVE Audited(q)'
    <3> DEFINE rec == NewRecord(p, a, "approved")
               new == AfterApproval(decision[p], rec)
    <3>1. PICK done \in WriteOutcomes :
             Persist(p, done, {rec}, new,
                     {"approval_recorded"}
                     \cup AuthorizedEvent(Reread(done, decision[p], new)))
      BY <2>5 DEF Approve
    <3>2. done = Writes /\ new.executionAuthorized => "execution_authorized"
             \in {"approval_recorded"} \cup AuthorizedEvent(Reread(done, decision[p], new))
      BY <2>0 DEF AuthorizedEvent
    <3> HIDE DEF new, rec
    <3> QED BY <1>2, <2>1, <3>1, <3>2, PersistAudits
  <2>6. ASSUME NEW p \in Proposals, NEW a \in Actors, NEW outcome, NEW event,
               Refuse(p, a, outcome, event)
        PROVE  Audited(q)'
    <3> DEFINE rec == NewRecord(p, a, outcome)
               new == AfterRefusal(decision[p], rec)
    <3>1. decision[p] \in Decisions
      BY <2>1, <2>6 DEF Refuse, CallAllowed
    <3>2. ~new.executionAuthorized
      BY <3>1 DEF AfterRefusal, Decisions
    <3>3. PICK done \in WriteOutcomes : Persist(p, done, {rec}, new, {event})
      BY <2>6 DEF Refuse
    <3> HIDE DEF new, rec
    <3> QED BY <1>2, <2>1, <3>2, <3>3, PersistAudits
  <2>7. ASSUME NEW p \in Proposals, NEW k \in ConfirmationKinds, SatisfyConfirmation(p, k)
        PROVE  Audited(q)'
    <3> DEFINE new == AfterConfirmation(decision[p], k)
    <3>1. PICK done \in WriteOutcomes :
             Persist(p, done, {}, new,
                   {"confirmation_satisfied"}
                   \cup AuthorizedEvent(Reread(done, decision[p], new)))
      BY <2>7 DEF SatisfyConfirmation
    <3>2. done = Writes /\ new.executionAuthorized => "execution_authorized"
             \in {"confirmation_satisfied"} \cup AuthorizedEvent(Reread(done, decision[p], new))
      BY <2>0 DEF AuthorizedEvent
    <3> HIDE DEF new
    <3> QED BY <1>2, <2>1, <3>1, <3>2, PersistAudits
  <2>8. ASSUME NEW p \in Proposals, NEW t \in EscalationTriggers, AddEscalation(p, t)
        PROVE  Audited(q)'
    <3> DEFINE new == [decision[p] EXCEPT
                          !.openEscalations = @ \cup {t},
                          !.status = IF @ = "approved" THEN "escalated" ELSE @,
                          !.executionAuthorized = FALSE]
    <3>1. decision[p] \in Decisions
      BY <2>1, <2>8 DEF AddEscalation, CallAllowed
    <3>2. ~new.executionAuthorized
      BY <3>1 DEF Decisions
    <3>3. PICK done \in WriteOutcomes : Persist(p, done, {}, new, {})
      BY <2>8 DEF AddEscalation
    <3> HIDE DEF new
    <3> QED BY <1>2, <2>1, <3>2, <3>3, PersistAudits
  <2>9. ASSUME NEW p \in Proposals, NEW t \in EscalationTriggers, ResolveEscalation(p, t)
        PROVE  Audited(q)'
    <3> DEFINE new == [decision[p] EXCEPT !.openEscalations = @ \ {t}]
    <3>1. decision[p] # NoDecision /\ decision[p] \in Decisions
      BY <2>1, <2>9 DEF ResolveEscalation
    <3>2. new.executionAuthorized => CanExecute(p) /\ Audited(p)
      BY <2>1, <3>1 DEF Decisions, CanExecute
    <3>3. PICK done \in WriteOutcomes : Persist(p, done, {}, new, {})
      BY <2>9 DEF ResolveEscalation
    <3> HIDE DEF new
    <3> QED BY <1>2, <2>1, <3>2, <3>3, PersistAudits
  <2>10. CASE ExpirySweep
    <3> DEFINE expired == [decision[q] EXCEPT !.status = "expired",
                                              !.executionAuthorized = FALSE]
    <3>1. decision'[q] = decision[q]
          \/ (decision[q] # NoDecision /\ decision'[q] = expired)
      BY <2>10 DEF ExpirySweep, Pending
    <3>2. decision[q] # NoDecision => ~expired.executionAuthorized
      BY <2>1 DEF Decisions
    <3>3. audit' = audit /\ cut' = cut
      BY <2>10 DEF ExpirySweep
    <3> QED BY <2>1, <3>1, <3>2, <3>3 DEF Audited, CanExecute
  <2> QED
    BY <1>2, <2>2, <2>3, <2>4, <2>5, <2>6, <2>7, <2>8, <2>9, <2>10 DEF Next, Reject, Defer
<1>3. IInv /\ AuthorizationAudited /\ [Next]_vars => AuthorizationAudited'
  <2>1. CASE Next
    BY <1>2, <2>1 DEF Audited, AuthorizationAudited, CanExecute
  <2>2. CASE UNCHANGED vars
    BY <2>2 DEF vars, AuthorizationAudited, CanExecute
  <2> QED BY <2>1, <2>2
<1> QED BY <1>1, <1>3, IInvHolds, PTL DEF Spec
=============================================================================
