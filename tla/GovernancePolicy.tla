-------------------------- MODULE GovernancePolicy --------------------------
(***************************************************************************)
(* The policy engine (GovernancePolicyEngine.evaluate) on the bundled      *)
(* default policy (defaults/defaultPolicy.ts).  The engine walks the rule  *)
(* table once; a rule matches when all its conditions do, and the most     *)
(* restrictive tier of the matching rules wins.  The walk is a behaviour   *)
(* here, one rule a step, so that the result can be compared with a        *)
(* definition that knows nothing of the order of the table.                *)
(***************************************************************************)
EXTENDS AuthorityTiers, Sequences, FiniteSets

CONSTANTS
    MaxFiles,                 \* bound on fileCount
    SelfAuthorizationDisabled \* policy.selfAuthorizationDisabled

ASSUME PolicyAssumption ==
    /\ MaxFiles \in Nat
    /\ SelfAuthorizationDisabled \in BOOLEAN

SafetyClasses == {"safe_auto", "safe_with_review", "high_risk", "blocked"}

\* GovernancePolicyInput, restricted to the fields a condition of the
\* default policy reads.
PolicyInputs ==
    [safetyClass : SafetyClasses, isProtectedSubsystem : BOOLEAN,
     hasProtectedFile : BOOLEAN, fileCount : 1..MaxFiles,
     verificationManualRequired : BOOLEAN, hasInvariantSensitivity : BOOLEAN]

Unprotected(in) ==
    ~in.isProtectedSubsystem /\ ~in.hasProtectedFile /\ ~in.hasInvariantSensitivity

\* Mutant: the allowlist goes up to four files.
Narrow_Mutant(in) == in.fileCount <= 4 /\ Unprotected(in)

\* What both self-authorization rules ask for.
Narrow(in) == in.fileCount <= 2 /\ Unprotected(in)

\* The rule table: what each rule requires when it matches.
Rules == <<
    [id |-> "GOV-BLOCKED", tier |-> "blocked", manual |-> FALSE, escalate |-> FALSE],
    [id |-> "GOV-PROT-HIGH", tier |-> "human_dual_approval", manual |-> TRUE, escalate |-> TRUE],
    [id |-> "GOV-PROT-SUBSYSTEM", tier |-> "protected_subsystem", manual |-> TRUE, escalate |-> TRUE],
    [id |-> "GOV-PROT-FILES", tier |-> "human_review_required", manual |-> TRUE, escalate |-> FALSE],
    [id |-> "GOV-HIGH-RISK", tier |-> "human_review_required", manual |-> TRUE, escalate |-> TRUE],
    [id |-> "GOV-INVARIANT", tier |-> "human_review_required", manual |-> FALSE, escalate |-> TRUE],
    [id |-> "GOV-WIDE-SCOPE", tier |-> "human_review_required", manual |-> FALSE, escalate |-> FALSE],
    [id |-> "GOV-REVIEW-MODERATE", tier |-> "human_review_required", manual |-> FALSE, escalate |-> FALSE],
    [id |-> "GOV-REVIEW-MANUAL-VERIFY", tier |-> "human_review_required", manual |-> TRUE, escalate |-> FALSE],
    [id |-> "GOV-SELF-STANDARD", tier |-> "tala_self_standard", manual |-> FALSE, escalate |-> FALSE],
    [id |-> "GOV-SELF-LOW-RISK", tier |-> "tala_self_low_risk", manual |-> FALSE, escalate |-> FALSE] >>

\* The conditions of the table, all of which must hold (_ruleMatches).
RuleMatches(id, in) ==
    CASE id = "GOV-BLOCKED" -> in.safetyClass = "blocked"
      [] id = "GOV-PROT-HIGH" ->
            in.isProtectedSubsystem /\ in.safetyClass \in {"high_risk", "blocked"}
      [] id = "GOV-PROT-SUBSYSTEM" -> in.isProtectedSubsystem
      [] id = "GOV-PROT-FILES" -> in.hasProtectedFile
      [] id = "GOV-HIGH-RISK" -> in.safetyClass = "high_risk"
      [] id = "GOV-INVARIANT" -> in.hasInvariantSensitivity
      [] id = "GOV-WIDE-SCOPE" -> in.fileCount >= 5
      [] id = "GOV-REVIEW-MODERATE" ->
            in.safetyClass = "safe_with_review" /\ in.fileCount >= 3
      [] id = "GOV-REVIEW-MANUAL-VERIFY" ->
            in.safetyClass = "safe_with_review" /\ in.verificationManualRequired
      [] id = "GOV-SELF-STANDARD" ->
            in.safetyClass = "safe_with_review" /\ Narrow(in) /\ ~in.verificationManualRequired
      [] id = "GOV-SELF-LOW-RISK" ->
            in.safetyClass = "safe_auto" /\ Narrow(in)

DefaultTier == "human_review_required"

\* The result fields derived from the resolved tier and the matched rules.
Result(tier, manual, escalate) ==
    [tier |-> tier,
     requiresManualConfirmation |-> manual,
     escalateOnVerificationFailure |-> escalate,
     selfAuthorizationPermitted |->
        TierAllowsSelfAuthorization(tier) /\ ~SelfAuthorizationDisabled,
     blockedByPolicy |-> tier \in {"blocked", "emergency_manual_only"},
     approvalsRequired |-> ApprovalsRequired(tier)]

(***************************************************************************)
(* The walk of evaluate() over policy.rules.                               *)
(***************************************************************************)
VARIABLES
    input,   \* the proposal's facts
    next,    \* index of the next rule
    matched, \* indices of the rules matched so far (matchedRules)
    current, \* accumulator of the reduce; "none" before the first match
    result   \* what evaluate() returns, NoResult until then

NoResult == [tier |-> "none"]

vars == << input, next, matched, current, result >>

Init ==
    /\ input \in PolicyInputs
    /\ next = 1
    /\ matched = {}
    /\ current = "none"
    /\ result = NoResult

ExamineRule ==
    /\ next <= Len(Rules)
    /\ next' = next + 1
    /\ IF RuleMatches(Rules[next].id, input)
         THEN /\ matched' = matched \cup {next}
              /\ current' = IF current = "none" THEN Rules[next].tier
                            ELSE MoreRestrictive(current, Rules[next].tier)
         ELSE UNCHANGED << matched, current >>
    /\ UNCHANGED << input, result >>

\* Mutant: the policy's default tier is not used.
Resolve_Mutant ==
    /\ next > Len(Rules)
    /\ result = NoResult
    /\ result' = Result(current, \E i \in matched : Rules[i].manual,
                        \E i \in matched : Rules[i].escalate)
    /\ UNCHANGED << input, next, matched, current >>

Resolve ==
    /\ next > Len(Rules)
    /\ result = NoResult
    /\ result' = Result(IF matched = {} THEN DefaultTier ELSE current,
                        \E i \in matched : Rules[i].manual,
                        \E i \in matched : Rules[i].escalate)
    /\ UNCHANGED << input, next, matched, current >>

Next == ExamineRule \/ Resolve

Spec == Init /\ [][Next]_vars

-----------------------------------------------------------------------------
\* The types of the walk's variables.
TypeOK ==
    /\ input \in PolicyInputs
    /\ next \in 1..(Len(Rules) + 1)
    /\ matched \subseteq 1..Len(Rules)
    /\ current \in Tiers \cup {"none"}
    /\ result = NoResult \/ result.tier \in Tiers

Done == result # NoResult

\* The declarative meaning of the default policy for one input: the tier of
\* highest priority among the rules that match, whatever their order.
ReferenceTier(in) ==
    LET hits == {Rules[i].tier : i \in {j \in 1..Len(Rules) : RuleMatches(Rules[j].id, in)}}
    IN  IF hits = {} THEN DefaultTier
        ELSE CHOOSE t \in hits : \A u \in hits : TierPriority(u) <= TierPriority(t)

\* "Most restrictive tier across all matching rules wins"
\* (GovernancePolicyEngine.ts): the fold over the table agrees with the
\* maximum, for every input.
MostRestrictiveWins == Done => result.tier = ReferenceTier(input)

\* No change that touches a protected subsystem, a protected file, an
\* invariant, five files or a high-risk class is ever authorized by policy
\* alone; the allowlist rules and the restricting rules are written
\* separately, and their combination must leave no gap.
RiskNeverSelfAuthorizes ==
    Done /\ result.selfAuthorizationPermitted =>
        /\ Unprotected(input)
        /\ input.fileCount < 3
        /\ input.safetyClass \in {"safe_auto", "safe_with_review"}

\* Every evaluation leaves exactly one way forward: blocked, authorized by
\* policy, at least one human approval -- or, with self-authorization
\* disabled, a self tier that asks a human although its tier needs none.
OnePathForward ==
    Done =>
        /\ ~(result.blockedByPolicy /\ result.selfAuthorizationPermitted)
        /\ result.blockedByPolicy \/ result.selfAuthorizationPermitted
              => result.approvalsRequired = 0
        /\ ~result.blockedByPolicy /\ ~result.selfAuthorizationPermitted
              => result.approvalsRequired > 0 \/ SelfAuthorizationDisabled

\* How much the result asks of humans.
Burden(r) == IF r.blockedByPolicy THEN 3 ELSE r.approvalsRequired

ResultFor(in) ==
    LET hits == {i \in 1..Len(Rules) : RuleMatches(Rules[i].id, in)}
    IN  Result(ReferenceTier(in), \E i \in hits : Rules[i].manual,
               \E i \in hits : Rules[i].escalate)

\* Adding a protection or a file to a proposal never lowers the number of
\* approvals it needs, although protected_subsystem ranks below the default
\* tier human_review_required: no proposal gets through more easily by
\* touching more.
ProtectionNeverLowersBurden ==
    Done =>
        \A riskier \in { [input EXCEPT !.isProtectedSubsystem = TRUE],
                         [input EXCEPT !.hasProtectedFile = TRUE],
                         [input EXCEPT !.hasInvariantSensitivity = TRUE],
                         [input EXCEPT !.safetyClass = "blocked"],
                         [input EXCEPT !.fileCount = MaxFiles] } :
            Burden(result) <= Burden(ResultFor(riskier))
=============================================================================
