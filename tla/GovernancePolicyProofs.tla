----------------------- MODULE GovernancePolicyProofs -----------------------
(***************************************************************************)
(* The walk of evaluate() returns the most restrictive tier of the rules   *)
(* that match, for every number of files; from it follow what the default  *)
(* policy promises about risky changes.                                    *)
(***************************************************************************)
EXTENDS GovernancePolicy, TLAPS

Hits(in) == {j \in 1..Len(Rules) : RuleMatches(Rules[j].id, in)}

\* Some rule for human review matches.
Reviewed(in) ==
    \/ in.hasProtectedFile \/ in.safetyClass = "high_risk"
    \/ in.hasInvariantSensitivity \/ in.fileCount >= 5
    \/ in.safetyClass = "safe_with_review"
          /\ (in.fileCount >= 3 \/ in.verificationManualRequired)

\* The default policy as a cascade, the most restrictive tier first.
Cascade(in) ==
    IF in.safetyClass = "blocked" THEN "blocked"
    ELSE IF in.isProtectedSubsystem /\ in.safetyClass = "high_risk" THEN "human_dual_approval"
    ELSE IF Reviewed(in) THEN "human_review_required"
    ELSE IF in.isProtectedSubsystem THEN "protected_subsystem"
    ELSE IF in.safetyClass = "safe_with_review" /\ Narrow(in) THEN "tala_self_standard"
    ELSE IF in.safetyClass = "safe_auto" /\ Narrow(in) THEN "tala_self_low_risk"
    ELSE DefaultTier

-----------------------------------------------------------------------------
\* The priorities of the tiers.
LEMMA Priorities ==
    /\ TierPriority("tala_self_low_risk") = 1
    /\ TierPriority("tala_self_standard") = 2
    /\ TierPriority("protected_subsystem") = 3
    /\ TierPriority("human_review_required") = 4
    /\ TierPriority("human_dual_approval") = 5
    /\ TierPriority("emergency_manual_only") = 6
    /\ TierPriority("blocked") = 7
  BY DEF TierPriority, TierOrder

\* There are eleven rules, and their tiers are tiers.
LEMMA RuleTable ==
    /\ Len(Rules) = 11
    /\ \A j \in 1..11 : Rules[j].tier \in Tiers
    /\ Rules[1].tier = "blocked" /\ Rules[2].tier = "human_dual_approval"
    /\ Rules[3].tier = "protected_subsystem"
    /\ \A j \in 4..9 : Rules[j].tier = "human_review_required"
    /\ Rules[10].tier = "tala_self_standard" /\ Rules[11].tier = "tala_self_low_risk"
  BY DEF Rules, Tiers
\* When each rule matches.
LEMMA RuleConditions ==
  ASSUME NEW in \in PolicyInputs
  PROVE  /\ RuleMatches(Rules[1].id, in) <=> in.safetyClass = "blocked"
         /\ RuleMatches(Rules[2].id, in)
               <=> in.isProtectedSubsystem /\ in.safetyClass \in {"high_risk", "blocked"}
         /\ RuleMatches(Rules[3].id, in) <=> in.isProtectedSubsystem
         /\ RuleMatches(Rules[4].id, in) <=> in.hasProtectedFile
         /\ RuleMatches(Rules[5].id, in) <=> in.safetyClass = "high_risk"
         /\ RuleMatches(Rules[6].id, in) <=> in.hasInvariantSensitivity
         /\ RuleMatches(Rules[7].id, in) <=> in.fileCount >= 5
         /\ RuleMatches(Rules[8].id, in)
               <=> in.safetyClass = "safe_with_review" /\ in.fileCount >= 3
         /\ RuleMatches(Rules[9].id, in)
               <=> in.safetyClass = "safe_with_review" /\ in.verificationManualRequired
         /\ RuleMatches(Rules[10].id, in)
               <=> /\ in.safetyClass = "safe_with_review" /\ Narrow(in)
                   /\ ~in.verificationManualRequired
         /\ RuleMatches(Rules[11].id, in) <=> in.safetyClass = "safe_auto" /\ Narrow(in)
  <1>1. /\ Rules[1].id = "GOV-BLOCKED" /\ Rules[2].id = "GOV-PROT-HIGH"
        /\ Rules[3].id = "GOV-PROT-SUBSYSTEM" /\ Rules[4].id = "GOV-PROT-FILES"
        /\ Rules[5].id = "GOV-HIGH-RISK" /\ Rules[6].id = "GOV-INVARIANT"
        /\ Rules[7].id = "GOV-WIDE-SCOPE" /\ Rules[8].id = "GOV-REVIEW-MODERATE"
        /\ Rules[9].id = "GOV-REVIEW-MANUAL-VERIFY"
        /\ Rules[10].id = "GOV-SELF-STANDARD" /\ Rules[11].id = "GOV-SELF-LOW-RISK"
    BY DEF Rules
  <1>. QED  BY <1>1 DEF RuleMatches, PolicyInputs

\* A rule that matches and outranks, or ties with, every rule that matches
\* gives the reference tier.
LEMMA StrictestRule ==
  ASSUME NEW in, NEW i \in Hits(in),
         \A j \in Hits(in) : TierPriority(Rules[j].tier) <= TierPriority(Rules[i].tier)
  PROVE  ReferenceTier(in) = Rules[i].tier
  <1>. DEFINE hits == {Rules[j].tier : j \in Hits(in)}
  <1>1. hits \subseteq Tiers
    BY RuleTable DEF Hits
  <1>2. Rules[i].tier \in hits /\ \A u \in hits : TierPriority(u) <= TierPriority(Rules[i].tier)
    OBVIOUS
  <1>3. \A t \in hits : (\A u \in hits : TierPriority(u) <= TierPriority(t)) => t = Rules[i].tier
    <2>. SUFFICES ASSUME NEW t \in hits, TierPriority(Rules[i].tier) <= TierPriority(t)
                  PROVE  t = Rules[i].tier
      BY <1>2
    <2>1. TierPriority(t) <= TierPriority(Rules[i].tier)
      BY <1>2
    <2>2. t \in Tiers /\ Rules[i].tier \in Tiers
      BY <1>1, <1>2
    <2>3. t \in Tiers => TierPriority(t) \in 1..7
      BY Priorities DEF Tiers
    <2>4. TierPriority(t) = TierPriority(Rules[i].tier)
      BY <2>1, <2>2, <2>3, Priorities DEF Tiers
    <2>. QED  BY <2>2, <2>4, Priorities DEF Tiers
  <1>4. ReferenceTier(in) =
          IF hits = {} THEN DefaultTier
          ELSE CHOOSE t \in hits : \A u \in hits : TierPriority(u) <= TierPriority(t)
    BY DEF ReferenceTier, Hits
  <1>. HIDE DEF hits
  <1>. QED  BY <1>2, <1>3, <1>4
\* The rules that match, by number.
LEMMA HitsOf ==
  ASSUME NEW in \in PolicyInputs
  PROVE  /\ Hits(in) \subseteq 1..11
         /\ \A j \in 1..11 : j \in Hits(in) <=> RuleMatches(Rules[j].id, in)
  BY RuleTable DEF Hits

\* The tiers of the rules from a number on are at most that rule's.
LEMMA RuleOrder ==
  /\ \A j \in 1..11 : TierPriority(Rules[j].tier) <= 7
  /\ \A j \in 2..11 : TierPriority(Rules[j].tier) <= 5
  /\ \A j \in 3..11 : TierPriority(Rules[j].tier) <= 4
  /\ \A j \in {3, 10, 11} : TierPriority(Rules[j].tier) <= 3
  /\ \A j \in {10, 11} : TierPriority(Rules[j].tier) <= 2
  <1>1. \A j \in 4..9 : TierPriority(Rules[j].tier) = 4
    BY RuleTable, Priorities
  <1>2. /\ TierPriority(Rules[1].tier) = 7 /\ TierPriority(Rules[2].tier) = 5
        /\ TierPriority(Rules[3].tier) = 3 /\ TierPriority(Rules[10].tier) = 2
        /\ TierPriority(Rules[11].tier) = 1
    BY RuleTable, Priorities
  <1>. HIDE DEF TierPriority
  <1>3. \A j \in 1..11 : j = 1 \/ j = 2 \/ j = 3 \/ j \in 4..9 \/ j = 10 \/ j = 11
    OBVIOUS
  <1>. QED  BY <1>1, <1>2, <1>3

\* The reference tier is the cascade, case by case.
LEMMA ReferenceIsCascade ==
  ASSUME NEW in \in PolicyInputs
  PROVE  ReferenceTier(in) = Cascade(in)
  <1>. USE HitsOf, RuleConditions
  <1>1. CASE in.safetyClass = "blocked"
    <2>1. 1 \in Hits(in)
      BY <1>1
    <2>2. \A j \in Hits(in) : TierPriority(Rules[j].tier) <= TierPriority(Rules[1].tier)
      BY RuleOrder, RuleTable, Priorities
    <2>. QED  BY <1>1, <2>1, <2>2, StrictestRule, RuleTable DEF Cascade
  <1>2. CASE in.isProtectedSubsystem /\ in.safetyClass = "high_risk"
    <2>1. 2 \in Hits(in) /\ Hits(in) \subseteq 2..11
      BY <1>2
    <2>2. \A j \in Hits(in) : TierPriority(Rules[j].tier) <= TierPriority(Rules[2].tier)
      BY <2>1, RuleOrder, RuleTable, Priorities
    <2>. QED  BY <1>2, <2>1, <2>2, StrictestRule, RuleTable DEF Cascade
  <1>3. CASE /\ in.safetyClass # "blocked"
             /\ ~(in.isProtectedSubsystem /\ in.safetyClass = "high_risk")
    <2>1. Hits(in) \subseteq 3..11
      BY <1>3
    <2>2. CASE Reviewed(in)
      <3>1. PICK i \in 4..9 : i \in Hits(in)
        BY <2>2 DEF Reviewed
      <3>2. \A j \in Hits(in) : TierPriority(Rules[j].tier) <= TierPriority(Rules[i].tier)
        BY <2>1, RuleOrder, RuleTable, Priorities
      <3>. QED  BY <1>3, <2>2, <3>1, <3>2, StrictestRule, RuleTable DEF Cascade
    <2>3. CASE ~Reviewed(in)
      <3>1. Hits(in) \subseteq {3, 10, 11}
        BY <2>1, <2>3 DEF Reviewed
      <3>2. CASE in.isProtectedSubsystem
        <4>1. 3 \in Hits(in)
          BY <3>2
        <4>2. \A j \in Hits(in) : TierPriority(Rules[j].tier) <= TierPriority(Rules[3].tier)
          BY <3>1, RuleOrder, RuleTable, Priorities
        <4>. QED  BY <1>3, <2>3, <3>2, <4>1, <4>2, StrictestRule, RuleTable DEF Cascade
      <3>3. CASE ~in.isProtectedSubsystem
        <4>1. Hits(in) \subseteq {10, 11}
          BY <3>1, <3>3
        <4>2. CASE in.safetyClass = "safe_with_review" /\ Narrow(in)
          <5>1. 10 \in Hits(in)
            BY <2>3, <4>2 DEF Reviewed
          <5>2. \A j \in Hits(in) : TierPriority(Rules[j].tier) <= TierPriority(Rules[10].tier)
            BY <4>1, RuleOrder, RuleTable, Priorities
          <5>. QED  BY <1>3, <2>3, <3>3, <4>2, <5>1, <5>2, StrictestRule, RuleTable DEF Cascade
        <4>3. CASE in.safetyClass = "safe_auto" /\ Narrow(in)
          <5>1. Hits(in) = {11}
            BY <4>1, <4>3
          <5>2. \A j \in Hits(in) : TierPriority(Rules[j].tier) <= TierPriority(Rules[11].tier)
            BY <5>1, RuleTable, Priorities
          <5>. QED  BY <1>3, <2>3, <3>3, <4>3, <5>1, <5>2, StrictestRule, RuleTable DEF Cascade
        <4>4. CASE ~(in.safetyClass \in {"safe_with_review", "safe_auto"} /\ Narrow(in))
          <5>1. Hits(in) = {}
            BY <4>1, <4>4
          <5>2. ReferenceTier(in) = DefaultTier
            BY <5>1 DEF ReferenceTier, Hits
          <5>. QED  BY <1>3, <2>3, <3>3, <4>4, <5>2 DEF Cascade
        <4>. QED  BY <4>2, <4>3, <4>4
      <3>. QED  BY <3>2, <3>3
    <2>. QED  BY <2>2, <2>3
  <1>. QED  BY <1>1, <1>2, <1>3

\* The fields of a result.
LEMMA ResultFields ==
  ASSUME NEW r, NEW tier, NEW manual, NEW escalate, r = Result(tier, manual, escalate)
  PROVE  /\ r.tier = tier
         /\ r.selfAuthorizationPermitted
               = (TierAllowsSelfAuthorization(tier) /\ ~SelfAuthorizationDisabled)
         /\ r.blockedByPolicy = (tier \in {"blocked", "emergency_manual_only"})
         /\ r.approvalsRequired = ApprovalsRequired(tier)
  BY Zenon DEF Result

\* The result of the declarative reading, in terms of the cascade.
LEMMA ResultOf ==
  ASSUME NEW in \in PolicyInputs
  PROVE  /\ ResultFor(in).tier = Cascade(in)
         /\ ResultFor(in).selfAuthorizationPermitted
               = (TierAllowsSelfAuthorization(Cascade(in)) /\ ~SelfAuthorizationDisabled)
         /\ ResultFor(in).blockedByPolicy
               = (Cascade(in) \in {"blocked", "emergency_manual_only"})
         /\ ResultFor(in).approvalsRequired = ApprovalsRequired(Cascade(in))
  <1>1. PICK manual, escalate : ResultFor(in) = Result(ReferenceTier(in), manual, escalate)
    BY Zenon DEF ResultFor
  <1>2. ResultFor(in) = Result(Cascade(in), manual, escalate)
    BY <1>1, ReferenceIsCascade, Zenon
  <1>. HIDE DEF Cascade
  <1>. QED  BY <1>2, ResultFields

-----------------------------------------------------------------------------
\* The walk has matched exactly the rules that match among those examined, and
\* its accumulator is the tier of the strictest of them.
Walked ==
    /\ matched = {j \in Hits(input) : j < next}
    /\ matched = {} => current = "none"
    /\ matched # {} => \E i \in matched :
          /\ current = Rules[i].tier
          /\ \A j \in matched : TierPriority(Rules[j].tier) <= TierPriority(current)

\* What evaluate() has returned is the result of the declarative reading.
Returned == Done => result = ResultFor(input)

IInv == TypeOK /\ Walked /\ Returned

LEMMA InitIInv == Init => IInv
  <1>. SUFFICES ASSUME Init PROVE IInv
    OBVIOUS
  <1>1. TypeOK
    BY RuleTable DEF Init, TypeOK
  <1>2. {j \in Hits(input) : j < next} = {}
    BY RuleTable DEF Hits, Init
  <1>3. Returned
    BY DEF Init, Returned, Done
  <1>. QED  BY <1>1, <1>2, <1>3 DEF Init, IInv, Walked

\* One rule is examined.
LEMMA ExamineKeeps == IInv /\ ExamineRule => IInv'
  <1>. SUFFICES ASSUME IInv, ExamineRule PROVE IInv'
    OBVIOUS
  <1>. USE DEF IInv
  <1>1. /\ next \in 1..11 /\ next' = next + 1 /\ input' = input /\ result' = result
        /\ input \in PolicyInputs /\ matched \subseteq 1..11
    BY RuleTable DEF ExamineRule, TypeOK
  <1>2. Returned'
    BY <1>1 DEF Returned, Done
  <1>3. CASE ~RuleMatches(Rules[next].id, input)
    <2>1. matched' = matched /\ current' = current
      BY <1>3 DEF ExamineRule
    <2>2. next \notin Hits(input)
      BY <1>1, <1>3, HitsOf
    <2>3. {j \in Hits(input) : j < next + 1} = {j \in Hits(input) : j < next}
      BY <1>1, <2>2, HitsOf
    <2>4. Walked'
      BY <1>1, <2>1, <2>3 DEF Walked
    <2>. QED  BY <1>1, <1>2, <2>1, <2>4, RuleTable DEF TypeOK
  <1>4. CASE RuleMatches(Rules[next].id, input)
    <2>1. /\ matched' = matched \cup {next}
          /\ current' = IF current = "none" THEN Rules[next].tier
                        ELSE MoreRestrictive(current, Rules[next].tier)
      BY <1>4 DEF ExamineRule
    <2>2. next \in Hits(input)
      BY <1>1, <1>4, HitsOf
    <2>3. {j \in Hits(input) : j < next + 1} = {j \in Hits(input) : j < next} \cup {next}
      BY <1>1, <2>2, HitsOf
    <2>4. matched' = {j \in Hits(input) : j < next}'
      BY <1>1, <2>1, <2>3 DEF Walked
    <2>5. \A t \in Tiers : TierPriority(t) \in 1..7 /\ t # "none"
      BY Priorities DEF Tiers
    <2>6. \A j \in 1..11 : Rules[j].tier \in Tiers
      BY RuleTable
    <2>7. \E i \in matched' :
             /\ current' = Rules[i].tier
             /\ \A j \in matched' : TierPriority(Rules[j].tier) <= TierPriority(current')
      <3>1. CASE matched = {}
        BY <1>1, <2>1, <2>5, <2>6, <3>1 DEF Walked
      <3>2. CASE matched # {}
        <4>1. PICK i \in matched : /\ current = Rules[i].tier
                                   /\ \A j \in matched :
                                        TierPriority(Rules[j].tier) <= TierPriority(current)
          BY <3>2 DEF Walked
        <4>2. current \in Tiers /\ Rules[next].tier \in Tiers
          BY <1>1, <2>6, <4>1
        <4>3. CASE TierPriority(Rules[next].tier) > TierPriority(current)
          <5>1. current' = Rules[next].tier
            BY <2>1, <2>5, <4>2, <4>3 DEF MoreRestrictive
          <5>2. \A j \in matched : TierPriority(Rules[j].tier) <= TierPriority(current')
            BY <1>1, <2>5, <2>6, <4>1, <4>2, <4>3, <5>1
          <5>. QED  BY <2>1, <2>5, <4>2, <5>1, <5>2
        <4>4. CASE ~(TierPriority(Rules[next].tier) > TierPriority(current))
          <5>1. current' = current
            BY <2>1, <2>5, <4>2, <4>4 DEF MoreRestrictive
          <5>. QED  BY <2>1, <2>5, <4>1, <4>2, <4>4, <5>1
        <4>. QED  BY <4>3, <4>4
      <3>. QED  BY <3>1, <3>2
    <2>8. current' \in Tiers /\ matched' \subseteq 1..11
      BY <1>1, <2>1, <2>6, <2>7
    <2>9. Walked'
      BY <2>1, <2>4, <2>7 DEF Walked
    <2>. QED  BY <1>1, <1>2, <2>8, <2>9, RuleTable DEF TypeOK
  <1>. QED  BY <1>3, <1>4

\* The result is put together.
LEMMA ResolveKeeps == IInv /\ Resolve => IInv'
  <1>. SUFFICES ASSUME IInv, Resolve PROVE IInv'
    OBVIOUS
  <1>. USE DEF IInv
  <1>1. /\ next = 12 /\ UNCHANGED << input, next, matched, current >>
        /\ input \in PolicyInputs
    BY RuleTable DEF Resolve, TypeOK
  <1>2. matched = Hits(input)
    BY <1>1, HitsOf DEF Walked
  <1>. DEFINE tier == IF matched = {} THEN DefaultTier ELSE current
  <1>3. tier = ReferenceTier(input)
    <2>1. CASE matched = {}
      BY <1>2, <2>1 DEF ReferenceTier, Hits
    <2>2. CASE matched # {}
      <3>1. PICK i \in matched : /\ current = Rules[i].tier
                                 /\ \A j \in matched :
                                      TierPriority(Rules[j].tier) <= TierPriority(current)
        BY <2>2 DEF Walked
      <3>. QED  BY <1>2, <2>2, <3>1, StrictestRule
    <2>. QED  BY <2>1, <2>2
  <1>4. result' = Result(tier, \E i \in matched : Rules[i].manual,
                         \E i \in matched : Rules[i].escalate)
    BY DEF Resolve
  <1>5. result' = ResultFor(input)
    BY <1>2, <1>3, <1>4 DEF ResultFor, Hits
  <1>6. ReferenceTier(input) \in Tiers
    BY <1>1, ReferenceIsCascade DEF Cascade, Tiers, DefaultTier
  <1>7. result'.tier = ReferenceTier(input)
    BY <1>5 DEF ResultFor, Result
  <1>. QED  BY <1>1, <1>5, <1>6, <1>7 DEF TypeOK, Walked, Returned, Done

\* The walk's invariant: matched rules, accumulator and result.
THEOREM IInvHolds == Spec => []IInv
  <1>1. IInv /\ [Next]_vars => IInv'
    <2>. SUFFICES ASSUME IInv, [Next]_vars PROVE IInv'
      OBVIOUS
    <2>1. CASE Next
      BY <2>1, ExamineKeeps, ResolveKeeps DEF Next
    <2>2. CASE UNCHANGED vars
      BY <2>2 DEF vars, IInv, TypeOK, Walked, Returned, Done
    <2>. QED  BY <2>1, <2>2
  <1>. QED  BY InitIInv, <1>1, PTL DEF Spec

\* The walk's variables keep their types.
THEOREM TypeCorrect == Spec => []TypeOK
  <1>1. IInv => TypeOK
    BY DEF IInv
  <1>. QED  BY IInvHolds, <1>1, PTL

\* "Most restrictive tier across all matching rules wins", whatever the number
\* of files.
THEOREM StrictestWins == Spec => []MostRestrictiveWins
  <1>1. IInv => MostRestrictiveWins
    BY DEF IInv, Returned, MostRestrictiveWins, ResultFor, Result
  <1>. QED  BY IInvHolds, <1>1, PTL

\* Nothing risky is ever authorized by policy alone.
THEOREM RiskNeedsHumans == Spec => []RiskNeverSelfAuthorizes
  <1>1. IInv => RiskNeverSelfAuthorizes
    <2>. SUFFICES ASSUME IInv, Done, result.selfAuthorizationPermitted
                  PROVE  /\ Unprotected(input) /\ input.fileCount < 3
                         /\ input.safetyClass \in {"safe_auto", "safe_with_review"}
      BY DEF RiskNeverSelfAuthorizes
    <2>1. input \in PolicyInputs /\ TierAllowsSelfAuthorization(Cascade(input))
      BY ResultOf, Zenon DEF IInv, TypeOK, Returned
    <2>2. input.safetyClass \in {"safe_auto", "safe_with_review"} /\ Narrow(input)
      BY <2>1 DEF Cascade, TierAllowsSelfAuthorization, DefaultTier
    <2>3. input.fileCount \in Nat
      BY <2>1 DEF PolicyInputs
    <2>. QED  BY <2>2, <2>3 DEF Narrow
  <1>. QED  BY IInvHolds, <1>1, PTL

\* Every evaluation leaves exactly one way forward.
THEOREM OneWayForward == Spec => []OnePathForward
  <1>1. IInv => OnePathForward
    <2>. SUFFICES ASSUME IInv, Done PROVE OnePathForward
      BY DEF OnePathForward
    <2>1. Cascade(input) \in Tiers \ {"emergency_manual_only"}
      BY DEF Cascade, Tiers, DefaultTier
    <2>2. /\ result.blockedByPolicy = (Cascade(input) \in {"blocked", "emergency_manual_only"})
          /\ result.selfAuthorizationPermitted
                = (TierAllowsSelfAuthorization(Cascade(input)) /\ ~SelfAuthorizationDisabled)
          /\ result.approvalsRequired = ApprovalsRequired(Cascade(input))
      BY ResultOf, Zenon DEF IInv, TypeOK, Returned
    <2>3. \A t \in Tiers \ {"emergency_manual_only"} :
            /\ ~(t \in {"blocked", "emergency_manual_only"} /\ TierAllowsSelfAuthorization(t))
            /\ t \in {"blocked", "emergency_manual_only"} \/ TierAllowsSelfAuthorization(t)
                  => ApprovalsRequired(t) = 0
            /\ t \notin {"blocked", "emergency_manual_only"} /\ ~TierAllowsSelfAuthorization(t)
                  => ApprovalsRequired(t) > 0
      BY DEF TierAllowsSelfAuthorization, ApprovalsRequired, Tiers
    <2>. QED  BY <2>1, <2>2, <2>3, Zenon DEF OnePathForward
  <1>. QED  BY IInvHolds, <1>1, PTL

\* The burden of a tier.
LEMMA BurdenOf ==
  ASSUME NEW in \in PolicyInputs
  PROVE  Burden(ResultFor(in)) =
           IF in.safetyClass = "blocked" THEN 3
           ELSE IF in.isProtectedSubsystem /\ in.safetyClass = "high_risk" THEN 2
           ELSE IF ~Reviewed(in) /\ Narrow(in)
                   /\ in.safetyClass \in {"safe_auto", "safe_with_review"} THEN 0
           ELSE 1
  <1>1. Burden(ResultFor(in)) = IF Cascade(in) \in {"blocked", "emergency_manual_only"} THEN 3
                                ELSE ApprovalsRequired(Cascade(in))
    BY ResultOf, Zenon DEF Burden
  <1>2. Narrow(in) => ~in.isProtectedSubsystem
    BY DEF Narrow, Unprotected
  <1>. QED  BY <1>1, <1>2 DEF Cascade, ApprovalsRequired, DefaultTier, PolicyInputs

\* Touching more never lowers the number of approvals.
THEOREM BurdenIsMonotonic == Spec => []ProtectionNeverLowersBurden
  <1>1. IInv => ProtectionNeverLowersBurden
    <2>. SUFFICES ASSUME IInv, Done,
                         NEW riskier \in { [input EXCEPT !.isProtectedSubsystem = TRUE],
                                           [input EXCEPT !.hasProtectedFile = TRUE],
                                           [input EXCEPT !.hasInvariantSensitivity = TRUE],
                                           [input EXCEPT !.safetyClass = "blocked"],
                                           [input EXCEPT !.fileCount = MaxFiles] }
                  PROVE  Burden(ResultFor(input)) <= Burden(ResultFor(riskier))
      BY DEF ProtectionNeverLowersBurden, IInv, Returned
    <2>1. input \in PolicyInputs /\ riskier \in PolicyInputs
      <3>1. input \in PolicyInputs
        BY DEF IInv, TypeOK
      <3>2. MaxFiles \in 1..MaxFiles
        BY <3>1, PolicyAssumption DEF PolicyInputs
      <3>. QED  BY <3>1, <3>2 DEF PolicyInputs, SafetyClasses
    <2>2. input.fileCount \in Nat /\ input.fileCount <= MaxFiles /\ MaxFiles \in Nat
      BY <2>1, PolicyAssumption DEF PolicyInputs
    <2>3. \/ Burden(ResultFor(riskier)) = 3
          \/ riskier.safetyClass = input.safetyClass
      BY <2>1, BurdenOf DEF PolicyInputs, SafetyClasses
    <2>. QED  BY <2>1, <2>2, <2>3, BurdenOf
              DEF Reviewed, Narrow, Unprotected, PolicyInputs, SafetyClasses
  <1>. QED  BY IInvHolds, <1>1, PTL
=============================================================================
