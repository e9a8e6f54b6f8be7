SPECIFICATION FairSpec
CONSTANTS
    Proposals = {p1}
    Actors = {alice, bob}
    Evaluations <- MCEvaluations
    WriteFaults = "crash"
    MaxRequests = 3
    MaxCuts = 1
    NoDecision = NoDecision
INVARIANTS
    TypeOK
    AuthorizationEarned
    DualControl
    AuthorizationAudited
    ApprovalsOnRecord
PROPERTIES
    DecisionIsKept
    PendingResolves
CHECK_DEADLOCK FALSE
