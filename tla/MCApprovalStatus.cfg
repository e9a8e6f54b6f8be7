SPECIFICATION Spec
CONSTANTS
    Proposals = {p1}
    Actors = {local_user}
    Evaluations <- MCFewEvaluations
    WriteFaults = "none"
    MaxRequests = 3
    MaxCuts = 0
    NoDecision = NoDecision
INVARIANTS
    AuthorizedStatus
CHECK_DEADLOCK FALSE
