SPECIFICATION FairSpec
CONSTANTS
    Turns = {t1, t2}
    Providers = {ollama}
    NoProvider = NoProvider
    NoTurn = NoTurn
    Threshold = 2
    MaxIterations = 2
INVARIANTS
    TypeOK
    BreakerCountsFaults
    OneAnswerShown
    OrphansAreCancelled
    CancelIsBounded
PROPERTIES
    TurnsEnd
CHECK_DEADLOCK FALSE
