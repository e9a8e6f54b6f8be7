\* Every input of the default policy with up to six files.
SPECIFICATION Spec
CONSTANTS
    MaxFiles = 6
    SelfAuthorizationDisabled = FALSE
INVARIANTS
    TypeOK
    MostRestrictiveWins
    RiskNeverSelfAuthorizes
    OnePathForward
    ProtectionNeverLowersBurden
CHECK_DEADLOCK FALSE
