SPECIFICATION FairSpec
CONSTANTS
    Runs = {r1}
    Proposals = {"feature", "twice", "conflict", "large"}
    Faults = {"timeout", "save", "io"}
    MaxCrashes = 2
    Subsystems = {"core", "side"}
    Files <- MCFiles
    Marks <- MCMarks
    Subsystem <- MCSubsystem
    Units <- MCUnits
    Checks <- MCChecks
    ManualReview <- MCManualReview
    Immutable = {"file4"}
    InitialContent <- MCContent
    Torn = "torn"
    None = None
    Unreadable = Unreadable
    MaxPatchUnits = 2
    MaxFileMutations = 2
    MaxVerificationSteps = 2
    MaxRollbackSteps = 2
INVARIANT OriginalIsBackedUp
PROPERTY LockIsReleased
CHECK_DEADLOCK FALSE
