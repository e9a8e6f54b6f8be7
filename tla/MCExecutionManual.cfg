SPECIFICATION Spec
CONSTANTS
    Runs = {r1}
    Proposals = {"reviewed"}
    Faults = {"timeout"}
    MaxCrashes = 0
    Subsystems = {"core", "side"}
    Files <- MCFiles
    Marks <- MCMarks
    Subsystem <- MCSubsystem
    Units <- MCUnits
    Checks <- MCChecks
    ManualReview <- MCManualReview
    Immutable = {"file4"}
    InitialContent <- MCContent
    Torn = "torn"
    None = None
    Unreadable = Unreadable
    MaxPatchUnits = 2
    MaxFileMutations = 2
    MaxVerificationSteps = 2
    MaxRollbackSteps = 2
INVARIANT SuccessVerified
CHECK_DEADLOCK FALSE
