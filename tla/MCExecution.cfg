SPECIFICATION Spec
CONSTANTS
    Runs = {r1, r2}
    Proposals = {"feature", "rewrite", "conflict", "large", "slow", "forbidden", "other", "reviewed"}
    Faults = {"timeout"}
    MaxCrashes = 1
    Subsystems = {"core", "side"}
    Files <- MCFiles
    Marks <- MCMarks
    Subsystem <- MCSubsystem
    Units <- MCUnits
    Checks <- MCChecks
    ManualReview <- MCManualReview
    Immutable = {"file4"}
    InitialContent <- MCContent
    Torn = "torn"
    None = None
    Unreadable = Unreadable
    MaxPatchUnits = 2
    MaxFileMutations = 2
    MaxVerificationSteps = 2
    MaxRollbackSteps = 2
INVARIANTS TypeOK OneActivePerSubsystem LockOwnedByActiveRun FootprintIsSaved NoStaleRunFile SuccessEarned
PROPERTIES TerminalIsFinal FailureLeavesNoTrace RunsKeepPromise
SYMMETRY RunSymmetry
CHECK_DEADLOCK FALSE
