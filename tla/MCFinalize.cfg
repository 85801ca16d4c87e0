CONSTANTS
    Attempts = {1, 2}
    GateIds = {1, 2}
    HumanRequired = TRUE
    MaxCrashes = 1
    None = None
SPECIFICATION FairSpec
INVARIANTS TypeOK ReportOfCompletion
PROPERTIES CompletedUnderApproval ReportPublished VerificationEnds
CHECK_DEADLOCK FALSE
