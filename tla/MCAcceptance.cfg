CONSTANTS
    MaxCalls = 3
    MaxTrees = 2
    MaxCrashes = 2
    MaxSteers = 2
    ReplaySafe = TRUE
    RecoveryLimit = 1
SPECIFICATION Spec
INVARIANTS TypeOK OneSession AuthorizedReplay CompletedOnCurrentClaim
PROPERTIES ClaimStands
CHECK_DEADLOCK FALSE
