SPECIFICATION MCSpec
CONSTANTS
    Attempts <- MCAttempts
    Stages <- MCStages
    Trees <- MCTrees
    Base = "base"
    Matching <- MCMatching
    Starred <- MCStarred
    Fold <- MCFold
    Ignored <- MCIgnored
    Unsafe <- MCUnsafe
    Protected <- MCProtected
    Directories <- MCDirectories
    Policies <- MCPolicies
    Criteria <- MCCriteria
    Trusted <- MCTrusted
    Plans <- MCPlans
    Paths <- MCPaths
    Outputs <- MCOutputs
    Rests <- MCRests
    MaxFaults = 1
    MaxSteers = 1
    MaxCrashes = 1
INVARIANTS
    TypeOK
    OneWriter
    AliveIsJournaled
    RetryAtRest
    ReplayReproduces
    PublishedPlanCompletes
    StreamsAgree
PROPERTIES
    AcceptedAsValidated
    ExecutionSettles
CHECK_DEADLOCK FALSE
