SPECIFICATION FairSpec
CONSTANTS
    NoProgressLimit = 2
    MaxControls = 1
    MaxEdits = 1
    MaxStops = 1
INVARIANTS
    TypeOK
    OnePlanner
    RepeatsAreAuthorized
    FrozenOnce
    FailureIsAsked
PROPERTY
    PlanningSettles
