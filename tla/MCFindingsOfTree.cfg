CONSTANTS
    Attempts = {1, 2}
    GateIds = {1, 2}
    HumanRequired = FALSE
    MaxCrashes = 0
    None = None
SPECIFICATION Spec
INVARIANTS FindingsOfTree
CHECK_DEADLOCK FALSE
