SPECIFICATION Spec
CONSTANTS
    NoProgressLimit = 2
    MaxControls = 1
    MaxEdits = 0
    MaxStops = 1
INVARIANT
    StartServes
