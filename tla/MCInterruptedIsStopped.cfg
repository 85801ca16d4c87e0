SPECIFICATION Spec
CONSTANTS
    k1 = k1
    k2 = k2
    Daemons = {d1, d2}
    Clients = {c1, c2}
    Keys = {k1, k2}
    Mixes <- MCMixes
    MaxStops = 1
    MaxFaults = 1
PROPERTIES InterruptedIsStopped
CHECK_DEADLOCK FALSE
