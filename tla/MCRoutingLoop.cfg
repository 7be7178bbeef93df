\* Three routers in a triangle; one distance is measured again.
CONSTANTS
    UintMod = 32
    Routers = {1, 2, 3}
    Cables = {1, 2, 3}
    MAX_NEIGHBOURS = 4
    MAX_HOPS = 3
    MAX_READ_BUFFER_SIZE = 1
    Scenarios <- MCTriangle

SPECIFICATION Spec

INVARIANT
    AgreedRoutesArrive

\* Nothing is left of the scenario.
CHECK_DEADLOCK FALSE
