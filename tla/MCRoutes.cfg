\* Four routers in different wirings.
CONSTANTS
    UintMod = 16
    Routers = {1, 2, 3, 4}
    Cables = {1, 2, 3, 4}
    MAX_NEIGHBOURS = 3
    MAX_HOPS = 3
    MAX_READ_BUFFER_SIZE = 1
    Scenarios <- MCScenarios

SPECIFICATION FairSpec

INVARIANTS
    TypeOK
    NoDeadCable
    SettledRoutesArrive

PROPERTIES
    ShortestRoutes
    PacketsLeave

\* Nothing is left of the scenario.
CHECK_DEADLOCK FALSE
