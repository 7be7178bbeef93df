\* One connection.
CONSTANTS
    Connections = {c1}
    Quiet = {}
    None = None
    Removable = {c1}
    Deleting = TRUE

SPECIFICATION FairSpec

PROPERTIES
    CallsReturn

\* A deleted layer stops.
CHECK_DEADLOCK FALSE
