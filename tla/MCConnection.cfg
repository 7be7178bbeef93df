\* Lost, repeated and late segments; one client, up to three server sockets.
CONSTANTS
    Connections = {c1}
    Free = Free
    MaxDuplicates = 2
    Lossy = TRUE
    Slow = TRUE

SPECIFICATION FairSpec

INVARIANTS
    TypeOK
    PeersAgree
    AnsweredMeansClosed

PROPERTIES
    ReaderIsReleased

\* Every call has returned.
CHECK_DEADLOCK FALSE
