\* Nothing is lost, repeated or late; two clients connect.
CONSTANTS
    Connections = {c1, c2}
    Free = Free
    MaxDuplicates = 0
    Lossy = FALSE
    Slow = FALSE

SPECIFICATION Spec

INVARIANTS
    GetReturnsConnected

\* Every call has returned.
CHECK_DEADLOCK FALSE
