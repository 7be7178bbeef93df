\* Nothing is lost, repeated or late; both ends may call remove.
CONSTANTS
    Connections = {c1}
    Free = Free
    MaxDuplicates = 0
    Lossy = FALSE
    Slow = FALSE

SPECIFICATION Spec

INVARIANTS
    RemoveSucceeds

\* Every call has returned.
CHECK_DEADLOCK FALSE
