\* Two senders or readers; replies of up to two lines; two matches at most; two
\* connections.
CONSTANTS
    c1 = c1
    c2 = c2
    Missing = Missing
    None = None
    Clients = {c1, c2}
    Scenarios <- MCScenarios
    Letters <- MCLetters
    MaxLines = 2
    Rows <- MCRows
    Limit = 2
    Garbage = {0, 1, 99}
    Huge = 99
    Settings <- MCSettings
    Connections = {c1, c2}
    Quiet = {c2}
    Removable = {c2}
    Deleting = FALSE

SPECIFICATION MCSpec

INVARIANTS
    TypeOK
    TextIsExpected
    AnswersMatch
    DiesForACause
    NoCircularWait

PROPERTIES
    LettersDelivered
    
    SessionsEnd
    ServerReturns
    SenderEnds
    EveryoneIsAnswered

\* The programs end.
CHECK_DEADLOCK FALSE
