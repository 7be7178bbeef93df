\* Two stations, one frame each, one damaged bit.
CONSTANTS
    A = A
    B = B
    Stations = {A, B}
    Broadcast = Broadcast
    FrameBits <- MCFrameBits
    IdleCycles = 2
    MaxBackoff = 0
    Scenarios <- MCScenarios

SPECIFICATION FairSpec

INVARIANTS
    TypeOK
    SentIsHeard
    OncePerAttempt
    WaitingWriterIsSeen

PROPERTIES
    NobodyInterrupts
    WriteReturns
