\* One path: loss, duplicates, spurious timeouts, two ends sending.
CONSTANTS
    Client = Client
    Server = Server
    UintMod = 16
    Start <- MCStart
    MAX_SEGMENT_SIZE = 2
    MAX_BUFFER_SIZE = 3
    MAX_SEGMENT_AMOUNT = 1
    MAX_TIMEOUT_COUNT = 2
    MAX_READ_BUFFER_SIZE = 2
    MaxStream <- MCMaxStream
    ClientBytes = 4
    ServerBytes = 1

SPECIFICATION TimedSpec

INVARIANTS
    TypeOK
    DeliveredInOrder
    ConfirmedIsReceived
    AckWithinCall
    BufferInInterval
    ExpectedIsFirstGap
    IInv

PROPERTIES
    StreamSpec
    SendReturns

\* Every call has returned, or waits for bytes that nobody will send.
CHECK_DEADLOCK FALSE
