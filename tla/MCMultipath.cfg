\* Two routes: a late acknowledgement of an earlier call makes send return true.
CONSTANTS
    Client = Client
    Server = Server
    UintMod = 16
    Start <- MCStart
    MAX_SEGMENT_SIZE = 1
    MAX_BUFFER_SIZE = 2
    MAX_SEGMENT_AMOUNT = 2
    MAX_TIMEOUT_COUNT = 2
    MAX_READ_BUFFER_SIZE = 2
    MaxStream <- MCMaxStream
    ClientBytes = 3
    ServerBytes = 0

SPECIFICATION MultipathSpec

INVARIANTS
    ConfirmedIsReceived

CHECK_DEADLOCK FALSE
