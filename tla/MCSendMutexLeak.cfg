\* A duplicate acknowledgement between two sends leaves m_sendMutex locked.
CONSTANTS
    Client = Client
    Server = Server
    UintMod = 16
    Start <- MCStart
    MAX_SEGMENT_SIZE = 1
    MAX_BUFFER_SIZE = 2
    MAX_SEGMENT_AMOUNT = 2
    MAX_TIMEOUT_COUNT = 2
    MAX_READ_BUFFER_SIZE = 2
    MaxStream <- MCMaxStream
    ClientBytes = 2
    ServerBytes = 0

SPECIFICATION FairSpec

PROPERTIES
    CheckedSendProceeds

CHECK_DEADLOCK FALSE
