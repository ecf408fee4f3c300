\* One call, and no message but its response.
CONSTANTS
    CMD_ENGINE_CONNECT_MAX_TRY = 2
    HdrSize = 2
    CodeAt = 1
    UINT32 = 5
    MaxFd = 2
    MaxCalls = 1
    Unsolicited = 0
SPECIFICATION UISpec
CHECK_DEADLOCK FALSE
INVARIANTS
    SuccessMeansCleared
