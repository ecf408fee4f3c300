\* One late response; nothing else goes wrong.
CONSTANTS
    RxSize = 4
    SHA_RESPONSE_SIZE_MIN = 2
    SHA_RETRY_COUNT = 2
    MAX_TRY_WAKEUP = 2
    Reads = 2
    MaxSessions = 1
    CommandFaults = 0
    ResponseFaults = 0
    Delays = 1
    LateEchoes = 0
    DeviceErrors = 0
    PortFaults = 0
SPECIFICATION Spec
CHECK_DEADLOCK FALSE
INVARIANTS
    SuccessIsOkay
