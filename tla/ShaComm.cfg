\* Small sizes that keep what matters: a status packet and its echo are shorter
\* than what the code waits for.  A response may be damaged as often as it is
\* asked for again, two may be late, and everything else may go wrong once.
CONSTANTS
    RxSize = 4
    SHA_RESPONSE_SIZE_MIN = 2
    SHA_RETRY_COUNT = 1
    MAX_TRY_WAKEUP = 2
    Reads = 2
    MaxSessions = 2
    CommandFaults = 1
    ResponseFaults = 1
    Delays = 2
    LateEchoes = 1
    DeviceErrors = 1
    PortFaults = 1
SPECIFICATION Spec
CHECK_DEADLOCK FALSE
INVARIANTS
    TypeOK
    AnswerIsForCall
    RetriesSuffice
    RequestsBounded
    
