\* Two calls, a descriptor table that failures fill, and a header of two bytes.
CONSTANTS
    CMD_ENGINE_CONNECT_MAX_TRY = 2
    HdrSize = 2
    CodeAt = 1
    UINT32 = 5
    MaxFd = 2
    MaxCalls = 2
    Unsolicited = 1
SPECIFICATION UIFairSpec
CHECK_DEADLOCK FALSE
INVARIANTS
    TypeOK
    HandleIsEngine
    SuccessIsAnswered
    HeaderIsRead
    LeaksAreFailures
    BpLeftNormal
PROPERTIES
    CallEnds
    CallShrinks
