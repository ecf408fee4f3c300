\* One UART dock, or none; the wake lock may be refused or not released, a read may
\* fail or succeed with a status packet, and the process may be terminated at any
\* point and started again.
CONSTANTS
    u1 = u1
    NoDock = NoDock
    OtherDevice = OtherDevice
    UartDocks = {u1}
    HidDocks = {}
    OtherHid = 0
    HIDRAW_MAX_DEVICES = 1
    MAX_TRY_COMM = 2
    MAX_TRY_WAKEUP = 2
    MAX_TRY_IOCTL = 2
    MaxFd = 1
    QueueCap = 2
    MaxPlugs = 2
    MaxRestarts = 1
    SwitchFaults = 0
    IoctlFaults = 0
    CommFaults = 1
    StatusFaults = 1
    LockFaults = 1
SPECIFICATION FairSpec
CHECK_DEADLOCK FALSE
INVARIANTS
    SleepSafe
    LockAccounted
PROPERTIES
    UartDockIdentified
