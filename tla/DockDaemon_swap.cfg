\* Two UART docks and a HID dock behind another hidraw device, which may be swapped;
\* one fault of the switch, the ioctl and the dock each.
CONSTANTS
    u1 = u1
    u2 = u2
    h1 = h1
    NoDock = NoDock
    OtherDevice = OtherDevice
    UartDocks = {u1, u2}
    HidDocks = {h1}
    OtherHid = 1
    HIDRAW_MAX_DEVICES = 2
    MAX_TRY_COMM = 2
    MAX_TRY_WAKEUP = 2
    MAX_TRY_IOCTL = 2
    MaxFd = 2
    QueueCap = 2
    MaxPlugs = 2
    MaxRestarts = 0
    SwitchFaults = 1
    IoctlFaults = 1
    CommFaults = 1
    StatusFaults = 0
    LockFaults = 0
SPECIFICATION FairSpec
CHECK_DEADLOCK FALSE
INVARIANTS
    TypeOK
    NoDockUnattended
    IdentityIsFresh
    HidHandleOpen
    ReportAgrees
PROPERTIES
    SessionShrinks
    HidDockReported
    UartDockIdentified
    WakeLockReleased
