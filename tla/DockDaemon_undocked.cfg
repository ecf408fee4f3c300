\* One UART dock, no fault of any kind: a detachment during a session.
CONSTANTS
    u1 = u1
    NoDock = NoDock
    OtherDevice = OtherDevice
    UartDocks = {u1}
    HidDocks = {}
    OtherHid = 0
    HIDRAW_MAX_DEVICES = 1
    MAX_TRY_COMM = 2
    MAX_TRY_WAKEUP = 2
    MAX_TRY_IOCTL = 2
    MaxFd = 1
    QueueCap = 2
    MaxPlugs = 1
    MaxRestarts = 0
    SwitchFaults = 0
    IoctlFaults = 0
    CommFaults = 0
    StatusFaults = 0
    LockFaults = 0
SPECIFICATION Spec
CHECK_DEADLOCK FALSE
PROPERTIES
    NoSessionWhenUndocked
