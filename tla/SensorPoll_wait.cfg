\* Two drivers; an array smaller than what one report fills.
CONSTANTS
    mSensors <- MCmSensors
    akm = 1
    numEvents = 4
    PipeCap = 1
    Count = 1
    Errno = 2
    MaxSamples = 2
    MaxActivations = 2
    ReadFaults = 1
    PollFaults = 1
SPECIFICATION Spec
CHECK_DEADLOCK FALSE
INVARIANTS
    WaitsOnlyWithNothing

