\* The size of the light sensor's reader; enough events to wrap several times.
CONSTANTS
    numEvents = 4
    MaxEvents = 18
SPECIFICATION Spec
CHECK_DEADLOCK FALSE
INVARIANTS
    TypeOK
    ReadFits
PROPERTIES
    QueueSpec
