\* The probe routine is called a second time while the driver runs.
CONSTANTS
    MAX_EVENTS = 3
    InBytes <- MCInBytes
    XSize = 1
    YSize = 1
    PurgeTries = 3
    MaxPackets = 4
    MaxProbes = 2
SPECIFICATION Spec
CHECK_DEADLOCK FALSE
INVARIANT NoLostWakeup
