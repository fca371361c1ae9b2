\* One probe, four packets into a ring that holds two events: the ring
\* overflows, wraps, and the thread meets events with equal and with
\* different buttons.  The driver is idle when the mouse rests.
CONSTANTS
    MAX_EVENTS = 3
    InBytes <- MCInBytes
    XSize = 1
    YSize = 1
    PurgeTries = 3
    MaxPackets = 4
    MaxProbes = 1
SPECIFICATION Spec
CHECK_DEADLOCK FALSE
INVARIANTS
    TypeOK
    NoLostWakeup
    ButtonChangesDelivered
    MovementIsNineBit
PROPERTIES
    RingIsQueue
    DeliversLatest
    ProbeHangHasCause
