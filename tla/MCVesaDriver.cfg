CONSTANTS
    Modes <- MCModes
    PhysAddrs <- MCPhysAddrs
    Sizes <- MCSizes
    PageShift = 2
    VirtPages = 4
SPECIFICATION Spec
CHECK_DEADLOCK FALSE
INVARIANTS
    TypeOK
    ProbeMeansVesaFound
    StartedFrameBufferIsMapped
    StoppedLeavesNothingMapped
