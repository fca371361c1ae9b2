\* Three thread structures, each used again after its thread died; stacks of
\* sixteen words hold the frame of fourteen.
CONSTANTS
    t1 = t1
    t2 = t2
    t3 = t3
    NoThread = NoThread
    Threads <- MCThreads
    StackWords = 16
SYMMETRY ThreadSymmetry
SPECIFICATION Spec
\* When the only thread that ran has died and none is ready, nothing is left
\* to run.
CHECK_DEADLOCK FALSE
INVARIANTS
    TypeOK
    StartFrameIsWhatSwitchPops
    InterruptsOnMeansSetUp
