SPECIFICATION Spec
CONSTANTS
    t1 = t1
    t2 = t2
    Threads <- MCOneThread
    CwdThreads <- MCOneThread
    NoThread = NoThread
    MAX_UU_FD = 1
    MaxFiles = 2
    Kinds <- MCKinds
    NoKind = NoKind
    PipeKind <- MCPipeKind
    Offsets <- MCOffsets
    MaxPos = 1
    MaxRefs = 2
CHECK_DEADLOCK FALSE
VIEW view
PROPERTIES
    ReferenceLostHasCause
    CloseAllEmptiesTable
    NoCallHangs
