SPECIFICATION Spec
CONSTANTS
    t1 = t1
    t2 = t2
    Threads <- MCThreads
    CwdThreads <- MCThreads
    NoThread = NoThread
    MAX_UU_FD = 1
    MaxFiles = 3
    Kinds <- MCDirKinds
    NoKind = NoKind
    PipeKind <- MCPipeKind
    Offsets <- MCOffsets
    MaxPos = 0
    MaxRefs = 2
CHECK_DEADLOCK FALSE
VIEW view
PROPERTIES
    CwdIsUnlinkedOnce
