SPECIFICATION Spec
CONSTANTS
    t1 = t1
    t2 = t2
    Threads <- MCThreads
    CwdThreads <- MCOneThread
    NoThread = NoThread
    MAX_UU_FD = 2
    MaxFiles = 2
    Kinds <- MCFewKinds
    NoKind = NoKind
    PipeKind <- MCPipeKind
    Offsets <- MCOffsets
    MaxPos = 0
    MaxRefs = 2
CHECK_DEADLOCK FALSE
VIEW view
INVARIANTS
    TypeOK
    DescriptorsOwnReferences
