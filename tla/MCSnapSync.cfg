CONSTANTS
    t1 = t1
    t2 = t2
    t3 = t3
    NoThread = NoThread
    Threads <- MCThreads
    MaxWaiters <- MCMaxWaiters
    MaxSem = 1
SPECIFICATION Spec
CHECK_DEADLOCK FALSE
INVARIANTS
    TypeOK
    SleeperIsDiscoverable
    MutexOwnerIsHolder
PROPERTIES
    SnapshotSeesStillObjects
    StoppedThreadsStay
    MutexWaiterGetsMutex
    SemaWaiterIsServed
    SnapshotIsTaken
    ParkedThreadGoesOn
