CONSTANTS
    NumCPU <- MCNumCPU
    MaxUpdates <- MCMaxUpdates
SPECIFICATION Spec
INVARIANT TypeOK
INVARIANT NoOrphanTask
INVARIANT OneAttemptAtATime
PROPERTY SealReturnsOnStop
PROPERTY NoGoroutineLeak
PROPERTY ImplementsSealCall
CHECK_DEADLOCK FALSE
