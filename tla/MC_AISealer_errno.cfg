CONSTANTS
    NumCPU <- MCNumCPU
    MaxUpdates <- MCMaxUpdates
SPECIFICATION SpecStaleErrno
INVARIANT NoOrphanTask
CHECK_DEADLOCK FALSE
