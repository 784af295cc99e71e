CONSTANTS
    ok = ok
    bad = bad
    unset = unset
    N = 3
    MaxProcs = 2
    Verdicts <- MCVerdicts
    Unset = unset
SPECIFICATION Spec




CHECK_DEADLOCK FALSE
PROPERTY WorkersDrainOnAbort
