CONSTANTS
    ok = ok
    bad = bad
    unset = unset
    N = 3
    MaxProcs = 2
    Verdicts <- MCVerdicts
    Unset = unset
SPECIFICATION Spec
INVARIANT TypeOK
INVARIANT OrderedResults
PROPERTY ImplementsBatchResults
PROPERTY AllReturn
CHECK_DEADLOCK FALSE
