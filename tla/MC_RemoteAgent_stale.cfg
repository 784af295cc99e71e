CONSTANTS
    h1 = h1
    h2 = h2
    nowork = nowork
    r1 = r1
    Hdrs <- MCHdrs
    NoWork = nowork
    Diff <- MCDiff
    HashSpace <- MCHashSpace
    Shares <- MCShares
    Ids = {r1}
    MaxStarts = 2
    MaxCalls = 1
    MaxTime = 0
SPECIFICATION Spec
INVARIANT ServesLatestWork
