CONSTANTS
    h1 = h1
    h2 = h2
    nowork = nowork
    r1 = r1
    Hdrs <- MCHdrs
    NoWork = nowork
    Diff <- MCDiff
    HashSpace <- MCHashSpace
    Shares <- MCShares
    Ids = {r1}
    MaxStarts = 1
    MaxCalls = 2
    MaxTime = 0
SPECIFICATION Spec
INVARIANT AcceptedOnce
