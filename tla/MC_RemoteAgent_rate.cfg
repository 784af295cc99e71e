CONSTANTS
    h1 = h1
    h2 = h2
    nowork = nowork
    r1 = r1
    Hdrs = {h1}
    NoWork = nowork
    Diff <- MCDiff
    HashSpace <- MCHashSpace
    Shares <- MCShares
    Ids = {r1}
    MaxStarts = 1
    MaxCalls = 1
    MaxTime = 16
SPECIFICATION Spec
INVARIANT HashrateEvicted
