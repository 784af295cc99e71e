CONSTANTS
    h1 = h1
    h2 = h2
    nowork = nowork
    r1 = r1
    Hdrs = {h1}
    NoWork = nowork
    Diff <- MCDiff
    HashSpace <- MCHashSpace
    Shares = {5, 9}
    Ids = {r1}
    MaxStarts = 2
    MaxCalls = 1
    MaxTime = 5
SPECIFICATION Spec
INVARIANT TypeOK
INVARIANT AcceptBackedByHandout
