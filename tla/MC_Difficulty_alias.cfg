CONSTANTS
    HomesteadBlock = 1000
    ByzantiumBlock = 3000000
    DurationLimit = 9
    GammaDurationLimit = 13
    BoundDivisor = 2048
    Numbers <- MCNumbers
    Diffs <- MCDiffs
    Deltas <- MCDeltas
    Mins <- MCMins
    MaxCalls = 3
SPECIFICATION Spec
INVARIANT DifficultyConsistent
CHECK_DEADLOCK FALSE
