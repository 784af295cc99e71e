CONSTANTS
    MaxBlocks = 5
    Horizon = 3
    MaxUncles = 2
    Seeds = {170}
SPECIFICATION Spec
INVARIANT UnclesRewardedOnce
INVARIANT SealVerifyAgree
CHECK_DEADLOCK FALSE
