SPECIFICATION Spec
CONSTANTS
    MaxChunks = 7
    MaxWebSeeds = 3
    RangeShares = {2, 10}
INVARIANTS
    RangeSound
    FirstOrLongest
CHECK_DEADLOCK FALSE
