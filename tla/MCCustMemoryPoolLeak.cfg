\* Everything is freed, as at the end of the unit test.
CONSTANTS
    Buffers = {b1, b2}
    Addresses = {a1, a2, a3}
    Blocks = {}
    Sizes = {2, 4, 8}
    Builds <- MCRunway
    ReallocSizes <- MCPositive
    MayFail = {}
    Zero = Zero
    Nowhere = Nowhere
    SmallThreshold = 4
    HugeThreshold = 8
    PreallocSize = 8
    PageSize = 4
SPECIFICATION Spec
INVARIANTS
    NothingLeaked
