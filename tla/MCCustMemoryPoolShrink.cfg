\* Sizes that end within a page.
CONSTANTS
    Buffers = {b1}
    Addresses = {a1, a2}
    Blocks = {}
    Sizes = {2, 8, 10, 11}
    Builds <- MCRunway
    ReallocSizes <- MCWithinPage
    MayFail = {}
    Zero = Zero
    Nowhere = Nowhere
    SmallThreshold = 4
    HugeThreshold = 8
    PreallocSize = 8
    PageSize = 4
SPECIFICATION Spec
PROPERTIES
    ShrinkSucceeds
