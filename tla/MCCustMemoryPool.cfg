\* Both builds: the runways over an inner pool that never fails, the blocks
\* over one that may.
CONSTANTS
    Buffers = {b1, b2, b3}
    Addresses = {a1, a2, a3, a4, a5}
    Blocks = {k1, k2}
    Sizes = {0, 2, 4, 8, 10, 11}
    Builds <- MCBuilds
    ReallocSizes <- MCReallocSizes
    MayFail <- MCPool
    Zero = Zero
    Nowhere = Nowhere
    SmallThreshold = 4
    HugeThreshold = 8
    PreallocSize = 8
    PageSize = 4
SYMMETRY MCSymmetry
SPECIFICATION Spec
INVARIANTS
    BuffersApart
    FreeReleases
    BlocksConserved
    InnerFreesItsOwn
