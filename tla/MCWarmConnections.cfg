\* Two calls of InitConnections for two connections each, and a download.
CONSTANTS
    i1 = i1
    i2 = i2
    j1 = j1
    j2 = j2
    bucket = bucket
    Tasks = {i1, i2, j1, j2, d1}
    PoolSize = 2
    Batches <- MCBatches
    Downloads = {d1}
    Handles = {h1, h2, h3}
    None = None
    Domains = {bucket}
    Bucket = bucket
SYMMETRY MCSymmetry
SPECIFICATION WarmSpec
INVARIANTS
    OneConnectionPerInit
    ConnectionsWithinPool
