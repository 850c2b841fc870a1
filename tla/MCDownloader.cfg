\* InitConnections for three connections and for one, in either order, and a
\* download that may interrupt them; three workers.
CONSTANTS
    i1 = i1
    i2 = i2
    i3 = i3
    j1 = j1
    Tasks = {i1, i2, i3, j1, d1}
    PoolSize = 3
    Batches <- MCBatches
    Downloads = {d1}
SPECIFICATION FairSpec
INVARIANTS
    TypeOK
    CounterCountsArrivals
    NoStrandedInit
    DownloadsUnblockInits
PROPERTIES
    HeldUntilAllCame
    EveryTaskFinishes
