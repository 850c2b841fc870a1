\* Two workers, two inits, the footer and three chunks.
CONSTANTS
    i1 = i1
    i2 = i2
    d1 = d1
    d2 = d2
    d3 = d3
    Footer = footer
    Tasks = {i1, i2, footer, d1, d2, d3}
    PoolSize = 2
    Batches <- MCBatches
    Downloads = {footer, d1, d2, d3}
    Files <- MCFiles
SPECIFICATION FairHandlerSpec
INVARIANTS
    PhasesDoNotMix
    CrashOnlyOnFailedDownload
    AllChuncksRead
    MembersOutliveTasks
    SdkOutlivesTasks
PROPERTIES
    InvocationEnds
