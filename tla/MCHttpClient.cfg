\* Two threads, two clients and four kinds of request to two domains.
CONSTANTS
    s3 = s3
    other = other
    dl = dl
    init = init
    Domains = {s3, other}
    Clients = {dl, init}
    Handles = {h1, h2, h3, h4}
    Threads = {t1, t2}
    None = None
    Requests <- MCRequests
    MaxLength = 1
SYMMETRY MCSymmetry
SPECIFICATION Spec
INVARIANTS
    HandleInOnePlace
    NoBrokenHandleCached
    PoolBounded
    OwnOptions
