\* Two queues that share a Synchronizer, and two threads that use, stop and
\* destroy them at the same time.  Both threads may wait for the same last
\* response, so a stop is not an error.
CONSTANTS
    q1 = q1
    q2 = q2
    w1 = w1
    w2 = w2
    w3 = w3
    Queues = {q1, q2}
    Workers = {w1, w2, w3}
    Home <- MCHome3
    Requests = {r1, r2, r3}
    Callers = {c1, c2}
    NoTask = NoTask
    NoQueue = NoQueue
SYMMETRY MCSymmetry
SPECIFICATION Spec
CHECK_DEADLOCK FALSE
INVARIANTS
    TypeOK
    WorkAccounting
    InOnePlace
    EnoughAwake
    JoinedMeansDrained
    WaitFindsResponse
