\* One dispatcher thread, which is owed what it waits for; fair threads:
\* progress and refinement.
CONSTANTS
    q1 = q1
    q2 = q2
    w1 = w1
    w2 = w2
    w3 = w3
    Queues = {q1}
    Workers = {w1, w2}
    Home <- MCHome2
    Requests = {r1, r2, r3}
    Callers = {c1}
    NoTask = NoTask
    NoQueue = NoQueue
SPECIFICATION FairSpec
INVARIANTS
    SleeperHasWaker
PROPERTIES
    EveryRequestAnswered
    DestructorReturns
    WaitReturns
    ImplementsPool
