---------------------------- MODULE MCAsyncQueue ----------------------------
(***************************************************************************)
(* Two queues on one Synchronizer, one with two workers and one with a     *)
(* single worker, or the first of them alone.                              *)
(***************************************************************************)
EXTENDS AsyncQueue, TLC

CONSTANTS q1, q2, w1, w2, w3

MCHome2 == (w1 :> q1) @@ (w2 :> q1)
MCHome3 == (w1 :> q1) @@ (w2 :> q1) @@ (w3 :> q2)

\* The workers of the first queue, the requests and the callers are
\* interchangeable.
MCSymmetry == Permutations({w1, w2}) \cup Permutations(Requests) \cup Permutations(Callers)

\* The queue with two workers, as the pool its callers see.
Pool == INSTANCE TaskPool WITH
    Tasks <- Requests,
    PoolSize <- PoolSizeOf(q1),
    queued <- requests[q1],
    running <- PoolRunning(q1),
    answered <- responses[q1],
    collected <- PoolCollected(q1),
    state <- PoolState(q1)

\* The queue implements TaskPool: FIFO start, at most pool_size requests in
\* execution, every response handed over exactly once, a destructor that
\* drains; and with the progress TaskPool promises.
ImplementsPool == Pool!FairPoolSpec

=============================================================================
