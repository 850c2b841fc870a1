------------------------------ MODULE TaskPool ------------------------------
(***************************************************************************)
(* What an AsyncQueue promises (util/async_queue.h), without threads,      *)
(* mutexes or condition variables: a pool accepts tasks, starts them in    *)
(* the order they were submitted, runs at most PoolSize of them at a time, *)
(* and hands every result over exactly once.  Closing the pool is what its *)
(* destructor does: it waits until nothing is queued or running.           *)
(***************************************************************************)
EXTENDS Naturals, Sequences, FiniteSets

CONSTANTS Tasks, PoolSize

ASSUME PoolSizeAssumption == PoolSize \in Nat

VARIABLES
    queued,    \* tasks accepted, oldest first
    running,   \* tasks being executed
    answered,  \* tasks whose result nobody has collected
    collected, \* tasks whose result was handed over
    state      \* "open", "closing" (the destructor runs) or "closed"

poolVars == <<queued, running, answered, collected, state>>

PoolInit ==
    /\ queued = << >>
    /\ running = {}
    /\ answered = {}
    /\ collected = {}
    /\ state = "open"

\* Tasks the pool has not seen yet.
Unseen == Tasks \ (running \cup answered \cup collected \cup {queued[i] : i \in DOMAIN queued})

Submit(t) ==
    /\ state = "open"
    /\ t \in Unseen
    /\ queued' = Append(queued, t)
    /\ UNCHANGED <<running, answered, collected, state>>

Begin ==
    /\ queued # << >>
    /\ Cardinality(running) < PoolSize
    /\ running' = running \cup {Head(queued)}
    /\ queued' = Tail(queued)
    /\ UNCHANGED <<answered, collected, state>>

Finish(t) ==
    /\ t \in running
    /\ running' = running \ {t}
    /\ answered' = answered \cup {t}
    /\ UNCHANGED <<queued, collected, state>>

\* All the results there are, at once.
Collect ==
    /\ state = "open"
    /\ answered # {}
    /\ collected' = collected \cup answered
    /\ answered' = {}
    /\ UNCHANGED <<queued, running, state>>

BeginClose ==
    /\ state = "open"
    /\ state' = "closing"
    /\ UNCHANGED <<queued, running, answered, collected>>

EndClose ==
    /\ state = "closing"
    /\ queued = << >> /\ running = {}
    /\ state' = "closed"
    /\ UNCHANGED <<queued, running, answered, collected>>

PoolNext ==
    \/ \E t \in Tasks : Submit(t) \/ Finish(t)
    \/ Begin \/ Collect \/ BeginClose \/ EndClose

PoolSpec == PoolInit /\ [][PoolNext]_poolVars

\* Work is started and finished, and the destructor returns; nobody owes the
\* pool a call.
PoolFairness ==
    /\ WF_poolVars(Begin)
    /\ \A t \in Tasks : WF_poolVars(Finish(t))
    /\ WF_poolVars(EndClose)

FairPoolSpec == PoolSpec /\ PoolFairness

=============================================================================
