----------------------------- MODULE AsyncQueue -----------------------------
(***************************************************************************)
(* Buzz::AsyncQueue (util/async_queue.h): thread pools, each with a FIFO   *)
(* of requests and a bag of responses, that share one Synchronizer.        *)
(*                                                                         *)
(* One step is one critical section or one notification, so that every     *)
(* interleaving of callers and workers at the mutexes is a behaviour.  The *)
(* request mutex protects single steps only.  resp_queue_mutex_ is held    *)
(* across two steps by PopResponses alone: a caller whose pc is "consume"  *)
(* holds it.  Exceptions thrown by a request function end the process and  *)
(* are not modelled.                                                       *)
(***************************************************************************)
EXTENDS Synchronizer, Sequences, FiniteSets

CONSTANTS
    Queues,    \* the AsyncQueue objects that share the Synchronizer
    Workers,   \* their worker threads
    Home,      \* Home[w]: the queue whose constructor started worker w
    Requests,  \* the requests that callers may push, each at most once
    Callers,   \* the threads that use the queues
    NoTask, NoQueue

ASSUME QueuesAssumption == NoQueue \notin Queues
ASSUME WorkersAssumption == IsFiniteSet(Workers) /\ Home \in [Workers -> Queues]
ASSUME RequestsAssumption == IsFiniteSet(Requests) /\ NoTask \notin Requests
ASSUME CallersAssumption == IsFiniteSet(Callers) /\ Callers \cap Workers = {}

VARIABLES
    requests,   \* request_queue_ of each queue
    responses,  \* resp_queue_ of each queue, as a set: no caller reads its order
    stop,       \* stop_ of each queue
    gone,       \* the queues whose destructor has returned
    pc, task,   \* each worker: where it is in the loop, its local `task`
    cpc, target,\* each caller: where it is in which queue's member function
    taken,      \* each caller: the local `result` of PopResponses
    fresh,      \* requests no caller has pushed yet
    refused,    \* requests whose PushRequest threw "Queue stopped"
    collected   \* the responses PopResponses has returned, per queue

queueVars  == <<requests, responses, stop, gone>>
workerVars == <<pc, task>>
callerVars == <<cpc, target, taken>>
ghostVars  == <<fresh, refused, collected>>
vars == <<syncVars, queueVars, workerVars, callerVars, ghostVars>>

WorkersOf(q) == {w \in Workers : Home[w] = q}

\* pool_size is at least 1 wherever a queue is built.
ASSUME PoolAssumption == \A q \in Queues : WorkersOf(q) # {}

Dormant(q)   == {w \in WorkersOf(q) : pc[w] = "dormant"}

\* resp_queue_mutex_ of q is free.
RespUnlocked(q) == \A c \in Callers : cpc[c] = "consume" => target[c] # q

\* No thread but `c` is inside a member function of q.
SoleUser(c, q) == \A d \in Callers \ {c} : target[d] # q

Init ==
    /\ SyncInit
    /\ requests = [q \in Queues |-> << >>]
    /\ responses = [q \in Queues |-> {}]
    /\ stop = [q \in Queues |-> FALSE]
    /\ gone = {}
    /\ pc = [w \in Workers |-> "fetch"]
    /\ task = [w \in Workers |-> NoTask]
    /\ cpc = [c \in Callers |-> "ready"]
    /\ target = [c \in Callers |-> NoQueue]
    /\ taken = [c \in Callers |-> {}]
    /\ fresh = Requests
    /\ refused = {}
    /\ collected = [q \in Queues |-> {}]

-----------------------------------------------------------------------------
(* Callers.  A call to a queue whose destructor has returned is undefined. *)

Enter(c, q, at) ==
    /\ cpc[c] = "ready"
    /\ q \notin gone
    /\ cpc' = [cpc EXCEPT ![c] = at]
    /\ target' = [target EXCEPT ![c] = q]

Leave(c, from) ==
    /\ cpc[c] = from
    /\ cpc' = [cpc EXCEPT ![c] = "ready"]
    /\ target' = [target EXCEPT ![c] = NoQueue]

\* PushRequest, the critical section.
PushRequest(c, q, r) ==
    /\ Enter(c, q, "signal")
    /\ ~stop[q]
    /\ r \in fresh
    /\ requests' = [requests EXCEPT ![q] = Append(@, r)]
    /\ fresh' = fresh \ {r}
    /\ UNCHANGED <<syncVars, responses, stop, gone, workerVars, taken, refused, collected>>

\* Mutant of Signal: request_cv_.notify_one() is forgotten.
SignalNobody(c) ==
    /\ Leave(c, "signal")
    /\ UNCHANGED <<syncVars, queueVars, workerVars, taken, ghostVars>>

\* PushRequest, request_cv_.notify_one().
Signal(c) ==
    /\ Leave(c, "signal")
    /\ LET q == target[c] IN
       IF Dormant(q) = {}
       THEN UNCHANGED pc
       ELSE \E w \in Dormant(q) : pc' = [pc EXCEPT ![w] = "fetch"]
    /\ UNCHANGED <<syncVars, queueVars, task, taken, ghostVars>>

\* PushRequest throws: another thread is already in the destructor.
PushRefused(c, q, r) ==
    /\ cpc[c] = "ready"
    /\ q \notin gone
    /\ stop[q]
    /\ r \in fresh
    /\ fresh' = fresh \ {r}
    /\ refused' = refused \cup {r}
    /\ UNCHANGED <<syncVars, queueVars, workerVars, callerVars, collected>>

\* PopResponses drains resp_queue_ and keeps resp_queue_mutex_ ...
PopResponses(c, q) ==
    /\ Enter(c, q, "consume")
    /\ RespUnlocked(q)
    /\ ~stop[q]
    /\ taken' = [taken EXCEPT ![c] = responses[q]]
    /\ responses' = [responses EXCEPT ![q] = {}]
    /\ UNCHANGED <<syncVars, requests, stop, gone, workerVars, ghostVars>>

\* ... until consume() has returned.
Consume(c) ==
    /\ Leave(c, "consume")
    /\ ConsumeWork(Cardinality(taken[c]))
    /\ collected' = [collected EXCEPT ![target[c]] = @ \cup taken[c]]
    /\ taken' = [taken EXCEPT ![c] = {}]
    /\ UNCHANGED <<queueVars, workerVars, fresh, refused>>

\* Requests that were pushed to a living queue and not handed back yet.
Owed ==
    Requests \ (fresh \cup refused \cup (UNION {collected[q] : q \in Queues})
                      \cup (UNION {responses[q] : q \in gone}))

\* Synchronizer::wait().  Every loop in the repository that calls it counts
\* the responses it is still owed and calls it only while there are some.
Wait(c) ==
    /\ cpc[c] = "ready"
    /\ Owed # {}
    /\ cpc' = [cpc EXCEPT ![c] = "waiting"]
    /\ UNCHANGED <<syncVars, queueVars, workerVars, target, taken, ghostVars>>

Sleep(c) ==
    /\ cpc[c] = "waiting" /\ c \notin asleep
    /\ Block(c)
    /\ UNCHANGED <<queueVars, workerVars, callerVars, ghostVars>>

WaitReturn(c) ==
    /\ cpc[c] = "waiting" /\ c \notin asleep
    /\ Pass(c)
    /\ cpc' = [cpc EXCEPT ![c] = "ready"]
    /\ UNCHANGED <<queueVars, workerVars, target, taken, ghostVars>>

\* ~AsyncQueue, by the one thread that owns the queue: stop_ is set, ...
Stop(c, q) ==
    /\ Enter(c, q, "notifyAll")
    /\ ~stop[q]
    /\ SoleUser(c, q)
    /\ stop' = [stop EXCEPT ![q] = TRUE]
    /\ UNCHANGED <<syncVars, requests, responses, gone, workerVars, taken, ghostVars>>

\* Mutant of NotifyAll: notify_one() instead of notify_all().
NotifyOneOnly(c) ==
    /\ cpc[c] = "notifyAll"
    /\ cpc' = [cpc EXCEPT ![c] = "join"]
    /\ IF Dormant(target[c]) = {}
       THEN UNCHANGED pc
       ELSE \E w \in Dormant(target[c]) : pc' = [pc EXCEPT ![w] = "fetch"]
    /\ UNCHANGED <<syncVars, queueVars, task, target, taken, ghostVars>>

\* ... request_cv_.notify_all(), ...
NotifyAll(c) ==
    /\ cpc[c] = "notifyAll"
    /\ cpc' = [cpc EXCEPT ![c] = "join"]
    /\ pc' = [w \in Workers |-> IF w \in Dormant(target[c]) THEN "fetch" ELSE pc[w]]
    /\ UNCHANGED <<syncVars, queueVars, task, target, taken, ghostVars>>

\* ... and every worker joined.
Join(c) ==
    /\ Leave(c, "join")
    /\ \A w \in WorkersOf(target[c]) : pc[w] = "exited"
    /\ gone' = gone \cup {target[c]}
    /\ UNCHANGED <<syncVars, requests, responses, stop, workerVars, taken, ghostVars>>

-----------------------------------------------------------------------------
(* Workers (the lambda of the constructor, and the lambda PushRequest      *)
(* wraps around the request).                                              *)

Fetching(w) == pc[w] = "fetch" /\ UNCHANGED <<syncVars, responses, stop, gone, callerVars, ghostVars>>

\* Mutant of Fetch: front() without pop().
FetchWithoutPop(w) ==
    LET q == Home[w] IN
    /\ Fetching(w)
    /\ requests[q] # << >>
    /\ task' = [task EXCEPT ![w] = Head(requests[q])]
    /\ pc' = [pc EXCEPT ![w] = "run"]
    /\ UNCHANGED requests

\* The predicate holds: take the oldest request.
Fetch(w) ==
    LET q == Home[w] IN
    /\ Fetching(w)
    /\ requests[q] # << >>
    /\ task' = [task EXCEPT ![w] = Head(requests[q])]
    /\ requests' = [requests EXCEPT ![q] = Tail(@)]
    /\ pc' = [pc EXCEPT ![w] = "run"]

\* The predicate does not hold: block in request_cv_.wait.
WaitForRequest(w) ==
    LET q == Home[w] IN
    /\ Fetching(w)
    /\ requests[q] = << >> /\ ~stop[q]
    /\ pc' = [pc EXCEPT ![w] = "dormant"]
    /\ UNCHANGED <<task, requests>>

\* Mutant of Quit: a stopped worker ends although requests are queued.
QuitUndrained(w) ==
    /\ Fetching(w)
    /\ stop[Home[w]]
    /\ pc' = [pc EXCEPT ![w] = "exited"]
    /\ UNCHANGED <<task, requests>>

\* Stopped and drained: the thread ends.
Quit(w) ==
    LET q == Home[w] IN
    /\ Fetching(w)
    /\ requests[q] = << >> /\ stop[q]
    /\ pc' = [pc EXCEPT ![w] = "exited"]
    /\ UNCHANGED <<task, requests>>

\* Mutant of Answer: the task is dropped before its response is pushed.
AnswerAfterReset(w) ==
    LET q == Home[w] IN
    /\ pc[w] = "run"
    /\ RespUnlocked(q)
    /\ task' = [task EXCEPT ![w] = NoTask]
    /\ responses' = [responses EXCEPT ![q] = @ \cup {task'[w]}]
    /\ pc' = [pc EXCEPT ![w] = "notify"]
    /\ UNCHANGED <<syncVars, requests, stop, gone, callerVars, ghostVars>>

\* request_func() has returned: its response is pushed under
\* resp_queue_mutex_.
Answer(w) ==
    LET q == Home[w] IN
    /\ pc[w] = "run"
    /\ RespUnlocked(q)
    /\ responses' = [responses EXCEPT ![q] = @ \cup {task[w]}]
    /\ task' = [task EXCEPT ![w] = NoTask]
    /\ pc' = [pc EXCEPT ![w] = "notify"]
    /\ UNCHANGED <<syncVars, requests, stop, gone, callerVars, ghostVars>>

\* synchronizer_->notify(), its two halves.
Notify(w) ==
    /\ pc[w] = "notify"
    /\ AddWork
    /\ pc' = [pc EXCEPT ![w] = "wake"]
    /\ UNCHANGED <<queueVars, task, callerVars, ghostVars>>

Wake(w) ==
    /\ pc[w] = "wake"
    /\ WakeOne
    /\ pc' = [pc EXCEPT ![w] = "fetch"]
    /\ UNCHANGED <<queueVars, task, callerVars, ghostVars>>

-----------------------------------------------------------------------------
\* Either condition variable may wake a thread for no reason.
SpuriousWake ==
    \/ \E w \in Workers :
          /\ pc[w] = "dormant"
          /\ pc' = [pc EXCEPT ![w] = "fetch"]
          /\ UNCHANGED <<syncVars, queueVars, task, callerVars, ghostVars>>
    \/ \E c \in asleep :
          /\ asleep' = asleep \ {c}
          /\ UNCHANGED <<work, queueVars, workerVars, callerVars, ghostVars>>

\* Every queue is destroyed and every caller is done.
Finished ==
    /\ gone = Queues
    /\ \A c \in Callers : cpc[c] = "ready"
    /\ UNCHANGED vars

CallerCall(c) ==
    \/ \E q \in Queues :
          \/ \E r \in Requests : PushRequest(c, q, r) \/ PushRefused(c, q, r)
          \/ PopResponses(c, q)
          \/ Stop(c, q)
    \/ Wait(c)

\* The steps of a call that has begun.
CallerStep(c) ==
    Signal(c) \/ Consume(c) \/ Sleep(c) \/ WaitReturn(c) \/ NotifyAll(c) \/ Join(c)

WorkerFetch(w) == Fetch(w) \/ WaitForRequest(w) \/ Quit(w)

WorkerStep(w) == WorkerFetch(w) \/ Answer(w) \/ Notify(w) \/ Wake(w)

Next ==
    \/ \E c \in Callers : CallerCall(c) \/ CallerStep(c)
    \/ \E w \in Workers : WorkerStep(w)
    \/ SpuriousWake
    \/ Finished

Spec == Init /\ [][Next]_vars

\* The threads are scheduled, and every request function returns.  Callers
\* owe nobody a call.  A worker at "run" competes for resp_queue_mutex_
\* with a caller that polls PopResponses, hence strong fairness.
Fairness ==
    /\ \A c \in Callers : WF_vars(CallerStep(c))
    /\ \A w \in Workers : /\ WF_vars(WorkerFetch(w) \/ Notify(w) \/ Wake(w))
                          /\ SF_vars(Answer(w))

FairSpec == Spec /\ Fairness

-----------------------------------------------------------------------------
(* Properties.                                                             *)

\* Every variable has the shape its C++ counterpart has.
TypeOK ==
    /\ work \in Int
    /\ asleep \subseteq Callers
    /\ requests \in [Queues -> Seq(Requests)]
    /\ responses \in [Queues -> SUBSET Requests]
    /\ stop \in [Queues -> BOOLEAN]
    /\ gone \subseteq Queues
    /\ pc \in [Workers -> {"fetch", "dormant", "run", "notify", "wake", "exited"}]
    /\ task \in [Workers -> Requests \cup {NoTask}]
    /\ cpc \in [Callers -> {"ready", "signal", "consume", "waiting", "notifyAll", "join"}]
    /\ target \in [Callers -> Queues \cup {NoQueue}]
    /\ taken \in [Callers -> SUBSET Requests]
    /\ fresh \subseteq Requests
    /\ refused \subseteq Requests
    /\ collected \in [Queues -> SUBSET Requests]

\* Responses pushed whose work unit no consume() has subtracted yet.
Unconsumed ==
    {r \in Requests : \/ \E q \in Queues : r \in responses[q]
                     \/ \E c \in Callers : r \in taken[c]}

\* Workers between the push of a response and notify().
Notifying == {w \in Workers : pc[w] = "notify"}

\* The counter of the Synchronizer is the number of responses waiting to be
\* consumed, over all the queues that share it, short of those a worker is
\* about to count: no interleaving of Answer, notify() and PopResponses
\* (which may consume a unit before it was added) makes it drift.
WorkAccounting == work + Cardinality(Notifying) = Cardinality(Unconsumed)

\* The places a request can be in, each occurrence apart.
Places(r) ==
    {<<"fresh", 0>> : x \in {r} \cap fresh}
    \cup {<<"refused", 0>> : x \in {r} \cap refused}
    \cup (UNION {{<<"queued", q, i>> : i \in {j \in DOMAIN requests[q] : requests[q][j] = r}} : q \in Queues})
    \cup {<<"running", w>> : w \in {v \in Workers : task[v] = r}}
    \cup {<<"answered", q>> : q \in {p \in Queues : r \in responses[p]}}
    \cup {<<"taken", c>> : c \in {d \in Callers : r \in taken[d]}}
    \cup {<<"collected", q>> : q \in {p \in Queues : r \in collected[p]}}

\* However workers and callers interleave, a request is never lost, run
\* twice or answered twice.
InOnePlace == \A r \in Requests : Cardinality(Places(r)) = 1

AtFetch(q)    == {w \in WorkersOf(q) : pc[w] = "fetch"}
Signalling(q) == {c \in Callers : cpc[c] = "signal" /\ target[c] = q}

\* No wake-up is lost: while a worker of q sleeps, there is for every queued
\* request a worker on its way to the queue or a notify_one() still to come.
\* (PushRequest notifies after it released the mutex.)
EnoughAwake ==
    \A q \in Queues :
        Dormant(q) # {} =>
            Len(requests[q]) <= Cardinality(AtFetch(q)) + Cardinality(Signalling(q))

\* The destructor returns only when every worker has left its loop and the
\* requests accepted before it have all been executed.
JoinedMeansDrained ==
    \A q \in gone :
        /\ requests[q] = << >>
        /\ \A w \in WorkersOf(q) : pc[w] = "exited"

\* A caller for which wait() may return finds a response to pop, unless
\* another caller is just taking it or a queue was destroyed with responses
\* in it (their work units stay in the counter for ever).
WaitFindsResponse ==
    (HasWork /\ \A q \in gone : responses[q] = {})
        => \/ \E q \in Queues \ gone : responses[q] # {}
           \/ \E c \in Callers : taken[c] # {}

\* For a single caller, the protocol of every handler: it never sleeps in
\* wait() on a positive counter without a notify_one() on its way.
SleeperHasWaker ==
    (HasWork /\ asleep # {}) => \E w \in Workers : pc[w] = "wake"

\* Every request a queue accepted is executed and its response handed over.
EveryRequestAnswered ==
    \A q \in Queues, r \in Requests :
        (\E i \in DOMAIN requests[q] : requests[q][i] = r)
            ~> (r \in responses[q] \cup collected[q] \cup UNION {taken[c] : c \in Callers})

\* ~AsyncQueue terminates, whatever was queued when it was called.
DestructorReturns == \A q \in Queues : stop[q] ~> q \in gone

\* wait() returns to a single caller that is owed a response.
WaitReturns == \A c \in Callers : cpc[c] = "waiting" ~> cpc[c] = "ready"

\* The queue q as the TaskPool its callers see.  A response counts as
\* collected from the moment PopResponses has drained it.
PoolSizeOf(q)      == Cardinality(WorkersOf(q))
PoolRunning(q)     == {task[w] : w \in WorkersOf(q)} \ {NoTask}
PoolCollected(q)   == collected[q] \cup UNION {taken[c] : c \in {d \in Callers : target[d] = q}}
PoolState(q)       == IF q \in gone THEN "closed" ELSE IF stop[q] THEN "closing" ELSE "open"

=============================================================================
