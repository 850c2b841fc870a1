-------------------------- MODULE AsyncQueueProofs --------------------------
(***************************************************************************)
(* Theorems about AsyncQueue, for every set of queues, workers, requests   *)
(* and callers.                                                            *)
(***************************************************************************)
EXTENDS AsyncQueue, FiniteSetTheorems, TLAPS

-----------------------------------------------------------------------------
(* Type correctness.  TypeOK alone is not inductive: what a worker pushes  *)
(* as a response, or a caller marks as destroyed, is of the right type     *)
(* because the program counters tell when the locals hold something.       *)

Locals ==
    /\ \A w \in Workers : task[w] = NoTask <=> pc[w] # "run"
    /\ \A c \in Callers : target[c] = NoQueue <=> cpc[c] \in {"ready", "waiting"}
    /\ \A c \in Callers : taken[c] # {} => cpc[c] = "consume"

TypeInv == TypeOK /\ Locals

\* A new queue is well typed.
LEMMA TypeInit == Init => TypeInv
BY DEF Init, TypeInv, TypeOK, Locals, SyncInit

\* The first step of a call.
LEMMA TypeCall ==
    ASSUME TypeInv, NEW c \in Callers, CallerCall(c)
    PROVE  TypeInv'
<1> USE QueuesAssumption, RequestsAssumption
        DEF TypeInv, TypeOK, Locals, syncVars, queueVars, workerVars, callerVars, ghostVars
<1>1. ASSUME NEW q \in Queues, NEW r \in Requests, PushRequest(c, q, r)
      PROVE  TypeInv'
  BY <1>1 DEF PushRequest, Enter
<1>2. ASSUME NEW q \in Queues, NEW r \in Requests, PushRefused(c, q, r)
      PROVE  TypeInv'
  BY <1>2 DEF PushRefused
<1>3. ASSUME NEW q \in Queues, PopResponses(c, q)
      PROVE  TypeInv'
  BY <1>3 DEF PopResponses, Enter
<1>4. ASSUME NEW q \in Queues, Stop(c, q)
      PROVE  TypeInv'
  BY <1>4 DEF Stop, Enter
<1>5. CASE Wait(c)
  BY <1>5 DEF Wait
<1> QED
  BY <1>1, <1>2, <1>3, <1>4, <1>5 DEF CallerCall

\* The rest of a call.
LEMMA TypeCallerStep ==
    ASSUME TypeInv, NEW c \in Callers, CallerStep(c)
    PROVE  TypeInv'
<1> USE QueuesAssumption, RequestsAssumption
        DEF TypeInv, TypeOK, Locals, syncVars, queueVars, workerVars, callerVars, ghostVars
<1>1. CASE Signal(c)
  BY <1>1 DEF Signal, Leave, Dormant, WorkersOf
<1>2. CASE Consume(c)
  <2>1. Cardinality(taken[c]) \in Int
    BY RequestsAssumption, FS_Subset, FS_CardinalityType
  <2>2. work' \in Int
    BY <1>2, <2>1 DEF Consume, ConsumeWork
  <2>3. collected' \in [Queues -> SUBSET Requests]
    BY <1>2 DEF Consume
  <2> QED
    BY <1>2, <2>2, <2>3 DEF Consume, Leave, ConsumeWork
<1>3. CASE Sleep(c)
  BY <1>3 DEF Sleep, Block
<1>4. CASE WaitReturn(c)
  BY <1>4 DEF WaitReturn, Pass
<1>5. CASE NotifyAll(c)
  BY <1>5 DEF NotifyAll, Dormant
<1>6. CASE Join(c)
  <2>1. target[c] \in Queues
    BY <1>6 DEF Join, Leave
  <2> QED
    BY <1>6, <2>1 DEF Join, Leave
<1> QED
  BY <1>1, <1>2, <1>3, <1>4, <1>5, <1>6 DEF CallerStep

\* The loop of a worker.
LEMMA TypeWorkerStep ==
    ASSUME TypeInv, NEW w \in Workers, WorkerStep(w)
    PROVE  TypeInv'
<1> USE WorkersAssumption, RequestsAssumption
        DEF TypeInv, TypeOK, Locals, syncVars, queueVars, workerVars, callerVars, ghostVars
<1>1. CASE Fetch(w)
  BY <1>1 DEF Fetch, Fetching
<1>2. CASE WaitForRequest(w)
  BY <1>2 DEF WaitForRequest, Fetching
<1>3. CASE Quit(w)
  BY <1>3 DEF Quit, Fetching
<1>4. CASE Answer(w)
  <2>1. responses' \in [Queues -> SUBSET Requests]
    <3>1. task[w] \in Requests \cup {NoTask} /\ Home[w] \in Queues
      OBVIOUS
    <3>2. task[w] \in Requests
      BY <1>4, <3>1 DEF Answer
    <3> QED
      BY <1>4, <3>1, <3>2 DEF Answer
  <2> QED
    BY <1>4, <2>1 DEF Answer
<1>5. CASE Notify(w)
  BY <1>5 DEF Notify, AddWork
<1>6. CASE Wake(w)
  BY <1>6 DEF Wake, WakeOne
<1> QED
  BY <1>1, <1>2, <1>3, <1>4, <1>5, <1>6 DEF WorkerStep, WorkerFetch

\* The types, with the program counters that justify them.
LEMMA TypeInvariance == Spec => []TypeInv
<1>1. TypeInv /\ [Next]_vars => TypeInv'
  <2> SUFFICES ASSUME TypeInv, [Next]_vars PROVE TypeInv'
    OBVIOUS
  <2>1. CASE SpuriousWake
    BY <2>1 DEF SpuriousWake, TypeInv, TypeOK, Locals,
                syncVars, queueVars, workerVars, callerVars, ghostVars
  <2>2. CASE UNCHANGED vars
    BY <2>2 DEF TypeInv, TypeOK, Locals, vars,
                syncVars, queueVars, workerVars, callerVars, ghostVars
  <2> QED
    BY <2>1, <2>2, TypeCall, TypeCallerStep, TypeWorkerStep DEF Next, Finished
<1> QED
  BY <1>1, TypeInit, PTL DEF Spec

\* Every reachable state is well typed: no step of a caller, a worker or the
\* condition variables leaves the shapes the C++ objects have.
THEOREM TypeCorrect == Spec => []TypeOK
<1>1. TypeInv => TypeOK
  BY DEF TypeInv
<1> QED
  BY <1>1, TypeInvariance, PTL

-----------------------------------------------------------------------------
(* The destructor.  A worker leaves its loop only when its queue is        *)
(* stopped and empty, and nothing is pushed to a stopped queue.            *)

DrainInv ==
    /\ \A w \in Workers : pc[w] = "exited" => stop[Home[w]] /\ requests[Home[w]] = << >>
    /\ \A q \in gone : \A w \in WorkersOf(q) : pc[w] = "exited"

\* A worker that has left its loop left nothing behind, and nothing follows.
LEMMA DrainStep ==
    ASSUME TypeInv, DrainInv, [Next]_vars
    PROVE  DrainInv'
<1> USE WorkersAssumption
        DEF TypeInv, TypeOK, Locals, DrainInv, WorkersOf,
            syncVars, queueVars, workerVars, callerVars, ghostVars
<1>1. ASSUME NEW c \in Callers, CallerCall(c)
      PROVE  DrainInv'
  BY <1>1 DEF CallerCall, PushRequest, PushRefused, PopResponses, Stop, Wait, Enter
<1>2. ASSUME NEW c \in Callers, CallerStep(c)
      PROVE  DrainInv'
  BY <1>2 DEF CallerStep, Signal, Consume, Sleep, WaitReturn, NotifyAll, Join, Leave, Dormant
<1>3. ASSUME NEW w \in Workers, WorkerStep(w)
      PROVE  DrainInv'
  <2>1. CASE Fetch(w)
    BY <1>3, <2>1 DEF Fetch, Fetching
  <2>2. CASE WaitForRequest(w) \/ Quit(w)
    BY <1>3, <2>2 DEF WaitForRequest, Quit, Fetching
  <2>3. CASE Answer(w) \/ Notify(w) \/ Wake(w)
    BY <1>3, <2>3 DEF Answer, Notify, Wake
  <2> QED
    BY <1>3, <2>1, <2>2, <2>3 DEF WorkerStep, WorkerFetch
<1>4. CASE SpuriousWake
  BY <1>4 DEF SpuriousWake
<1>5. CASE UNCHANGED vars
  BY <1>5 DEF vars
<1> QED
  BY <1>1, <1>2, <1>3, <1>4, <1>5 DEF Next, Finished

\* When ~AsyncQueue has returned, every request accepted by the queue has been
\* taken out and every worker has ended, in every interleaving of the
\* destructor with the workers and with pushes of other threads.
THEOREM Drained == Spec => []JoinedMeansDrained
<1>1. Init => DrainInv
  BY DEF Init, DrainInv
<1>2. TypeInv /\ DrainInv => JoinedMeansDrained
  <2> SUFFICES ASSUME TypeInv, DrainInv, NEW q \in gone
               PROVE  requests[q] = << >> /\ \A w \in WorkersOf(q) : pc[w] = "exited"
    BY DEF JoinedMeansDrained
  <2>1. PICK w \in WorkersOf(q) : TRUE
    BY PoolAssumption DEF TypeInv, TypeOK
  <2> QED
    BY <2>1 DEF DrainInv, WorkersOf
<1> QED
  BY <1>1, <1>2, TypeInvariance, DrainStep, PTL DEF Spec

-----------------------------------------------------------------------------
(* No lost wake-up.  EnoughAwake is inductive as it stands; the steps that *)
(* disturb one of its three terms are a push, a notify_one(), and a worker *)
(* that reaches or leaves the head of its loop.                            *)

\* The two sets EnoughAwake counts are finite.
LEMMA AwakeFinite ==
    ASSUME TypeInv, NEW q \in Queues
    PROVE  /\ IsFiniteSet(AtFetch(q)) /\ Cardinality(AtFetch(q)) \in Nat
           /\ IsFiniteSet(Signalling(q)) /\ Cardinality(Signalling(q)) \in Nat
<1>1. AtFetch(q) \in SUBSET Workers /\ Signalling(q) \in SUBSET Callers
  BY DEF AtFetch, WorkersOf, Signalling
<1> QED
  BY <1>1, WorkersAssumption, CallersAssumption, FS_Subset, FS_CardinalityType

\* EnoughAwake for one queue.
Awake(q) ==
    Dormant(q) # {} =>
        Len(requests[q]) <= Cardinality(AtFetch(q)) + Cardinality(Signalling(q))

\* A step that keeps the queue and its signallers, wakes nobody it should not
\* and takes no worker away from the head of its loop, preserves Awake.
LEMMA AwakeMonotone ==
    ASSUME TypeInv, TypeInv', NEW q \in Queues, Awake(q),
           requests'[q] = requests[q],
           Signalling(q)' = Signalling(q),
           AtFetch(q) \subseteq AtFetch(q)',
           Dormant(q)' \subseteq Dormant(q)
    PROVE  Awake(q)'
<1>1. IsFiniteSet(AtFetch(q)')
  <2>1. AtFetch(q)' \in SUBSET Workers
    BY DEF AtFetch, WorkersOf
  <2> QED
    BY <2>1, WorkersAssumption, FS_Subset
<1>2. Cardinality(AtFetch(q)) <= Cardinality(AtFetch(q)')
  BY <1>1, FS_Subset
<1>3. Cardinality(AtFetch(q)') \in Nat
  BY <1>1, FS_CardinalityType
<1>4. Len(requests[q]) \in Nat
  BY DEF TypeInv, TypeOK
<1> QED
  BY <1>2, <1>3, <1>4, AwakeFinite DEF Awake

\* A push brings its own notify_one().
LEMMA AwakeCall ==
    ASSUME TypeInv, TypeInv', NEW q \in Queues, Awake(q), NEW c \in Callers, CallerCall(c)
    PROVE  Awake(q)'
<1> USE DEF TypeInv, TypeOK, Locals, syncVars, queueVars, workerVars, callerVars, ghostVars
<1>1. ASSUME NEW p \in Queues, NEW r \in Requests, PushRequest(c, p, r)
      PROVE  Awake(q)'
  <2>1. Dormant(q)' = Dormant(q) /\ AtFetch(q)' = AtFetch(q)
    BY <1>1 DEF PushRequest, Dormant, AtFetch, WorkersOf
  <2>2. CASE p = q
    <3>1. Len(requests'[q]) = Len(requests[q]) + 1
      BY <1>1, <2>2 DEF PushRequest
    <3>2. Signalling(q)' = Signalling(q) \cup {c} /\ c \notin Signalling(q)
      BY <1>1, <2>2 DEF PushRequest, Enter, Signalling
    <3>3. Cardinality(Signalling(q)') = Cardinality(Signalling(q)) + 1
      <4>1. IsFiniteSet(Signalling(q))
        BY AwakeFinite
      <4> HIDE DEF TypeInv, TypeOK, Locals
      <4> QED
        BY <3>2, <4>1, FS_AddElement
    <3>4. Len(requests[q]) \in Nat
      OBVIOUS
    <3> QED
      BY <2>1, <3>1, <3>3, <3>4, AwakeFinite DEF Awake
  <2>3. CASE p # q
    <3>1. requests'[q] = requests[q]
      BY <1>1, <2>3 DEF PushRequest
    <3>2. Signalling(q)' = Signalling(q)
      BY <1>1, <2>3 DEF PushRequest, Enter, Signalling
    <3> HIDE DEF TypeInv, TypeOK, Locals
    <3> QED
      BY <2>1, <3>1, <3>2, AwakeMonotone
  <2> QED
    BY <2>2, <2>3
<1>2. ASSUME \/ \E p \in Queues : \/ \E r \in Requests : PushRefused(c, p, r)
                                  \/ PopResponses(c, p)
                                  \/ Stop(c, p)
             \/ Wait(c)
      PROVE  Awake(q)'
  <2>1. requests'[q] = requests[q] /\ UNCHANGED pc
    BY <1>2 DEF PushRefused, PopResponses, Stop, Wait
  <2>2. Signalling(q)' = Signalling(q)
    BY <1>2 DEF PushRefused, PopResponses, Stop, Wait, Enter, Signalling
  <2>3. AtFetch(q)' = AtFetch(q) /\ Dormant(q)' = Dormant(q)
    BY <2>1 DEF AtFetch, Dormant, WorkersOf
  <2> HIDE DEF TypeInv, TypeOK, Locals
  <2> QED
    BY <2>1, <2>2, <2>3, AwakeMonotone
<1> QED
  BY <1>1, <1>2 DEF CallerCall

\* A notify_one() is replaced by the worker it wakes.
LEMMA AwakeCallerStep ==
    ASSUME TypeInv, TypeInv', NEW q \in Queues, Awake(q), NEW c \in Callers, CallerStep(c)
    PROVE  Awake(q)'
<1> USE DEF TypeInv, TypeOK, Locals, syncVars, queueVars, workerVars, callerVars, ghostVars
<1>1. CASE Signal(c) /\ target[c] = q
  <2>1. CASE Dormant(q) = {}
    BY <1>1, <2>1 DEF Signal, Awake, Dormant, WorkersOf
  <2>2. CASE Dormant(q) # {}
    <3>1. PICK w \in Dormant(q) : pc' = [pc EXCEPT ![w] = "fetch"]
      BY <1>1, <2>2 DEF Signal
    <3>2. AtFetch(q)' = AtFetch(q) \cup {w} /\ w \notin AtFetch(q)
      BY <3>1 DEF AtFetch, Dormant, WorkersOf
    <3>3. Signalling(q)' = Signalling(q) \ {c} /\ c \in Signalling(q)
      BY <1>1 DEF Signal, Leave, Signalling
    <3>4. Cardinality(AtFetch(q)') = Cardinality(AtFetch(q)) + 1
      <4>1. IsFiniteSet(AtFetch(q))
        BY AwakeFinite
      <4> HIDE DEF TypeInv, TypeOK, Locals
      <4> QED
        BY <3>2, <4>1, FS_AddElement
    <3>5. Cardinality(Signalling(q)') = Cardinality(Signalling(q)) - 1
      <4>1. IsFiniteSet(Signalling(q))
        BY AwakeFinite
      <4> HIDE DEF TypeInv, TypeOK, Locals
      <4> QED
        BY <3>3, <4>1, FS_RemoveElement
    <3>6. requests'[q] = requests[q] /\ Len(requests[q]) \in Nat
      BY <1>1 DEF Signal
    <3> QED
      BY <2>2, <3>4, <3>5, <3>6, AwakeFinite DEF Awake
  <2> QED
    BY <2>1, <2>2
<1>2. CASE Signal(c) /\ target[c] # q
  <2>1. requests'[q] = requests[q]
    BY <1>2 DEF Signal
  <2>2. Signalling(q)' = Signalling(q)
    BY <1>2 DEF Signal, Leave, Signalling
  <2>3. AtFetch(q) \subseteq AtFetch(q)' /\ Dormant(q)' \subseteq Dormant(q)
    BY <1>2 DEF Signal, AtFetch, Dormant, WorkersOf
  <2> QED
    BY <2>1, <2>2, <2>3, AwakeMonotone
<1>3. CASE Consume(c) \/ Sleep(c) \/ WaitReturn(c) \/ NotifyAll(c) \/ Join(c)
  <2>1. requests'[q] = requests[q]
    BY <1>3 DEF Consume, Sleep, WaitReturn, NotifyAll, Join
  <2>2. Signalling(q)' = Signalling(q)
    BY <1>3 DEF Consume, Sleep, WaitReturn, NotifyAll, Join, Leave, Signalling
  <2>3. AtFetch(q) \subseteq AtFetch(q)' /\ Dormant(q)' \subseteq Dormant(q)
    BY <1>3 DEF Consume, Sleep, WaitReturn, NotifyAll, Join, AtFetch, Dormant, WorkersOf
  <2> QED
    BY <2>1, <2>2, <2>3, AwakeMonotone
<1> QED
  BY <1>1, <1>2, <1>3 DEF CallerStep

\* A worker leaves the head of the loop with a request, or finds none.
LEMMA AwakeWorkerStep ==
    ASSUME TypeInv, TypeInv', NEW q \in Queues, Awake(q), NEW w \in Workers, WorkerStep(w)
    PROVE  Awake(q)'
<1> USE WorkersAssumption
        DEF TypeInv, TypeOK, Locals, syncVars, queueVars, workerVars, callerVars, ghostVars
<1>1. Signalling(q)' = Signalling(q)
  BY DEF WorkerStep, WorkerFetch, Fetch, WaitForRequest, Quit, Fetching, Answer, Notify,
         Wake, Signalling
<1>2. CASE Fetch(w) /\ Home[w] = q
  <2>1. AtFetch(q)' = AtFetch(q) \ {w} /\ w \in AtFetch(q)
    BY <1>2 DEF Fetch, Fetching, AtFetch, WorkersOf
  <2>2. Cardinality(AtFetch(q)') = Cardinality(AtFetch(q)) - 1
    <3>1. IsFiniteSet(AtFetch(q))
      BY AwakeFinite
    <3> HIDE DEF TypeInv, TypeOK, Locals
    <3> QED
      BY <2>1, <3>1, FS_RemoveElement
  <2>3. Len(requests'[q]) = Len(requests[q]) - 1 /\ Len(requests[q]) \in Nat
    BY <1>2 DEF Fetch
  <2>4. Dormant(q)' = Dormant(q)
    BY <1>2 DEF Fetch, Fetching, Dormant, WorkersOf
  <2> QED
    BY <1>1, <2>2, <2>3, <2>4, AwakeFinite DEF Awake
<1>3. CASE (WaitForRequest(w) \/ Quit(w)) /\ Home[w] = q
  <2>1. Len(requests'[q]) = 0
    BY <1>3 DEF WaitForRequest, Quit
  <2>2. IsFiniteSet(AtFetch(q)') /\ IsFiniteSet(Signalling(q)')
    <3>1. AtFetch(q)' \in SUBSET Workers
      BY DEF AtFetch, WorkersOf
    <3> QED
      BY <1>1, <3>1, WorkersAssumption, AwakeFinite, FS_Subset
  <2> QED
    BY <2>1, <2>2, FS_CardinalityType DEF Awake
<1>4. CASE (Fetch(w) \/ WaitForRequest(w) \/ Quit(w)) /\ Home[w] # q
  <2>1. requests'[q] = requests[q]
    BY <1>4 DEF Fetch, WaitForRequest, Quit
  <2>2. AtFetch(q)' = AtFetch(q) /\ Dormant(q)' = Dormant(q)
    BY <1>4 DEF Fetch, WaitForRequest, Quit, Fetching, AtFetch, Dormant, WorkersOf
  <2> QED
    BY <1>1, <2>1, <2>2, AwakeMonotone
<1>5. CASE Answer(w) \/ Notify(w) \/ Wake(w)
  <2>1. requests'[q] = requests[q]
    BY <1>5 DEF Answer, Notify, Wake
  <2>2. AtFetch(q) \subseteq AtFetch(q)' /\ Dormant(q)' \subseteq Dormant(q)
    BY <1>5 DEF Answer, Notify, Wake, AtFetch, Dormant, WorkersOf
  <2> QED
    BY <1>1, <2>1, <2>2, AwakeMonotone
<1> QED
  BY <1>2, <1>3, <1>4, <1>5 DEF WorkerStep, WorkerFetch

\* For any number of workers, callers and queues: while a worker sleeps, every
\* queued request has a worker on its way to it or a notify_one() to come, so
\* no interleaving of PushRequest's two halves with the wait predicate leaves a
\* request behind.
THEOREM NoLostWakeup == Spec => []EnoughAwake
<1>1. Init => EnoughAwake
  BY DEF Init, EnoughAwake, Dormant, WorkersOf
<1>2. TypeInv /\ TypeInv' /\ EnoughAwake /\ [Next]_vars => EnoughAwake'
  <2> SUFFICES ASSUME TypeInv, TypeInv', EnoughAwake, [Next]_vars, NEW q \in Queues
               PROVE  Awake(q)'
    BY DEF EnoughAwake, Awake
  <2>1. Awake(q)
    BY DEF EnoughAwake, Awake
  <2>2. CASE SpuriousWake \/ UNCHANGED vars
    <3>1. requests'[q] = requests[q] /\ Signalling(q)' = Signalling(q)
      BY <2>2 DEF SpuriousWake, vars, queueVars, callerVars, Signalling
    <3>2. AtFetch(q) \subseteq AtFetch(q)' /\ Dormant(q)' \subseteq Dormant(q)
      BY <2>2 DEF SpuriousWake, vars, workerVars, TypeInv, TypeOK, AtFetch, Dormant, WorkersOf
    <3> QED
      BY <2>1, <3>1, <3>2, AwakeMonotone
  <2> QED
    BY <2>1, <2>2, AwakeCall, AwakeCallerStep, AwakeWorkerStep DEF Next, Finished
<1> QED
  BY <1>1, <1>2, TypeInvariance, PTL DEF Spec

-----------------------------------------------------------------------------
(* A request is in one place.  The lemmas say what follows for a request   *)
(* that is known to be in one, then where each step takes its request.     *)

\* p is a place of r.
IsAt(r, p) ==
    \/ r \in fresh /\ p = <<"fresh", 0>>
    \/ r \in refused /\ p = <<"refused", 0>>
    \/ \E q \in Queues : \E i \in DOMAIN requests[q] :
          requests[q][i] = r /\ p = <<"queued", q, i>>
    \/ \E w \in Workers : task[w] = r /\ p = <<"running", w>>
    \/ \E q \in Queues : r \in responses[q] /\ p = <<"answered", q>>
    \/ \E c \in Callers : r \in taken[c] /\ p = <<"taken", c>>
    \/ \E q \in Queues : r \in collected[q] /\ p = <<"collected", q>>

Placed == \A r \in Requests : \E p : \A x : IsAt(r, x) <=> x = p

\* Places and IsAt are the same.
LEMMA PlacesAre ==
    ASSUME NEW r, NEW p
    PROVE  p \in Places(r) <=> IsAt(r, p)
<1> DEFINE F == {<<"fresh", 0>> : x \in {r} \cap fresh}
           U == {<<"refused", 0>> : x \in {r} \cap refused}
           Q == UNION {{<<"queued", q, i>> : i \in {j \in DOMAIN requests[q] : requests[q][j] = r}}
                         : q \in Queues}
           W == {<<"running", w>> : w \in {v \in Workers : task[v] = r}}
           A == {<<"answered", q>> : q \in {s \in Queues : r \in responses[s]}}
           T == {<<"taken", c>> : c \in {d \in Callers : r \in taken[d]}}
           C == {<<"collected", q>> : q \in {s \in Queues : r \in collected[s]}}
<1>1. p \in F <=> r \in fresh /\ p = <<"fresh", 0>>
  OBVIOUS
<1>2. p \in U <=> r \in refused /\ p = <<"refused", 0>>
  OBVIOUS
<1>3. p \in Q <=> \E q \in Queues : \E i \in DOMAIN requests[q] :
                      requests[q][i] = r /\ p = <<"queued", q, i>>
  OBVIOUS
<1>4. p \in W <=> \E w \in Workers : task[w] = r /\ p = <<"running", w>>
  OBVIOUS
<1>5. p \in A <=> \E q \in Queues : r \in responses[q] /\ p = <<"answered", q>>
  OBVIOUS
<1>6. p \in T <=> \E c \in Callers : r \in taken[c] /\ p = <<"taken", c>>
  OBVIOUS
<1>7. p \in C <=> \E q \in Queues : r \in collected[q] /\ p = <<"collected", q>>
  OBVIOUS
<1>8. Places(r) = F \cup U \cup Q \cup W \cup A \cup T \cup C
  BY DEF Places
<1> HIDE DEF F, U, Q, W, A, T, C
<1>9. p \in Places(r) <=> \/ p \in F \/ p \in U \/ p \in Q \/ p \in W
                          \/ p \in A \/ p \in T \/ p \in C
  BY <1>8
<1> QED
  BY <1>1, <1>2, <1>3, <1>4, <1>5, <1>6, <1>7, <1>9, Zenon DEF IsAt

\* A request with one place is in no other.
LEMMA OnlyPlace ==
    ASSUME Placed, NEW r \in Requests, NEW p, IsAt(r, p)
    PROVE  \A x : IsAt(r, x) => x = p
BY DEF Placed

\* A request that has not been pushed is nowhere else.
LEMMA FreshOnly ==
    ASSUME Placed, NEW r \in Requests, r \in fresh
    PROVE  /\ r \notin refused
           /\ \A q \in Queues : \A i \in DOMAIN requests[q] : requests[q][i] # r
           /\ \A w \in Workers : task[w] # r
           /\ \A q \in Queues : r \notin responses[q] /\ r \notin collected[q]
           /\ \A c \in Callers : r \notin taken[c]
<1>1. IsAt(r, <<"fresh", 0>>)
  BY DEF IsAt
<1>2. \A x : IsAt(r, x) => x = <<"fresh", 0>>
  BY <1>1, OnlyPlace
<1>3. ~IsAt(r, <<"refused", 0>>)
  BY <1>2
<1>4. \A q, i : ~IsAt(r, <<"queued", q, i>>)
  BY <1>2
<1>5. \A w : ~IsAt(r, <<"running", w>>) /\ ~IsAt(r, <<"answered", w>>)
             /\ ~IsAt(r, <<"taken", w>>) /\ ~IsAt(r, <<"collected", w>>)
  BY <1>2
<1> QED
  BY <1>3, <1>4, <1>5 DEF IsAt

\* A queued request has one position in one queue.
LEMMA QueuedOnly ==
    ASSUME Placed, NEW r \in Requests, NEW q \in Queues, NEW i \in DOMAIN requests[q],
           requests[q][i] = r
    PROVE  /\ r \notin fresh /\ r \notin refused
           /\ \A s \in Queues : \A j \in DOMAIN requests[s] : requests[s][j] = r => s = q /\ j = i
           /\ \A w \in Workers : task[w] # r
           /\ \A s \in Queues : r \notin responses[s] /\ r \notin collected[s]
           /\ \A c \in Callers : r \notin taken[c]
<1>1. IsAt(r, <<"queued", q, i>>)
  BY DEF IsAt
<1>2. \A x : IsAt(r, x) => x = <<"queued", q, i>>
  BY <1>1, OnlyPlace
<1>3. ~IsAt(r, <<"fresh", 0>>) /\ ~IsAt(r, <<"refused", 0>>)
  BY <1>2
<1>4. \A s, j : IsAt(r, <<"queued", s, j>>) => s = q /\ j = i
  BY <1>2
<1>5. \A w : ~IsAt(r, <<"running", w>>) /\ ~IsAt(r, <<"answered", w>>)
             /\ ~IsAt(r, <<"taken", w>>) /\ ~IsAt(r, <<"collected", w>>)
  BY <1>2
<1>6. \A s \in Queues : \A j \in DOMAIN requests[s] :
         requests[s][j] = r => IsAt(r, <<"queued", s, j>>)
  BY DEF IsAt
<1> QED
  BY <1>3, <1>4, <1>5, <1>6 DEF IsAt

\* A request under way has one worker.
LEMMA RunningOnly ==
    ASSUME Placed, NEW r \in Requests, NEW w \in Workers, task[w] = r
    PROVE  /\ r \notin fresh /\ r \notin refused
           /\ \A s \in Queues : \A j \in DOMAIN requests[s] : requests[s][j] # r
           /\ \A v \in Workers : task[v] = r => v = w
           /\ \A s \in Queues : r \notin responses[s] /\ r \notin collected[s]
           /\ \A c \in Callers : r \notin taken[c]
<1>1. IsAt(r, <<"running", w>>)
  BY DEF IsAt
<1>2. \A x : IsAt(r, x) => x = <<"running", w>>
  BY <1>1, OnlyPlace
<1>3. ~IsAt(r, <<"fresh", 0>>) /\ ~IsAt(r, <<"refused", 0>>)
  BY <1>2
<1>4. \A q, i : ~IsAt(r, <<"queued", q, i>>)
  BY <1>2
<1>5. \A v : ~IsAt(r, <<"answered", v>>) /\ ~IsAt(r, <<"taken", v>>)
             /\ ~IsAt(r, <<"collected", v>>)
  BY <1>2
<1>6. \A v : IsAt(r, <<"running", v>>) => v = w
  BY <1>2
<1>7. \A v \in Workers : task[v] = r => IsAt(r, <<"running", v>>)
  BY DEF IsAt
<1> QED
  BY <1>3, <1>4, <1>5, <1>6, <1>7 DEF IsAt

\* A response is in one bag.
LEMMA AnsweredOnly ==
    ASSUME Placed, NEW r \in Requests, NEW q \in Queues, r \in responses[q]
    PROVE  /\ r \notin fresh /\ r \notin refused
           /\ \A s \in Queues : \A j \in DOMAIN requests[s] : requests[s][j] # r
           /\ \A w \in Workers : task[w] # r
           /\ \A s \in Queues : r \notin collected[s] /\ (r \in responses[s] => s = q)
           /\ \A c \in Callers : r \notin taken[c]
<1>1. IsAt(r, <<"answered", q>>)
  BY DEF IsAt
<1>2. \A x : IsAt(r, x) => x = <<"answered", q>>
  BY <1>1, OnlyPlace
<1>3. ~IsAt(r, <<"fresh", 0>>) /\ ~IsAt(r, <<"refused", 0>>)
  BY <1>2
<1>4. \A s, i : ~IsAt(r, <<"queued", s, i>>)
  BY <1>2
<1>5. \A v : ~IsAt(r, <<"running", v>>) /\ ~IsAt(r, <<"taken", v>>)
             /\ ~IsAt(r, <<"collected", v>>)
  BY <1>2
<1>6. \A s : IsAt(r, <<"answered", s>>) => s = q
  BY <1>2
<1>7. \A s \in Queues : r \in responses[s] => IsAt(r, <<"answered", s>>)
  BY DEF IsAt
<1> QED
  BY <1>3, <1>4, <1>5, <1>6, <1>7 DEF IsAt

\* A response that PopResponses has drained belongs to one caller.
LEMMA TakenOnly ==
    ASSUME Placed, NEW r \in Requests, NEW c \in Callers, r \in taken[c]
    PROVE  /\ r \notin fresh /\ r \notin refused
           /\ \A s \in Queues : \A j \in DOMAIN requests[s] : requests[s][j] # r
           /\ \A w \in Workers : task[w] # r
           /\ \A s \in Queues : r \notin responses[s] /\ r \notin collected[s]
           /\ \A d \in Callers : r \in taken[d] => d = c
<1>1. IsAt(r, <<"taken", c>>)
  BY DEF IsAt
<1>2. \A x : IsAt(r, x) => x = <<"taken", c>>
  BY <1>1, OnlyPlace
<1>3. ~IsAt(r, <<"fresh", 0>>) /\ ~IsAt(r, <<"refused", 0>>)
  BY <1>2
<1>4. \A s, i : ~IsAt(r, <<"queued", s, i>>)
  BY <1>2
<1>5. \A v : ~IsAt(r, <<"running", v>>) /\ ~IsAt(r, <<"answered", v>>)
             /\ ~IsAt(r, <<"collected", v>>)
  BY <1>2
<1>6. \A d : IsAt(r, <<"taken", d>>) => d = c
  BY <1>2
<1>7. \A d \in Callers : r \in taken[d] => IsAt(r, <<"taken", d>>)
  BY DEF IsAt
<1> QED
  BY <1>3, <1>4, <1>5, <1>6, <1>7 DEF IsAt

\* A request stays where it is if every step of its place does.
LEMMA SamePlace ==
    ASSUME Placed, NEW r \in Requests,
           r \in fresh' <=> r \in fresh,
           r \in refused' <=> r \in refused,
           \A q \in Queues : \A i : i \in DOMAIN requests'[q] /\ requests'[q][i] = r
                                <=> i \in DOMAIN requests[q] /\ requests[q][i] = r,
           \A w \in Workers : task'[w] = r <=> task[w] = r,
           \A q \in Queues : /\ r \in responses'[q] <=> r \in responses[q]
                             /\ r \in collected'[q] <=> r \in collected[q],
           \A c \in Callers : r \in taken'[c] <=> r \in taken[c]
    PROVE  \E p : \A x : IsAt(r, x)' <=> x = p
<1>1. \A x : IsAt(r, x)' <=> IsAt(r, x)
  BY DEF IsAt
<1> QED
  BY <1>1 DEF Placed

\* From the caller to the end of the queue.
LEMMA PlacedPush ==
    ASSUME TypeInv, Placed, NEW c \in Callers, NEW q \in Queues, NEW r \in Requests,
           PushRequest(c, q, r)
    PROVE  Placed'
<1>1. /\ requests[q] \in Seq(Requests) /\ r \in fresh
      /\ requests' = [requests EXCEPT ![q] = Append(@, r)] /\ fresh' = fresh \ {r}
      /\ UNCHANGED <<responses, task, taken, refused, collected>>
  BY DEF PushRequest, workerVars, TypeInv, TypeOK
<1>2. \A s \in Queues \ {q} : requests'[s] = requests[s]
  BY <1>1 DEF TypeInv, TypeOK
<1>3. /\ Len(requests[q]) + 1 \in DOMAIN requests'[q]
      /\ requests'[q][Len(requests[q]) + 1] = r
      /\ \A i \in DOMAIN requests[q] : i \in DOMAIN requests'[q] /\ requests'[q][i] = requests[q][i]
      /\ \A i \in DOMAIN requests'[q] : i \in DOMAIN requests[q] \/ i = Len(requests[q]) + 1
  BY <1>1 DEF TypeInv, TypeOK
<1>4. ASSUME NEW x \in Requests, x # r
      PROVE  \E p : \A y : IsAt(x, y)' <=> y = p
  <2>1. \A s \in Queues : \A i : i \in DOMAIN requests'[s] /\ requests'[s][i] = x
                             <=> i \in DOMAIN requests[s] /\ requests[s][i] = x
    BY <1>2, <1>3, <1>4
  <2> QED
    BY <1>1, <1>4, <2>1, SamePlace
<1>5. \A y : IsAt(r, y)' <=> y = <<"queued", q, Len(requests[q]) + 1>>
  <2>1. \A s \in Queues : \A i \in DOMAIN requests'[s] :
           requests'[s][i] = r <=> s = q /\ i = Len(requests[q]) + 1
    BY <1>1, <1>2, <1>3, FreshOnly
  <2> QED
    BY <1>1, <1>3, <2>1, FreshOnly DEF IsAt
<1> QED
  BY <1>4, <1>5 DEF Placed

\* From the head of the queue to a worker; the others move up by one.
LEMMA PlacedFetch ==
    ASSUME TypeInv, Placed, NEW w \in Workers, Fetch(w)
    PROVE  Placed'
<1> DEFINE q == Home[w]
           s == requests[q]
<1>1. q \in Queues /\ s \in Seq(Requests) /\ s # << >> /\ task[w] = NoTask
  BY WorkersAssumption DEF Fetch, Fetching, TypeInv, TypeOK, Locals
<1> PICK r \in Requests : r = Head(s)
  BY <1>1
<1>2. /\ requests' = [requests EXCEPT ![q] = Tail(s)] /\ task' = [task EXCEPT ![w] = r]
      /\ UNCHANGED <<responses, taken, fresh, refused, collected>>
  BY DEF Fetch, Fetching, callerVars, ghostVars
<1>3. 1 \in DOMAIN s /\ r = s[1] /\ r \in Requests
  BY <1>1
<1>4. /\ \A p \in Queues \ {q} : requests'[p] = requests[p]
      /\ requests'[q] = Tail(s) /\ task'[w] = r
      /\ \A v \in Workers \ {w} : task'[v] = task[v]
  BY <1>1, <1>2 DEF TypeInv, TypeOK
<1>5. /\ \A i \in DOMAIN Tail(s) : i \in Nat /\ i + 1 \in DOMAIN s /\ i + 1 # 1 /\ Tail(s)[i] = s[i + 1]
      /\ \A i \in DOMAIN s : i \in Nat /\ (i # 1 => i - 1 \in DOMAIN Tail(s) /\ Tail(s)[i - 1] = s[i])
  BY <1>1
<1> HIDE DEF s, q
<1>6. \A p \in Queues : \A i \in DOMAIN requests[p] : requests[p][i] = r => p = q /\ i = 1
  BY <1>1, <1>3, QueuedOnly DEF s
<1>7. ASSUME NEW x \in Requests, x # r, NEW i \in DOMAIN s, s[i] = x
      PROVE  \E p : \A y : IsAt(x, y)' <=> y = p
  <2>1. i # 1 /\ i - 1 \in DOMAIN Tail(s) /\ Tail(s)[i - 1] = x
    BY <1>3, <1>5, <1>7
  <2>2. \A p \in Queues : \A j \in DOMAIN requests[p] : requests[p][j] = x => p = q /\ j = i
    BY <1>1, <1>7, QueuedOnly DEF s
  <2>3. \A p \in Queues : \A j \in DOMAIN requests'[p] : requests'[p][j] = x <=> p = q /\ j = i - 1
    <3> TAKE p \in Queues
    <3> TAKE j \in DOMAIN requests'[p]
    <3>1. CASE p # q
      BY <1>4, <2>2, <3>1
    <3>2. CASE p = q
      <4>1. j \in Nat /\ j + 1 \in DOMAIN s /\ requests'[p][j] = s[j + 1]
        BY <1>4, <1>5, <3>2
      <4>2. s[j + 1] = x => j + 1 = i
        BY <1>1, <2>2, <4>1 DEF s
      <4>3. i \in Nat
        BY <1>5, <1>7
      <4>4. j + 1 = i <=> j = i - 1
        BY <4>1, <4>3
      <4> QED
        BY <1>7, <3>2, <4>1, <4>2, <4>4
    <3> QED
      BY <3>1, <3>2
  <2>4. /\ x \notin fresh /\ x \notin refused
        /\ \A v \in Workers : task[v] # x
        /\ \A p \in Queues : x \notin responses[p] /\ x \notin collected[p]
        /\ \A c \in Callers : x \notin taken[c]
    BY <1>1, <1>7, QueuedOnly DEF s
  <2>5. \A v \in Workers : task'[v] # x
    BY <1>4, <1>7, <2>4
  <2>6. q \in Queues /\ i - 1 \in DOMAIN requests'[q]
    BY <1>1, <1>4, <2>1
  <2>7. \A y : IsAt(x, y)' <=> y = <<"queued", q, i - 1>>
    BY <1>2, <2>3, <2>4, <2>5, <2>6 DEF IsAt
  <2> QED
    BY <2>7
<1>8. ASSUME NEW x \in Requests, x # r, \A i \in DOMAIN s : s[i] # x
      PROVE  \E p : \A y : IsAt(x, y)' <=> y = p
  <2>1. \A i \in DOMAIN Tail(s) : Tail(s)[i] # x
    BY <1>5, <1>8
  <2>2. \A p \in Queues : \A i : i \in DOMAIN requests'[p] /\ requests'[p][i] = x
                             <=> i \in DOMAIN requests[p] /\ requests[p][i] = x
    BY <1>4, <1>8, <2>1 DEF s
  <2>3. x # NoTask
    BY RequestsAssumption
  <2>4. \A v \in Workers : task'[v] = x <=> task[v] = x
    BY <1>1, <1>4, <1>8, <2>3
  <2> QED
    BY <1>2, <2>2, <2>4, SamePlace
<1>9. \A y : IsAt(r, y)' <=> y = <<"running", w>>
  <2>1. /\ r \notin fresh /\ r \notin refused
        /\ \A v \in Workers : task[v] # r
        /\ \A p \in Queues : r \notin responses[p] /\ r \notin collected[p]
        /\ \A c \in Callers : r \notin taken[c]
    BY <1>1, <1>3, QueuedOnly DEF s
  <2>2. ASSUME NEW p \in Queues, NEW j \in DOMAIN requests'[p], requests'[p][j] = r
        PROVE  FALSE
    <3>1. CASE p # q
      BY <1>4, <1>6, <2>2, <3>1
    <3>2. CASE p = q
      <4>1. j + 1 \in DOMAIN s /\ j + 1 # 1 /\ s[j + 1] = r
        BY <1>4, <1>5, <2>2, <3>2
      <4> QED
        BY <1>1, <1>6, <4>1 DEF s
    <3> QED
      BY <3>1, <3>2
  <2>3. \A v \in Workers : task'[v] = r <=> v = w
    BY <1>4, <2>1
  <2> QED
    BY <1>2, <2>1, <2>2, <2>3 DEF IsAt
<1> QED
  BY <1>7, <1>8, <1>9 DEF Placed

\* A step that moves none of the requests.
LEMMA PlacedUnchanged ==
    ASSUME Placed,
           UNCHANGED <<requests, responses, task, taken, fresh, refused, collected>>
    PROVE  Placed'
<1>1. \A r, p : IsAt(r, p)' <=> IsAt(r, p)
  BY DEF IsAt
<1> QED
  BY <1>1 DEF Placed

\* PushRequest throws, and the request goes nowhere.
LEMMA PlacedRefuse ==
    ASSUME TypeInv, Placed, NEW c \in Callers, NEW q \in Queues, NEW r \in Requests,
           PushRefused(c, q, r)
    PROVE  Placed'
<1>1. /\ r \in fresh /\ fresh' = fresh \ {r} /\ refused' = refused \cup {r}
      /\ UNCHANGED <<requests, responses, task, taken, collected>>
  BY DEF PushRefused, queueVars, workerVars, callerVars
<1>2. ASSUME NEW x \in Requests, x # r
      PROVE  \E p : \A y : IsAt(x, y)' <=> y = p
  BY <1>1, <1>2, SamePlace
<1>3. \A y : IsAt(r, y)' <=> y = <<"refused", 0>>
  BY <1>1, FreshOnly DEF IsAt
<1> QED
  BY <1>2, <1>3 DEF Placed

\* All the responses of a queue go to one caller.
LEMMA PlacedPop ==
    ASSUME TypeInv, Placed, NEW c \in Callers, NEW q \in Queues, PopResponses(c, q)
    PROVE  Placed'
<1>1. /\ taken' = [taken EXCEPT ![c] = responses[q]]
      /\ responses' = [responses EXCEPT ![q] = {}]
      /\ UNCHANGED <<requests, task, fresh, refused, collected>>
      /\ taken[c] = {}
  BY DEF PopResponses, Enter, workerVars, ghostVars, TypeInv, Locals
<1>2. /\ taken'[c] = responses[q] /\ responses'[q] = {}
      /\ \A d \in Callers \ {c} : taken'[d] = taken[d]
      /\ \A s \in Queues \ {q} : responses'[s] = responses[s]
  BY <1>1 DEF TypeInv, TypeOK
<1>3. ASSUME NEW x \in Requests, x \notin responses[q]
      PROVE  \E p : \A y : IsAt(x, y)' <=> y = p
  BY <1>1, <1>2, <1>3, SamePlace
<1>4. ASSUME NEW x \in responses[q]
      PROVE  \A y : IsAt(x, y)' <=> y = <<"taken", c>>
  <2>1. x \in Requests
    BY DEF TypeInv, TypeOK
  <2>2. /\ \A s \in Queues : x \notin responses'[s]
        /\ \A d \in Callers : x \in taken'[d] <=> d = c
    BY <1>2, <2>1, AnsweredOnly
  <2> QED
    BY <1>1, <2>1, <2>2, AnsweredOnly DEF IsAt
<1> QED
  BY <1>3, <1>4 DEF Placed

\* consume() has returned, and the responses are handed over.
LEMMA PlacedConsume ==
    ASSUME TypeInv, Placed, NEW c \in Callers, Consume(c)
    PROVE  Placed'
<1> DEFINE q == target[c]
<1>1. /\ collected' = [collected EXCEPT ![target[c]] = @ \cup taken[c]]
      /\ taken' = [taken EXCEPT ![c] = {}]
      /\ UNCHANGED <<requests, responses, task, fresh, refused>>
      /\ target[c] \in Queues
  BY DEF Consume, Leave, queueVars, workerVars, TypeInv, TypeOK, Locals
<1> PICK s \in Queues : s = target[c]
  BY <1>1
<1>2. /\ taken'[c] = {} /\ collected'[s] = collected[s] \cup taken[c]
      /\ \A d \in Callers \ {c} : taken'[d] = taken[d]
      /\ \A p \in Queues \ {s} : collected'[p] = collected[p]
  BY <1>1 DEF TypeInv, TypeOK
<1>3. ASSUME NEW x \in Requests, x \notin taken[c]
      PROVE  \E p : \A y : IsAt(x, y)' <=> y = p
  BY <1>1, <1>2, <1>3, SamePlace
<1>4. ASSUME NEW x \in taken[c]
      PROVE  \A y : IsAt(x, y)' <=> y = <<"collected", s>>
  <2>1. x \in Requests
    BY DEF TypeInv, TypeOK
  <2>2. /\ \A d \in Callers : x \notin taken'[d]
        /\ \A p \in Queues : x \in collected'[p] <=> p = s
    BY <1>2, <2>1, TakenOnly
  <2> QED
    BY <1>1, <2>1, <2>2, TakenOnly DEF IsAt
<1> QED
  BY <1>3, <1>4 DEF Placed

\* From the worker to the bag of responses.
LEMMA PlacedAnswer ==
    ASSUME TypeInv, Placed, NEW w \in Workers, Answer(w)
    PROVE  Placed'
<1>1. /\ responses' = [responses EXCEPT ![Home[w]] = @ \cup {task[w]}]
      /\ task' = [task EXCEPT ![w] = NoTask]
      /\ UNCHANGED <<requests, taken, fresh, refused, collected>>
      /\ Home[w] \in Queues /\ task[w] \in Requests
  BY WorkersAssumption DEF Answer, callerVars, ghostVars, TypeInv, TypeOK, Locals
<1> PICK r \in Requests : r = task[w]
  BY <1>1
<1>2. /\ responses'[Home[w]] = responses[Home[w]] \cup {r} /\ task'[w] = NoTask
      /\ \A v \in Workers \ {w} : task'[v] = task[v]
      /\ \A p \in Queues \ {Home[w]} : responses'[p] = responses[p]
  BY <1>1 DEF TypeInv, TypeOK
<1>3. ASSUME NEW x \in Requests, x # r
      PROVE  \E p : \A y : IsAt(x, y)' <=> y = p
  <2>1. x # NoTask
    BY RequestsAssumption
  <2> QED
    BY <1>1, <1>2, <1>3, <2>1, SamePlace
<1>4. \A y : IsAt(r, y)' <=> y = <<"answered", Home[w]>>
  <2>1. r # NoTask
    BY RequestsAssumption
  <2>2. /\ \A v \in Workers : task'[v] # r
        /\ \A p \in Queues : r \in responses'[p] <=> p = Home[w]
    BY <1>1, <1>2, <2>1, RunningOnly
  <2> QED
    BY <1>1, <2>2, RunningOnly DEF IsAt
<1> QED
  BY <1>3, <1>4 DEF Placed

\* Every step takes a request from one place to another, or leaves it.
LEMMA PlacedStep ==
    ASSUME TypeInv, Placed, [Next]_vars
    PROVE  Placed'
<1>1. ASSUME NEW c \in Callers, CallerCall(c)
      PROVE  Placed'
  <2>1. CASE Wait(c) \/ \E q \in Queues : Stop(c, q)
    BY <2>1, PlacedUnchanged DEF Wait, Stop, queueVars, workerVars, ghostVars
  <2> QED
    BY <1>1, <2>1, PlacedPush, PlacedRefuse, PlacedPop DEF CallerCall
<1>2. ASSUME NEW c \in Callers, CallerStep(c)
      PROVE  Placed'
  <2>1. CASE ~Consume(c)
    BY <1>2, <2>1, PlacedUnchanged DEF CallerStep, Signal, Sleep, WaitReturn, NotifyAll, Join,
                                       queueVars, workerVars, callerVars, ghostVars
  <2> QED
    BY <1>2, <2>1, PlacedConsume
<1>3. ASSUME NEW w \in Workers, WorkerStep(w)
      PROVE  Placed'
  <2>1. CASE WaitForRequest(w) \/ Quit(w) \/ Notify(w) \/ Wake(w)
    BY <2>1, PlacedUnchanged DEF WaitForRequest, Quit, Fetching, Notify, Wake,
                                 queueVars, callerVars, ghostVars
  <2> QED
    BY <1>3, <2>1, PlacedFetch, PlacedAnswer DEF WorkerStep, WorkerFetch
<1>4. CASE SpuriousWake \/ UNCHANGED vars
  BY <1>4, PlacedUnchanged DEF SpuriousWake, vars, queueVars, workerVars, callerVars, ghostVars
<1> QED
  BY <1>1, <1>2, <1>3, <1>4 DEF Next, Finished

\* Every request is in one place, always.
LEMMA PlacedInvariance == Spec => []Placed
<1>1. Init => Placed
  <2> SUFFICES ASSUME Init, NEW r \in Requests
               PROVE  \A x : IsAt(r, x) <=> x = <<"fresh", 0>>
    BY DEF Placed
  <2> QED
    BY RequestsAssumption DEF Init, IsAt
<1> QED
  BY <1>1, TypeInvariance, PlacedStep, PTL DEF Spec

\* However callers, workers and destructors interleave, a request is in one
\* place: it is never lost, run twice or answered twice.
THEOREM NeverLost == Spec => []InOnePlace
<1>1. Placed => InOnePlace
  <2> SUFFICES ASSUME Placed, NEW r \in Requests
               PROVE  Cardinality(Places(r)) = 1
    BY DEF InOnePlace
  <2>1. PICK p : \A x : IsAt(r, x) <=> x = p
    BY DEF Placed
  <2>2. Places(r) = {p}
    BY <2>1, PlacesAre
  <2> QED
    BY <2>2, FS_Singleton
<1> QED
  BY <1>1, PlacedInvariance, PTL

-----------------------------------------------------------------------------
(* The counter of the Synchronizer.  WorkAccounting alone is not           *)
(* inductive: a worker adds a unit for a response that was not in the bags *)
(* before, and consume() subtracts as many units as responses leave them,  *)
(* only if no request is in two places at once.                            *)

Queued(q) == {requests[q][i] : i \in DOMAIN requests[q]}

\* A request is in at most one queue, worker, bag or caller.
Apart ==
    /\ \A q \in Queues : \A i, j \in DOMAIN requests[q] :
          requests[q][i] = requests[q][j] => i = j
    /\ \A p, q \in Queues : \A r \in Requests :
          /\ r \in Queued(p) /\ r \in Queued(q) => p = q
          /\ r \in responses[p] /\ r \in responses[q] => p = q
          /\ ~(r \in Queued(p) /\ r \in responses[q])
    /\ \A v, w \in Workers : task[v] = task[w] /\ task[v] # NoTask => v = w
    /\ \A c, d \in Callers : \A r \in taken[c] : r \in taken[d] => c = d
    /\ \A w \in Workers, q \in Queues : task[w] \notin Queued(q) /\ task[w] \notin responses[q]
    /\ \A c \in Callers, q \in Queues : \A r \in taken[c] :
          r \notin Queued(q) /\ r \notin responses[q]
    /\ \A c \in Callers, w \in Workers : task[w] \notin taken[c]
    /\ \A r \in fresh :
          /\ \A q \in Queues : r \notin Queued(q) /\ r \notin responses[q]
          /\ \A w \in Workers : task[w] # r
          /\ \A c \in Callers : r \notin taken[c]

\* Two places of one request would be one.
LEMMA PlacedApart ==
    ASSUME TypeInv, Placed
    PROVE  Apart
<1> USE DEF TypeInv, TypeOK
<1>1. ASSUME NEW q \in Queues, NEW i \in DOMAIN requests[q]
      PROVE  /\ requests[q][i] \in Requests
             /\ \A j \in DOMAIN requests[q] : requests[q][i] = requests[q][j] => i = j
             /\ \A p \in Queues : requests[q][i] \in Queued(p) => p = q
             /\ \A p \in Queues : requests[q][i] \notin responses[p]
             /\ \A w \in Workers : task[w] # requests[q][i]
             /\ \A c \in Callers : requests[q][i] \notin taken[c]
             /\ requests[q][i] \notin fresh
  <2>1. requests[q] \in Seq(Requests) /\ requests[q][i] \in Requests
    OBVIOUS
  <2> HIDE DEF TypeInv, TypeOK
  <2> QED
    BY <2>1, QueuedOnly DEF Queued
<1>2. ASSUME NEW w \in Workers, task[w] # NoTask
      PROVE  /\ \A v \in Workers : task[v] = task[w] => v = w
             /\ \A q \in Queues : task[w] \notin responses[q]
             /\ \A c \in Callers : task[w] \notin taken[c]
             /\ task[w] \notin fresh
  <2>1. task[w] \in Requests
    BY <1>2
  <2> HIDE DEF TypeInv, TypeOK
  <2> QED
    BY <2>1, RunningOnly
<1>3. \A q \in Queues : \A r \in responses[q] :
         r \in Requests /\ r \notin fresh /\ (\A p \in Queues : r \in responses[p] => p = q)
         /\ \A c \in Callers : r \notin taken[c]
  BY AnsweredOnly
<1>4. \A c \in Callers : \A r \in taken[c] :
         r \in Requests /\ r \notin fresh /\ \A d \in Callers : r \in taken[d] => d = c
  BY TakenOnly
<1>5. NoTask \notin Requests
  BY RequestsAssumption
<1>6. \A q \in Queues : \A r \in Queued(q) : \E i \in DOMAIN requests[q] : r = requests[q][i]
  BY DEF Queued
<1>7. \A p, q \in Queues : \A r \in Requests :
         /\ r \in Queued(p) /\ r \in Queued(q) => p = q
         /\ ~(r \in Queued(p) /\ r \in responses[q])
  BY <1>1, <1>6
<1>8. \A w \in Workers, q \in Queues : task[w] \notin Queued(q) /\ task[w] \notin responses[q]
  BY <1>1, <1>2, <1>3, <1>5, <1>6
<1>9. \A c \in Callers, q \in Queues : \A r \in taken[c] : r \notin Queued(q) /\ r \notin responses[q]
  BY <1>1, <1>3, <1>6
<1>10. \A c \in Callers, w \in Workers : task[w] \notin taken[c]
  BY <1>2, <1>4, <1>5
<1>11. \A r \in fresh : /\ \A q \in Queues : r \notin Queued(q) /\ r \notin responses[q]
                        /\ \A w \in Workers : task[w] # r
                        /\ \A c \in Callers : r \notin taken[c]
  BY <1>1, <1>2, <1>3, <1>4, <1>5, <1>6
<1> HIDE DEF TypeInv, TypeOK
<1> QED
  BY <1>1, <1>2, <1>3, <1>4, <1>7, <1>8, <1>9, <1>10, <1>11 DEF Apart

\* So no request is in two places in a reachable state.
LEMMA ApartInvariance == Spec => []Apart
BY PlacedApart, TypeInvariance, PlacedInvariance, PTL

\* What WorkAccounting counts is finite.
LEMMA UnconsumedFinite ==
    ASSUME TypeInv
    PROVE  IsFiniteSet(Unconsumed) /\ Cardinality(Unconsumed) \in Nat
<1>1. Unconsumed \in SUBSET Requests
  BY DEF Unconsumed, TypeInv, TypeOK
<1> QED
  BY <1>1, RequestsAssumption, FS_Subset, FS_CardinalityType

\* What WorkAccounting counts is finite.
LEMMA NotifyingFinite == IsFiniteSet(Notifying) /\ Cardinality(Notifying) \in Nat
<1>1. Notifying \in SUBSET Workers
  BY DEF Notifying
<1> QED
  BY <1>1, WorkersAssumption, FS_Subset, FS_CardinalityType

\* A response is one more, and so is the worker that has to count it.
LEMMA AccountAnswer ==
    ASSUME TypeInv, Apart, WorkAccounting, NEW w \in Workers, Answer(w)
    PROVE  WorkAccounting'
<1>1. Unconsumed' = Unconsumed \cup {task[w]}
  <2>1. task[w] \in Requests /\ Home[w] \in Queues
    BY WorkersAssumption DEF Answer, TypeInv, TypeOK, Locals
  <2>2. responses' = [responses EXCEPT ![Home[w]] = @ \cup {task[w]}] /\ taken' = taken
    BY DEF Answer, callerVars
  <2>3. \A r \in Requests : (\E q \in Queues : r \in responses'[q])
                            <=> r = task[w] \/ \E q \in Queues : r \in responses[q]
    BY <2>1, <2>2 DEF TypeInv, TypeOK
  <2> QED
    BY <2>1, <2>2, <2>3 DEF Unconsumed
<1>2. task[w] \notin Unconsumed
  BY DEF Apart, Unconsumed
<1>3. Notifying' = Notifying \cup {w} /\ w \notin Notifying
  BY DEF Answer, Notifying, TypeInv, TypeOK
<1>4. Cardinality(Unconsumed') = Cardinality(Unconsumed) + 1
  BY <1>1, <1>2, UnconsumedFinite, FS_AddElement
<1>5. Cardinality(Notifying') = Cardinality(Notifying) + 1
  BY <1>3, NotifyingFinite, FS_AddElement
<1>6. work' = work /\ work \in Int
  BY DEF Answer, syncVars, TypeInv, TypeOK
<1> QED
  BY <1>4, <1>5, <1>6, UnconsumedFinite, NotifyingFinite DEF WorkAccounting

\* The worker has counted its response.
LEMMA AccountNotify ==
    ASSUME TypeInv, WorkAccounting, NEW w \in Workers, Notify(w)
    PROVE  WorkAccounting'
<1>1. Unconsumed' = Unconsumed
  BY DEF Notify, Unconsumed, queueVars, callerVars
<1>2. Notifying' = Notifying \ {w} /\ w \in Notifying
  BY DEF Notify, Notifying, TypeInv, TypeOK
<1>3. Cardinality(Notifying') = Cardinality(Notifying) - 1
  BY <1>2, NotifyingFinite, FS_RemoveElement
<1>4. work' = work + 1 /\ work \in Int
  BY DEF Notify, AddWork, TypeInv, TypeOK
<1> QED
  BY <1>1, <1>3, <1>4, UnconsumedFinite, NotifyingFinite DEF WorkAccounting

\* consume() subtracts what is handed over.
LEMMA AccountConsume ==
    ASSUME TypeInv, Apart, WorkAccounting, NEW c \in Callers, Consume(c)
    PROVE  WorkAccounting'
<1>1. Unconsumed' = Unconsumed \ taken[c]
  BY DEF Consume, Unconsumed, queueVars, Apart, TypeInv, TypeOK
<1>2. taken[c] = Unconsumed \cap taken[c]
  BY DEF Unconsumed, TypeInv, TypeOK
<1>3. Cardinality(Unconsumed') = Cardinality(Unconsumed) - Cardinality(taken[c])
  <2>1. IsFiniteSet(Unconsumed)
    BY UnconsumedFinite
  <2>2. Cardinality(Unconsumed \ taken[c])
          = Cardinality(Unconsumed) - Cardinality(Unconsumed \cap taken[c])
    BY <2>1, FS_Difference
  <2> QED
    BY <1>1, <1>2, <2>2
<1>4. Cardinality(taken[c]) \in Nat
  <2>1. taken[c] \in SUBSET Requests
    BY DEF TypeInv, TypeOK
  <2> QED
    BY <2>1, RequestsAssumption, FS_Subset, FS_CardinalityType
<1>5. Notifying' = Notifying
  BY DEF Consume, Notifying, workerVars
<1>6. work' = work - Cardinality(taken[c]) /\ work \in Int
  BY DEF Consume, ConsumeWork, TypeInv, TypeOK
<1> QED
  BY <1>3, <1>4, <1>5, <1>6, UnconsumedFinite, NotifyingFinite DEF WorkAccounting

\* A step that moves responses from a bag to a caller, or none at all, and
\* neither starts nor ends a notification.
LEMMA AccountUnchanged ==
    ASSUME WorkAccounting, work' = work, Unconsumed' = Unconsumed, Notifying' = Notifying
    PROVE  WorkAccounting'
BY DEF WorkAccounting

\* PopResponses moves responses and leaves the counter to consume().
LEMMA AccountCall ==
    ASSUME TypeInv, WorkAccounting, NEW c \in Callers, CallerCall(c)
    PROVE  WorkAccounting'
<1>1. work' = work /\ Notifying' = Notifying
  BY DEF CallerCall, PushRequest, PushRefused, PopResponses, Stop, Wait, Notifying,
         syncVars, workerVars
<1>2. Unconsumed' = Unconsumed
  <2>1. ASSUME NEW q \in Queues, PopResponses(c, q)
        PROVE  Unconsumed' = Unconsumed
    <3>1. taken[c] = {}
      BY <2>1 DEF PopResponses, Enter, TypeInv, Locals
    <3>2. taken' = [taken EXCEPT ![c] = responses[q]]
          /\ responses' = [responses EXCEPT ![q] = {}]
      BY <2>1 DEF PopResponses
    <3> QED
      BY <3>1, <3>2 DEF Unconsumed, TypeInv, TypeOK
  <2>2. ASSUME UNCHANGED <<responses, taken>>
        PROVE  Unconsumed' = Unconsumed
    BY <2>2 DEF Unconsumed
  <2> QED
    BY <2>1, <2>2 DEF CallerCall, PushRequest, PushRefused, Stop, Wait, queueVars, callerVars
<1> QED
  BY <1>1, <1>2, AccountUnchanged

\* For any number of queues, workers, requests and callers, the counter on
\* which every dispatcher waits equals the number of responses to consume,
\* short of those whose notify() has not run: it never drifts.
THEOREM WorkAccounted == Spec => []WorkAccounting
<1>1. Init => WorkAccounting
  <2> SUFFICES ASSUME Init PROVE WorkAccounting
    OBVIOUS
  <2>1. Unconsumed = {} /\ Notifying = {} /\ work = 0
    BY DEF Init, SyncInit, Unconsumed, Notifying
  <2> QED
    BY <2>1, FS_EmptySet DEF WorkAccounting
<1>2. TypeInv /\ Apart /\ WorkAccounting /\ [Next]_vars => WorkAccounting'
  <2> SUFFICES ASSUME TypeInv, Apart, WorkAccounting, [Next]_vars
               PROVE  WorkAccounting'
    OBVIOUS
  <2>1. ASSUME NEW c \in Callers, CallerStep(c), ~Consume(c)
        PROVE  WorkAccounting'
    <3>1. work' = work /\ UNCHANGED <<responses, taken>>
      BY <2>1 DEF CallerStep, Signal, Sleep, WaitReturn, NotifyAll, Join, Block, Pass,
                  syncVars, queueVars, callerVars
    <3>2. Notifying' = Notifying
      BY <2>1 DEF CallerStep, Signal, Sleep, WaitReturn, NotifyAll, Join, Notifying, Dormant,
                  WorkersOf, workerVars, TypeInv, TypeOK
    <3> QED
      BY <3>1, <3>2, AccountUnchanged DEF Unconsumed
  <2>2. ASSUME NEW w \in Workers, WorkerStep(w), ~Answer(w), ~Notify(w)
        PROVE  WorkAccounting'
    <3>1. work' = work /\ UNCHANGED <<responses, taken>>
      BY <2>2 DEF WorkerStep, WorkerFetch, Fetch, WaitForRequest, Quit, Fetching, Wake, WakeOne,
                  syncVars, queueVars, callerVars
    <3>2. Notifying' = Notifying
      BY <2>2 DEF WorkerStep, WorkerFetch, Fetch, WaitForRequest, Quit, Fetching, Wake, Notifying,
                  TypeInv, TypeOK
    <3> QED
      BY <3>1, <3>2, AccountUnchanged DEF Unconsumed
  <2>3. CASE SpuriousWake \/ UNCHANGED vars
    <3>1. work' = work /\ UNCHANGED <<responses, taken>>
      BY <2>3 DEF SpuriousWake, vars, syncVars, queueVars, callerVars
    <3>2. Notifying' = Notifying
      BY <2>3 DEF SpuriousWake, vars, workerVars, Notifying, TypeInv, TypeOK
    <3> QED
      BY <3>1, <3>2, AccountUnchanged DEF Unconsumed
  <2> QED
    BY <2>1, <2>2, <2>3, AccountAnswer, AccountNotify, AccountConsume, AccountCall
       DEF Next, Finished, CallerStep, WorkerStep
<1> QED
  BY <1>1, <1>2, TypeInvariance, ApartInvariance, PTL DEF Spec

\* A wait() that may return finds a response in a queue, or one that another
\* caller is taking: a dispatcher never runs PopResponses on empty queues for
\* ever, unless a queue was destroyed with responses in it.
THEOREM WaitFindsResponses == Spec => []WaitFindsResponse
<1>1. TypeInv /\ WorkAccounting => WaitFindsResponse
  <2> SUFFICES ASSUME TypeInv, WorkAccounting, HasWork, \A q \in gone : responses[q] = {}
               PROVE  \/ \E q \in Queues \ gone : responses[q] # {}
                      \/ \E c \in Callers : taken[c] # {}
    BY DEF WaitFindsResponse
  <2>1. Cardinality(Unconsumed) > 0
    BY UnconsumedFinite, NotifyingFinite DEF WorkAccounting, HasWork, TypeInv, TypeOK
  <2>2. Unconsumed # {}
    BY <2>1, FS_EmptySet
  <2> QED
    BY <2>2 DEF Unconsumed
<1> QED
  BY <1>1, TypeInvariance, WorkAccounted, PTL

-----------------------------------------------------------------------------
(* A caller in wait().                                                     *)

SleeperInv == SleeperHasWaker /\ \A c \in asleep : cpc[c] = "waiting"

\* A notification is on its way as long as the caller sleeps on work.
LEMMA SleeperStep ==
    ASSUME \A c, d \in Callers : c = d, TypeInv, SleeperInv, [Next]_vars
    PROVE  SleeperInv'
<1> USE DEF TypeInv, TypeOK, SleeperInv, SleeperHasWaker, HasWork,
            syncVars, queueVars, workerVars, callerVars, ghostVars
<1>1. ASSUME NEW c \in Callers, CallerCall(c)
      PROVE  SleeperInv'
  BY <1>1 DEF CallerCall, PushRequest, PushRefused, PopResponses, Stop, Wait, Enter
<1>2. ASSUME NEW c \in Callers, CallerStep(c)
      PROVE  SleeperInv'
  <2>1. CASE Signal(c) \/ NotifyAll(c) \/ Join(c) \/ Consume(c)
    <3>1. asleep = {} /\ asleep' = {}
      BY <2>1 DEF Signal, NotifyAll, Join, Consume, Leave, ConsumeWork
    <3> QED
      BY <3>1
  <2>2. CASE Sleep(c)
    BY <2>2 DEF Sleep, Block
  <2>3. CASE WaitReturn(c)
    BY <2>3 DEF WaitReturn, Pass
  <2> QED
    BY <1>2, <2>1, <2>2, <2>3 DEF CallerStep
<1>3. ASSUME NEW w \in Workers, WorkerStep(w)
      PROVE  SleeperInv'
  <2>1. CASE WorkerFetch(w) \/ Answer(w)
    BY <2>1 DEF WorkerFetch, Fetch, WaitForRequest, Quit, Fetching, Answer
  <2>2. CASE Notify(w)
    BY <2>2 DEF Notify, AddWork
  <2>3. CASE Wake(w)
    <3>1. asleep' = {} /\ UNCHANGED cpc
      BY <2>3 DEF Wake, WakeOne
    <3> QED
      BY <3>1
  <2> QED
    BY <1>3, <2>1, <2>2, <2>3 DEF WorkerStep
<1>4. CASE SpuriousWake \/ UNCHANGED vars
  BY <1>4 DEF SpuriousWake, vars
<1> QED
  BY <1>1, <1>2, <1>3, <1>4 DEF Next, Finished

\* A single caller never sleeps on a positive counter unless a worker is about
\* to wake it: wait() evaluates its predicate and blocks in one step, and no
\* notification falls between.
THEOREM WakerIsComing ==
    ASSUME \A c, d \in Callers : c = d
    PROVE  Spec => []SleeperHasWaker
<1>1. Init => SleeperInv
  BY DEF Init, SyncInit, SleeperInv, SleeperHasWaker
<1>2. SleeperInv => SleeperHasWaker
  BY DEF SleeperInv
<1>3. TypeInv /\ SleeperInv /\ [Next]_vars => SleeperInv'
  BY SleeperStep
<1> QED
  BY <1>1, <1>2, <1>3, TypeInvariance, PTL DEF Spec

-----------------------------------------------------------------------------
(* A queue is a TaskPool.  The destructor is the only operation of the     *)
(* pool that two threads could disturb: it belongs to one of them.         *)

InDestructor(c) == cpc[c] \in {"notifyAll", "join"}

OwnerInv ==
    /\ \A c \in Callers : InDestructor(c) => stop[target[c]] /\ target[c] \notin gone
    /\ \A c, d \in Callers : InDestructor(c) /\ InDestructor(d) /\ c # d => target[c] # target[d]
    /\ \A q \in gone : stop[q]

\* Whoever changes no flag and enters no destructor.
LEMMA OwnerUnchanged ==
    ASSUME OwnerInv, UNCHANGED <<stop, gone>>,
           \A c \in Callers : InDestructor(c)' => InDestructor(c) /\ target'[c] = target[c]
    PROVE  OwnerInv'
BY DEF OwnerInv

\* A destructor is entered once and left once.
LEMMA OwnerStep ==
    ASSUME TypeInv, OwnerInv, [Next]_vars
    PROVE  OwnerInv'
<1>1. ASSUME NEW c \in Callers, CallerCall(c)
      PROVE  OwnerInv'
  <2>1. ASSUME NEW q \in Queues, Stop(c, q)
        PROVE  OwnerInv'
    <3>1. /\ stop' = [stop EXCEPT ![q] = TRUE] /\ UNCHANGED gone /\ ~stop[q] /\ q \notin gone
          /\ cpc' = [cpc EXCEPT ![c] = "notifyAll"] /\ target' = [target EXCEPT ![c] = q]
      BY <2>1 DEF Stop, Enter
    <3>2. \A d \in Callers \ {c} : InDestructor(d)' <=> InDestructor(d)
      BY <3>1 DEF InDestructor, TypeInv, TypeOK
    <3>3. \A d \in Callers : InDestructor(d) => target[d] # q
      BY <3>1 DEF OwnerInv
    <3> QED
      BY <3>1, <3>2, <3>3 DEF OwnerInv, TypeInv, TypeOK, Locals, InDestructor
  <2>2. CASE ~ \E q \in Queues : Stop(c, q)
    BY <1>1, <2>2, OwnerUnchanged
       DEF CallerCall, PushRequest, PushRefused, PopResponses, Wait, Enter, InDestructor,
           queueVars, callerVars, TypeInv, TypeOK
  <2> QED
    BY <2>1, <2>2
<1>2. ASSUME NEW c \in Callers, CallerStep(c)
      PROVE  OwnerInv'
  <2>1. CASE Join(c)
    <3>1. /\ gone' = gone \cup {target[c]} /\ UNCHANGED stop /\ InDestructor(c) /\ ~InDestructor(c)'
          /\ \A d \in Callers \ {c} : /\ InDestructor(d)' <=> InDestructor(d)
                                      /\ target'[d] = target[d]
      BY <2>1 DEF Join, Leave, InDestructor, TypeInv, TypeOK
    <3> QED
      BY <3>1 DEF OwnerInv
  <2>2. CASE ~Join(c)
    BY <1>2, <2>2, OwnerUnchanged
       DEF CallerStep, Signal, Consume, Sleep, WaitReturn, NotifyAll, Leave, InDestructor,
           queueVars, callerVars, TypeInv, TypeOK
  <2> QED
    BY <2>1, <2>2
<1>3. ASSUME NEW w \in Workers, WorkerStep(w)
      PROVE  OwnerInv'
  BY <1>3, OwnerUnchanged
     DEF WorkerStep, WorkerFetch, Fetch, WaitForRequest, Quit, Fetching, Answer, Notify, Wake,
         queueVars, callerVars, InDestructor
<1>4. CASE SpuriousWake \/ UNCHANGED vars
  BY <1>4, OwnerUnchanged DEF SpuriousWake, vars, queueVars, callerVars, InDestructor
<1> QED
  BY <1>1, <1>2, <1>3, <1>4 DEF Next, Finished

\* The abstraction that the runs check for their first queue.
Pool(q) == INSTANCE TaskPool WITH
    Tasks <- Requests,
    PoolSize <- PoolSizeOf(q),
    queued <- requests[q],
    running <- PoolRunning(q),
    answered <- responses[q],
    collected <- PoolCollected(q),
    state <- PoolState(q)

\* A new queue is an empty pool.
LEMMA PoolAtStart ==
    ASSUME Init, NEW q \in Queues
    PROVE  Pool(q)!PoolInit
<1>1. requests[q] = << >> /\ responses[q] = {}
  BY DEF Init
<1>2. PoolRunning(q) = {}
  BY WorkersAssumption DEF Init, PoolRunning, WorkersOf
<1>3. PoolCollected(q) = {} /\ PoolState(q) = "open"
  BY DEF Init, PoolCollected, PoolState
<1> QED
  BY <1>1, <1>2, <1>3 DEF Pool!PoolInit

\* What the pool does not see.
LEMMA PoolStutter ==
    ASSUME NEW q \in Queues, requests'[q] = requests[q], responses'[q] = responses[q],
           stop'[q] = stop[q], q \in gone' <=> q \in gone,
           PoolRunning(q)' = PoolRunning(q), PoolCollected(q)' = PoolCollected(q)
    PROVE  UNCHANGED Pool(q)!poolVars
BY DEF Pool!poolVars, PoolState

\* Responses that a step leaves where they are, with a caller or in collected.
LEMMA CollectedSame ==
    ASSUME TypeInv, NEW q \in Queues, collected'[q] = collected[q],
           \A c \in Callers : taken'[c] = taken[c]
                              /\ (taken[c] # {} => target'[c] = target[c])
    PROVE  PoolCollected(q)' = PoolCollected(q)
<1>1. \A r : r \in PoolCollected(q)' <=> r \in collected[q]
                 \/ \E c \in Callers : target'[c] = q /\ r \in taken[c]
  BY DEF PoolCollected
<1>2. \A r : r \in PoolCollected(q) <=> r \in collected[q]
                 \/ \E c \in Callers : target[c] = q /\ r \in taken[c]
  BY DEF PoolCollected
<1>3. \A r : r \in PoolCollected(q)' <=> r \in PoolCollected(q)
  BY <1>1, <1>2
<1> QED
  BY <1>3

\* What the refinement uses of the states it starts from.
PoolInvs == TypeInv /\ Placed /\ DrainInv /\ OwnerInv

\* PushRequest submits.
LEMMA PoolPush ==
    ASSUME PoolInvs, NEW q \in Queues, NEW c \in Callers, NEW r \in Requests, PushRequest(c, q, r)
    PROVE  Pool(q)!Submit(r)
<1> USE DEF PoolInvs
<1>1. /\ requests'[q] = Append(requests[q], r) /\ r \in fresh /\ ~stop[q] /\ q \notin gone
      /\ UNCHANGED <<responses, task, stop, gone, collected, taken>>
      /\ \A d \in Callers : taken[d] # {} => target'[d] = target[d]
  BY DEF PushRequest, Enter, workerVars, TypeInv, TypeOK, Locals
<1>2. PoolState(q) = "open" /\ PoolState(q)' = "open"
  BY <1>1 DEF PoolState
<1>3. PoolRunning(q)' = PoolRunning(q)
  BY <1>1 DEF PoolRunning
<1>4. PoolCollected(q)' = PoolCollected(q)
  BY <1>1, CollectedSame
<1>5. /\ r \notin PoolRunning(q) /\ r \notin responses[q] /\ r \notin PoolCollected(q)
      /\ r \notin {requests[q][i] : i \in DOMAIN requests[q]}
  BY <1>1, FreshOnly DEF PoolRunning, PoolCollected, WorkersOf
<1>6. r \in Pool(q)!Unseen
  BY <1>5 DEF Pool!Unseen
<1> QED
  BY <1>1, <1>2, <1>3, <1>4, <1>6 DEF Pool!Submit

\* PopResponses collects, if there is something.
LEMMA PoolCollect ==
    ASSUME PoolInvs, NEW q \in Queues, NEW c \in Callers, PopResponses(c, q)
    PROVE  Pool(q)!Collect \/ UNCHANGED Pool(q)!poolVars
<1> USE DEF PoolInvs
<1>1. /\ responses' = [responses EXCEPT ![q] = {}] /\ responses'[q] = {} /\ ~stop[q] /\ q \notin gone
      /\ taken' = [taken EXCEPT ![c] = responses[q]] /\ target' = [target EXCEPT ![c] = q]
      /\ UNCHANGED <<requests, task, stop, gone, collected>> /\ taken[c] = {}
  BY DEF PopResponses, Enter, workerVars, ghostVars, TypeInv, TypeOK, Locals
<1>2. PoolState(q) = "open" /\ PoolState(q)' = "open"
  BY <1>1 DEF PoolState
<1>3. PoolRunning(q)' = PoolRunning(q)
  BY <1>1 DEF PoolRunning
<1>4. PoolCollected(q)' = PoolCollected(q) \cup responses[q]
  <2>1. \A r : r \in PoolCollected(q)' <=> r \in collected[q]
                   \/ \E d \in Callers : target'[d] = q /\ r \in taken'[d]
    BY <1>1 DEF PoolCollected
  <2>2. \A r : r \in PoolCollected(q) <=> r \in collected[q]
                   \/ \E d \in Callers : target[d] = q /\ r \in taken[d]
    BY DEF PoolCollected
  <2>3. /\ taken'[c] = responses[q] /\ target'[c] = q
        /\ \A d \in Callers \ {c} : taken'[d] = taken[d] /\ target'[d] = target[d]
    BY <1>1 DEF TypeInv, TypeOK
  <2>4. \A r : r \in PoolCollected(q)' <=> r \in PoolCollected(q) \/ r \in responses[q]
    BY <1>1, <2>1, <2>2, <2>3
  <2> QED
    BY <2>4
<1>5. CASE responses[q] = {}
  <2>1. PoolCollected(q)' = PoolCollected(q)
    BY <1>4, <1>5
  <2> QED
    BY <1>1, <1>3, <1>5, <2>1, PoolStutter
<1>6. CASE responses[q] # {}
  BY <1>1, <1>2, <1>3, <1>4, <1>6 DEF Pool!Collect
<1> QED
  BY <1>5, <1>6

\* A worker that fetches begins a task; the other workers have at most one each.
LEMMA PoolBegin ==
    ASSUME PoolInvs, NEW w \in Workers, Fetch(w)
    PROVE  Pool(Home[w])!Begin
<1> USE DEF PoolInvs
<1> DEFINE q == Home[w]
           W == WorkersOf(q)
<1>1. q \in Queues /\ requests[q] # << >> /\ requests'[q] = Tail(requests[q]) /\ task[w] = NoTask
      /\ UNCHANGED <<responses, stop, gone, collected, taken, target>>
      /\ task' = [task EXCEPT ![w] = Head(requests[q])]
  BY WorkersAssumption DEF Fetch, Fetching, callerVars, ghostVars, TypeInv, TypeOK, Locals
<1>2. Head(requests[q]) \in Requests /\ Head(requests[q]) # NoTask
  BY <1>1, RequestsAssumption DEF TypeInv, TypeOK
<1>3. w \in W /\ W \in SUBSET Workers /\ IsFiniteSet(W)
  <2>1. w \in W /\ W \in SUBSET Workers
    BY DEF WorkersOf
  <2> QED
    BY <2>1, WorkersAssumption, FS_Subset
<1>4. PoolRunning(q)' = PoolRunning(q) \cup {Head(requests[q])}
  <2>1. \A v \in W \ {w} : task'[v] = task[v]
    BY <1>1, <1>3 DEF TypeInv, TypeOK
  <2>2. task'[w] = Head(requests[q])
    BY <1>1 DEF TypeInv, TypeOK
  <2> HIDE DEF q, W
  <2>3. PoolRunning(q)' = {task'[v] : v \in W} \ {NoTask} /\ PoolRunning(q) = {task[v] : v \in W} \ {NoTask}
    BY DEF PoolRunning, W
  <2> QED
    BY <1>1, <1>2, <1>3, <2>1, <2>2, <2>3
<1>5. Cardinality(PoolRunning(q)) < PoolSizeOf(q)
  <2> DEFINE V == W \ {w}
             R == {task[v] : v \in V}
  <2>1. IsFiniteSet(V) /\ Cardinality(V) = Cardinality(W) - 1 /\ Cardinality(W) \in Nat
    BY <1>3, FS_RemoveElement, FS_CardinalityType
  <2>2. IsFiniteSet(R) /\ Cardinality(R) <= Cardinality(V)
    <3> DEFINE g == [r \in R |-> CHOOSE v \in V : task[v] = r]
    <3>1. \A r \in R : g[r] \in V /\ task[g[r]] = r
      OBVIOUS
    <3>2. g \in [R -> V] /\ \A r, x \in R : g[r] = g[x] => r = x
      BY <3>1, Zenon
    <3> HIDE DEF g, R, V
    <3>3. g \in Injection(R, V)
      BY <3>2, Zenon DEF Injection, IsInjective
    <3> QED
      BY <2>1, <3>3, FS_Injection DEF ExistsInjection
  <2>3. PoolRunning(q) \subseteq R
    BY <1>1 DEF PoolRunning
  <2> HIDE DEF R, V, W, q
  <2>4. Cardinality(PoolRunning(q)) <= Cardinality(R) /\ Cardinality(PoolRunning(q)) \in Nat
        /\ Cardinality(R) \in Nat
    BY <2>2, <2>3, FS_Subset, FS_CardinalityType
  <2>5. PoolSizeOf(q) = Cardinality(W)
    BY DEF PoolSizeOf, W
  <2>6. Cardinality(V) \in Nat
    BY <2>1, FS_CardinalityType
  <2> QED
    BY <2>1, <2>2, <2>4, <2>5, <2>6
<1>6. PoolCollected(q)' = PoolCollected(q) /\ PoolState(q)' = PoolState(q)
  BY <1>1 DEF PoolCollected, PoolState
<1>7. responses'[q] = responses[q]
  BY <1>1
<1>8. Pool(q)!Cardinality(PoolRunning(q)) = Cardinality(PoolRunning(q))
  BY DEF Pool!Cardinality, Cardinality
<1> HIDE DEF W
<1> QED
  BY <1>1, <1>4, <1>5, <1>6, <1>7, <1>8 DEF Pool!Begin

\* A worker that answers finishes its task.
LEMMA PoolFinish ==
    ASSUME PoolInvs, NEW w \in Workers, Answer(w)
    PROVE  Pool(Home[w])!Finish(task[w]) /\ task[w] \in Requests
<1> USE DEF PoolInvs
<1> DEFINE q == Home[w]
<1>1. /\ q \in Queues /\ task[w] \in Requests /\ task[w] # NoTask
      /\ responses'[q] = responses[q] \cup {task[w]}
      /\ task' = [task EXCEPT ![w] = NoTask]
      /\ UNCHANGED <<requests, stop, gone, collected, taken, target>>
  BY WorkersAssumption, RequestsAssumption
     DEF Answer, callerVars, ghostVars, TypeInv, TypeOK, Locals
<1>2. w \in WorkersOf(q) /\ WorkersOf(q) \subseteq Workers
  BY DEF WorkersOf
<1>3. \A v \in Workers : task[v] = task[w] => v = w
  BY <1>1, RunningOnly
<1>4. task[w] \in PoolRunning(q) /\ PoolRunning(q)' = PoolRunning(q) \ {task[w]}
  BY <1>1, <1>2, <1>3 DEF PoolRunning, TypeInv, TypeOK
<1>5. PoolCollected(q)' = PoolCollected(q) /\ PoolState(q)' = PoolState(q)
  BY <1>1 DEF PoolCollected, PoolState
<1> QED
  BY <1>1, <1>4, <1>5 DEF Pool!Finish

\* Each step is a step of the pool of each queue, or none of its business.
LEMMA PoolSteps ==
    ASSUME PoolInvs, [Next]_vars, NEW q \in Queues
    PROVE  [Pool(q)!PoolNext]_(Pool(q)!poolVars)
<1> USE DEF PoolInvs
<1>1. ASSUME NEW c \in Callers, CallerCall(c)
      PROVE  Pool(q)!PoolNext \/ UNCHANGED Pool(q)!poolVars
  <2>1. ASSUME NEW p \in Queues, NEW r \in Requests, PushRequest(c, p, r)
        PROVE  Pool(q)!PoolNext \/ UNCHANGED Pool(q)!poolVars
    <3>1. CASE p = q
      BY <2>1, <3>1, PoolPush DEF Pool!PoolNext
    <3>2. CASE p # q
      <4>1. /\ requests'[q] = requests[q]
            /\ UNCHANGED <<responses, task, stop, gone, collected, taken>>
            /\ \A d \in Callers : taken[d] # {} => target'[d] = target[d]
        BY <2>1, <3>2 DEF PushRequest, Enter, workerVars, TypeInv, TypeOK, Locals
      <4>2. PoolRunning(q)' = PoolRunning(q)
        BY <4>1 DEF PoolRunning
      <4>3. PoolCollected(q)' = PoolCollected(q)
        BY <4>1, CollectedSame
      <4> QED
        BY <4>1, <4>2, <4>3, PoolStutter
    <3> QED
      BY <3>1, <3>2
  <2>2. ASSUME NEW p \in Queues, PopResponses(c, p)
        PROVE  Pool(q)!PoolNext \/ UNCHANGED Pool(q)!poolVars
    <3>1. CASE p = q
      BY <2>2, <3>1, PoolCollect DEF Pool!PoolNext
    <3>2. CASE p # q
      <4>1. /\ UNCHANGED <<requests, task, stop, gone, collected>> /\ responses'[q] = responses[q]
            /\ \A d \in Callers : target'[d] = q <=> target[d] = q
            /\ \A d \in Callers : target[d] = q => taken'[d] = taken[d]
        BY <2>2, <3>2, QueuesAssumption
           DEF PopResponses, Enter, workerVars, ghostVars, TypeInv, TypeOK, Locals
      <4>2. PoolRunning(q)' = PoolRunning(q)
        BY <4>1 DEF PoolRunning
      <4>3. PoolCollected(q)' = PoolCollected(q)
        BY <4>1 DEF PoolCollected
      <4> QED
        BY <4>1, <4>2, <4>3, PoolStutter
    <3> QED
      BY <3>1, <3>2
  <2>3. ASSUME NEW p \in Queues, Stop(c, p)
        PROVE  Pool(q)!PoolNext \/ UNCHANGED Pool(q)!poolVars
    <3>1. /\ UNCHANGED <<requests, responses, task, gone, collected, taken>>
          /\ stop' = [stop EXCEPT ![p] = TRUE] /\ ~stop[p] /\ p \notin gone
          /\ \A d \in Callers : taken[d] # {} => target'[d] = target[d]
      BY <2>3 DEF Stop, Enter, workerVars, ghostVars, TypeInv, TypeOK, Locals
    <3>2. PoolRunning(q)' = PoolRunning(q)
      BY <3>1 DEF PoolRunning
    <3>3. PoolCollected(q)' = PoolCollected(q)
      BY <3>1, CollectedSame
    <3>4. CASE p = q
      <4>1. PoolState(q) = "open" /\ PoolState(q)' = "closing"
        BY <3>1, <3>4 DEF PoolState, TypeInv, TypeOK
      <4> QED
        BY <3>1, <3>2, <3>3, <4>1 DEF Pool!PoolNext, Pool!BeginClose
    <3>5. CASE p # q
      <4>1. stop'[q] = stop[q]
        BY <3>1, <3>5 DEF TypeInv, TypeOK
      <4> QED
        BY <3>1, <3>2, <3>3, <4>1, PoolStutter
    <3> QED
      BY <3>4, <3>5
  <2>4. ASSUME Wait(c) \/ \E p \in Queues : \E r \in Requests : PushRefused(c, p, r)
        PROVE  UNCHANGED Pool(q)!poolVars
    <3>1. UNCHANGED <<requests, responses, task, stop, gone, collected, taken, target>>
      BY <2>4 DEF Wait, PushRefused, queueVars, workerVars, callerVars, ghostVars
    <3>2. PoolRunning(q)' = PoolRunning(q)
      BY <3>1 DEF PoolRunning
    <3>3. PoolCollected(q)' = PoolCollected(q)
      BY <3>1 DEF PoolCollected
    <3> QED
      BY <3>1, <3>2, <3>3, PoolStutter
  <2> QED
    BY <1>1, <2>1, <2>2, <2>3, <2>4 DEF CallerCall
<1>2. ASSUME NEW c \in Callers, CallerStep(c)
      PROVE  Pool(q)!PoolNext \/ UNCHANGED Pool(q)!poolVars
  <2>1. CASE Consume(c)
    <3>1. /\ UNCHANGED <<requests, responses, task, stop, gone>> /\ target[c] \in Queues
          /\ collected' = [collected EXCEPT ![target[c]] = @ \cup taken[c]]
          /\ taken' = [taken EXCEPT ![c] = {}] /\ target' = [target EXCEPT ![c] = NoQueue]
      BY <2>1 DEF Consume, Leave, queueVars, workerVars, TypeInv, TypeOK, Locals
    <3>2. PoolRunning(q)' = PoolRunning(q)
      BY <3>1 DEF PoolRunning
    <3>3. PoolCollected(q)' = PoolCollected(q)
      <4>1. \A r : r \in PoolCollected(q)' <=> r \in collected'[q]
                      \/ \E d \in Callers : target'[d] = q /\ r \in taken'[d]
        BY DEF PoolCollected
      <4>2. \A r : r \in PoolCollected(q) <=> r \in collected[q]
                      \/ \E d \in Callers : target[d] = q /\ r \in taken[d]
        BY DEF PoolCollected
      <4>3. /\ taken'[c] = {} /\ target'[c] = NoQueue
            /\ \A d \in Callers \ {c} : taken'[d] = taken[d] /\ target'[d] = target[d]
            /\ \A p \in Queues : collected'[p] = IF p = target[c] THEN collected[p] \cup taken[c]
                                                             ELSE collected[p]
        BY <3>1 DEF TypeInv, TypeOK
      <4>4. \A r : r \in PoolCollected(q)' <=> r \in PoolCollected(q)
        BY <4>1, <4>2, <4>3
      <4> QED
        BY <4>4
    <3> QED
      BY <3>1, <3>2, <3>3, PoolStutter
  <2>2. CASE Join(c)
    <3>1. /\ UNCHANGED <<requests, responses, task, stop, collected, taken>>
          /\ gone' = gone \cup {target[c]} /\ target[c] \in Queues
          /\ stop[target[c]] /\ target[c] \notin gone
          /\ \A w \in WorkersOf(target[c]) : pc[w] = "exited"
          /\ \A d \in Callers : taken[d] # {} => target'[d] = target[d]
      <4>1. target[c] \in Queues /\ stop[target[c]] /\ target[c] \notin gone
        BY <2>2 DEF Join, Leave, OwnerInv, InDestructor, TypeInv, TypeOK, Locals
      <4>2. taken[c] = {} /\ target' = [target EXCEPT ![c] = NoQueue] /\ target \in [Callers -> Queues \cup {NoQueue}]
        BY <2>2 DEF Join, Leave, TypeInv, TypeOK, Locals
      <4>3. \A d \in Callers : taken[d] # {} => target'[d] = target[d]
        BY <4>2
      <4> QED
        BY <2>2, <4>1, <4>3 DEF Join, Leave, workerVars, ghostVars
    <3>2. PoolRunning(q)' = PoolRunning(q)
      BY <3>1 DEF PoolRunning
    <3>3. PoolCollected(q)' = PoolCollected(q)
      BY <3>1, CollectedSame
    <3>4. CASE target[c] = q
      <4>1. requests[q] = << >>
        BY <3>1, <3>4, PoolAssumption DEF DrainInv, WorkersOf
      <4>2. PoolRunning(q) = {}
        BY <3>1, <3>4 DEF PoolRunning, WorkersOf, TypeInv, Locals
      <4>3. PoolState(q) = "closing" /\ PoolState(q)' = "closed"
        BY <3>1, <3>4 DEF PoolState
      <4> QED
        BY <3>1, <3>2, <3>3, <4>1, <4>2, <4>3 DEF Pool!PoolNext, Pool!EndClose
    <3>5. CASE target[c] # q
      BY <3>1, <3>2, <3>3, <3>5, PoolStutter
    <3> QED
      BY <3>4, <3>5
  <2>3. CASE ~Consume(c) /\ ~Join(c)
    <3>1. /\ UNCHANGED <<requests, responses, task, stop, gone, collected, taken>>
          /\ \A d \in Callers : taken[d] # {} => target'[d] = target[d]
      BY <1>2, <2>3 DEF CallerStep, Signal, Sleep, WaitReturn, NotifyAll, Leave, queueVars,
                        workerVars, callerVars, ghostVars, TypeInv, TypeOK, Locals
    <3>2. PoolRunning(q)' = PoolRunning(q)
      BY <3>1 DEF PoolRunning
    <3>3. PoolCollected(q)' = PoolCollected(q)
      BY <3>1, CollectedSame
    <3> QED
      BY <3>1, <3>2, <3>3, PoolStutter
  <2> QED
    BY <2>1, <2>2, <2>3
<1>3. ASSUME NEW w \in Workers, WorkerStep(w)
      PROVE  Pool(q)!PoolNext \/ UNCHANGED Pool(q)!poolVars
  <2>1. CASE Home[w] = q /\ Fetch(w)
    BY <2>1, PoolBegin DEF Pool!PoolNext
  <2>2. CASE Home[w] = q /\ Answer(w)
    BY <2>2, PoolFinish DEF Pool!PoolNext
  <2>3. CASE Home[w] # q \/ ~(Fetch(w) \/ Answer(w))
    <3>1. /\ requests'[q] = requests[q] /\ responses'[q] = responses[q]
          /\ UNCHANGED <<stop, gone, collected, taken, target>>
          /\ \A v \in WorkersOf(q) : task'[v] = task[v]
      BY <1>3, <2>3, WorkersAssumption
         DEF WorkerStep, WorkerFetch, Fetch, WaitForRequest, Quit, Fetching, Answer, Notify, Wake,
             WorkersOf, queueVars, callerVars, ghostVars, TypeInv, TypeOK
    <3>2. PoolRunning(q)' = PoolRunning(q)
      BY <3>1 DEF PoolRunning
    <3>3. PoolCollected(q)' = PoolCollected(q)
      BY <3>1 DEF PoolCollected
    <3> QED
      BY <3>1, <3>2, <3>3, PoolStutter
  <2> QED
    BY <1>3, <2>1, <2>2, <2>3
<1>4. CASE SpuriousWake \/ UNCHANGED vars
  <2>1. UNCHANGED <<requests, responses, task, stop, gone, collected, taken, target>>
    BY <1>4 DEF SpuriousWake, vars, queueVars, workerVars, callerVars, ghostVars
  <2>2. PoolRunning(q)' = PoolRunning(q)
    BY <2>1 DEF PoolRunning
  <2>3. PoolCollected(q)' = PoolCollected(q)
    BY <2>1 DEF PoolCollected
  <2> QED
    BY <2>1, <2>2, <2>3, PoolStutter
<1> QED
  BY <1>1, <1>2, <1>3, <1>4 DEF Next, Finished

\* Every queue implements the pool that its callers reckon with: requests are
\* started in the order of the pushes, at most pool_size at a time, each
\* response is handed over once, and the destructor drains; whatever the other
\* queues on the Synchronizer and their callers do.
THEOREM QueueIsPool ==
    ASSUME NEW q \in Queues
    PROVE  Spec => Pool(q)!PoolSpec
<1>1. Init => DrainInv /\ OwnerInv
  BY DEF Init, DrainInv, OwnerInv, InDestructor
<1>2. Spec => []PoolInvs
  BY <1>1, TypeInvariance, PlacedInvariance, DrainStep, OwnerStep, PTL DEF Spec, PoolInvs
<1>3. Init => Pool(q)!PoolInit
  BY PoolAtStart
<1>4. PoolInvs /\ [Next]_vars => [Pool(q)!PoolNext]_(Pool(q)!poolVars)
  BY PoolSteps
<1> QED
  BY <1>2, <1>3, <1>4, PTL DEF Spec, Pool!PoolSpec

=============================================================================
