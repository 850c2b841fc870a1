----------------------------- MODULE Downloader -----------------------------
(***************************************************************************)
(* Buzz::Downloader (aws/downloader.h, aws/downloader.cc): a thread pool   *)
(* that opens connections ahead of time (InitConnections) and downloads    *)
(* ranges of objects (ScheduleDownload).                                   *)
(*                                                                         *)
(* The inits of one call meet at a barrier: each keeps its connection open *)
(* until all have one, so that the HTTP client cannot serve two of them    *)
(* with the same connection.  init_counter_ counts the arrivals; a         *)
(* ScheduleDownload opens the barrier by setting it to pool_size_.         *)
(*                                                                         *)
(* The AsyncQueue underneath is the TaskPool it implements (AsyncQueue     *)
(* refines it).  One thread, the dispatcher, makes all calls.  A step is   *)
(* one critical section of init_interruption_mutex_ or one notification.   *)
(***************************************************************************)
EXTENDS TaskPool, Integers

CONSTANTS
    Batches,   \* the InitConnections calls: each the set of inits it pushes
    Downloads  \* the requests that may be passed to ScheduleDownload

Inits == UNION Batches

ASSUME TasksAssumption ==
    /\ IsFiniteSet(Tasks)
    /\ Tasks = Inits \cup Downloads /\ Inits \cap Downloads = {}
    /\ \A A, B \in Batches : A # B => A \cap B = {}

\* assert(max_init_count <= pool_size_).
ASSUME InitCountAssumption == \A B \in Batches : B # {} /\ Cardinality(B) <= PoolSize

VARIABLES
    init_counter,  \* init_counter_
    batch,         \* the inits of the last InitConnections call
    interrupted,   \* a ScheduleDownload has begun since that call
    dpc,           \* the dispatcher: inside which call
    pending,       \* what the call it is in has still to push
    alive,         \* clients, metrics, mutex and cv are not destroyed yet
    step,          \* each task: where its lambda is
    result         \* each task: what it returned

dispatchVars == <<batch, interrupted, dpc, pending, alive>>
taskVars == <<step, result>>
dlVars == <<poolVars, init_counter, dispatchVars, taskVars>>

\* max_init_count, as captured by the lambda of init t.
BatchOf(t) == CHOOSE B \in Batches : t \in B
InitCount(t) == Cardinality(BatchOf(t))

\* The threads in init_interruption_cv_.wait.
Blocked == {t \in Inits : step[t] = "blocked"}

\* step after a notify_all.
WakeAll(s) == [t \in Tasks |-> IF t \in Blocked THEN "recheck" ELSE s[t]]

\* init_counter_ has no initialiser: its first value is arbitrary.
DownloaderInit ==
    /\ PoolInit
    /\ init_counter \in {0, PoolSize}
    /\ batch = {}
    /\ interrupted = FALSE
    /\ dpc = "idle"
    /\ pending = {}
    /\ alive = TRUE
    /\ step = [t \in Tasks |-> "none"]
    /\ result = [t \in Tasks |-> "none"]

-----------------------------------------------------------------------------
(* The dispatcher.                                                         *)

\* Mutant of InitConnections: the counter is not reset.
InitWithoutReset(B) ==
    /\ dpc = "idle" /\ alive
    /\ B \subseteq Unseen
    /\ \A t \in batch : result[t] # "none"
    /\ batch' = B
    /\ interrupted' = FALSE
    /\ dpc' = "pushInits"
    /\ pending' = B
    /\ UNCHANGED <<poolVars, init_counter, alive, taskVars>>

\* InitConnections: reset the counter, ...  A call before the inits of the
\* previous one are complete is undefined (downloader.h:69).
InitConnections(B) ==
    /\ dpc = "idle" /\ alive
    /\ B \subseteq Unseen
    /\ \A t \in batch : result[t] # "none"
    /\ init_counter' = 0
    /\ batch' = B
    /\ interrupted' = FALSE
    /\ dpc' = "pushInits"
    /\ pending' = B
    /\ UNCHANGED <<poolVars, alive, taskVars>>

\* ... then push max_init_count tasks.  They are all alike: their order is
\* left open.
PushInit(t) ==
    /\ dpc = "pushInits"
    /\ t \in pending
    /\ Submit(t)
    /\ pending' = pending \ {t}
    /\ dpc' = IF pending = {t} THEN "idle" ELSE "pushInits"
    /\ UNCHANGED <<init_counter, batch, interrupted, alive, taskVars>>

\* ScheduleDownload: open the barrier, ...
ScheduleDownload(d) ==
    /\ dpc = "idle" /\ alive
    /\ d \in Unseen
    /\ init_counter' = PoolSize
    /\ interrupted' = TRUE
    /\ dpc' = "notifyInits"
    /\ pending' = {d}
    /\ UNCHANGED <<poolVars, batch, alive, taskVars>>

\* Mutant of NotifyInits: ScheduleDownload opens the barrier and tells nobody.
NotifyNoInit ==
    /\ dpc = "notifyInits"
    /\ dpc' = "pushDownload"
    /\ UNCHANGED <<poolVars, init_counter, batch, interrupted, pending, alive, taskVars>>

\* ... init_interruption_cv_.notify_all(), ...
NotifyInits ==
    /\ dpc = "notifyInits"
    /\ dpc' = "pushDownload"
    /\ step' = WakeAll(step)
    /\ UNCHANGED <<poolVars, init_counter, batch, interrupted, pending, alive, result>>

\* ... and push the task.
PushDownload ==
    /\ dpc = "pushDownload"
    /\ \E d \in pending : Submit(d)
    /\ pending' = {}
    /\ dpc' = "idle"
    /\ UNCHANGED <<init_counter, batch, interrupted, alive, taskVars>>

\* ProcessResponses; an empty vector changes nothing.
ProcessResponses ==
    /\ dpc = "idle" /\ alive
    /\ Collect
    /\ UNCHANGED <<init_counter, dispatchVars, taskVars>>

\* ~Downloader: members are destroyed in reverse order of declaration, the
\* clients, the metrics, the condition variable and the mutex before queue_,
\* whose destructor drains the queue and joins the workers.
DestroyMembers ==
    /\ dpc = "idle" /\ alive
    /\ alive' = FALSE
    /\ dpc' = "destroy"
    /\ UNCHANGED <<poolVars, init_counter, batch, interrupted, pending, taskVars>>

DestroyQueue ==
    /\ dpc = "destroy"
    /\ BeginClose \/ EndClose
    /\ UNCHANGED <<init_counter, dispatchVars, taskVars>>

-----------------------------------------------------------------------------
(* The tasks, each on a worker of the pool.                                *)

Goto(t, from, to) == step[t] = from /\ step' = [step EXCEPT ![t] = to]

BeginTask ==
    /\ Begin
    /\ LET t == Head(queued) IN
       Goto(t, "none", IF t \in Inits THEN "check" ELSE "get")
    /\ UNCHANGED <<init_counter, dispatchVars, result>>

\* The early return of an init that comes too late to be of use.
Abort(t) ==
    /\ init_counter >= InitCount(t)
    /\ Goto(t, "check", "done")
    /\ result' = [result EXCEPT ![t] = "aborted"]
    /\ UNCHANGED <<poolVars, init_counter, dispatchVars>>

\* It starts DeleteObject.
Connect(t) ==
    /\ init_counter < InitCount(t)
    /\ Goto(t, "check", "connect")
    /\ UNCHANGED <<poolVars, init_counter, dispatchVars, result>>

\* Mutant of Arrive: the connection is not held at all.
ArriveAndPass(t) ==
    /\ init_counter' = init_counter + 1
    /\ Goto(t, "connect", "reply")
    /\ UNCHANGED <<poolVars, dispatchVars, result>>

\* First call of the data-received handler; the connection is held.  The last
\* init to arrive (or any, once the barrier is open) notifies the others.
Arrive(t) ==
    /\ init_counter' = init_counter + 1
    /\ Goto(t, "connect", IF init_counter + 1 < InitCount(t) THEN "blocked" ELSE "release")
    /\ UNCHANGED <<poolVars, dispatchVars, result>>

\* Mutant of Recheck: cv.wait(lock) without a predicate.
RecheckNothing(t) ==
    /\ Goto(t, "recheck", "reply")
    /\ UNCHANGED <<poolVars, init_counter, dispatchVars, result>>

\* A notified (or spuriously woken) init evaluates the predicate again.
Recheck(t) ==
    /\ Goto(t, "recheck", IF init_counter < InitCount(t) THEN "blocked" ELSE "reply")
    /\ UNCHANGED <<poolVars, init_counter, dispatchVars, result>>

\* Mutant of Release: the last init to come does not notify the others.
ReleaseNobody(t) ==
    /\ Goto(t, "release", "reply")
    /\ UNCHANGED <<poolVars, init_counter, dispatchVars, result>>

Release(t) ==
    /\ step[t] = "release"
    /\ step' = [WakeAll(step) EXCEPT ![t] = "reply"]
    /\ UNCHANGED <<poolVars, init_counter, dispatchVars, result>>

\* Mutant of Miss: an init that times out is not counted.
MissUncounted(t) ==
    /\ Goto(t, "connect", "reply")
    /\ UNCHANGED <<poolVars, init_counter, dispatchVars, result>>

\* DeleteObject failed before any data came, most likely on a timeout: the
\* init is counted all the same.
Miss(t) ==
    /\ init_counter' = init_counter + 1
    /\ Goto(t, "connect", IF init_counter + 1 = InitCount(t) THEN "release" ELSE "reply")
    /\ UNCHANGED <<poolVars, dispatchVars, result>>

\* Mutant of EndInit: the response is made from the state of the lambda.
EndInitWithStep(t) ==
    /\ Goto(t, "reply", "done")
    /\ result' = [result EXCEPT ![t] = step[t]]
    /\ UNCHANGED <<poolVars, init_counter, dispatchVars>>

\* DeleteObject has returned; metrics are recorded and an empty response made.
EndInit(t) ==
    /\ Goto(t, "reply", "done")
    /\ result' = [result EXCEPT ![t] = "init"]
    /\ UNCHANGED <<poolVars, init_counter, dispatchVars>>

\* GetObjectRange, with its three retries.
Get(t) ==
    /\ Goto(t, "get", "done")
    /\ \E outcome \in {"data", "error"} : result' = [result EXCEPT ![t] = outcome]
    /\ UNCHANGED <<poolVars, init_counter, dispatchVars>>

FinishTask(t) ==
    /\ Finish(t)
    /\ step[t] = "done"
    /\ UNCHANGED <<init_counter, dispatchVars, taskVars>>

SpuriousWakeup(t) ==
    /\ Goto(t, "blocked", "recheck")
    /\ UNCHANGED <<poolVars, init_counter, dispatchVars, result>>

-----------------------------------------------------------------------------

\* The steps of a call that has begun.
DispatcherStep ==
    \/ \E t \in Inits : PushInit(t)
    \/ NotifyInits
    \/ PushDownload
    \/ DestroyQueue

InitStep(t) ==
    Abort(t) \/ Connect(t) \/ Arrive(t) \/ Recheck(t) \/ Release(t) \/ Miss(t) \/ EndInit(t)

TaskStep(t) == (t \in Inits /\ InitStep(t)) \/ (t \in Downloads /\ Get(t)) \/ FinishTask(t)

\* What goes on whatever the dispatcher's program is.
DownloaderStep ==
    \/ DispatcherStep
    \/ BeginTask
    \/ \E t \in Tasks : TaskStep(t)
    \/ \E t \in Inits : SpuriousWakeup(t)

\* Calls end, workers run, and the network answers or times out.
DownloaderFairness ==
    /\ WF_dlVars(DispatcherStep)
    /\ WF_dlVars(BeginTask)
    /\ \A t \in Tasks : WF_dlVars(TaskStep(t))

-----------------------------------------------------------------------------
(* A dispatcher that makes its calls in any order the header allows, and   *)
(* destroys the object once it has collected everything.                   *)

Destroy ==
    /\ queued = << >> /\ running = {} /\ answered = {}
    /\ DestroyMembers

Terminated == state = "closed" /\ UNCHANGED dlVars

Next ==
    \/ \E B \in Batches : InitConnections(B)
    \/ \E d \in Downloads : ScheduleDownload(d)
    \/ ProcessResponses
    \/ Destroy
    \/ DownloaderStep
    \/ Terminated

Spec == DownloaderInit /\ [][Next]_dlVars

FairSpec == Spec /\ DownloaderFairness

-----------------------------------------------------------------------------
(* Properties.                                                             *)

Steps == {"none", "check", "connect", "blocked", "recheck", "release", "reply", "get", "done"}
Results == {"none", "aborted", "init", "data", "error"}

\* Every variable has the shape its C++ counterpart has.
TypeOK ==
    /\ queued \in Seq(Tasks)
    /\ running \subseteq Tasks /\ answered \subseteq Tasks /\ collected \subseteq Tasks
    /\ state \in {"open", "closing", "closed"}
    /\ init_counter \in Int
    /\ batch \in Batches \cup {{}}
    /\ interrupted \in BOOLEAN
    /\ dpc \in {"idle", "pushInits", "notifyInits", "pushDownload", "destroy"}
    /\ pending \subseteq Tasks
    /\ alive \in BOOLEAN
    /\ step \in [Tasks -> Steps]
    /\ result \in [Tasks -> Results]

AtBarrier == {"blocked", "recheck", "release"}

\* The inits of the current batch that incremented init_counter_.
Arrived == {t \in batch : step[t] \in AtBarrier \cup {"reply"} \/ result[t] = "init"}

\* init_counter_ counts the arrivals of the current batch exactly, whatever the
\* order of pushes, timeouts and wake-ups, until a ScheduleDownload opens the
\* barrier; from then on it never falls below pool_size_.
CounterCountsArrivals ==
    batch # {} => IF interrupted THEN init_counter >= PoolSize
                                 ELSE init_counter = Cardinality(Arrived)

\* What the barrier is for ("we block before releasing the connection"): no
\* init lets go of its connection before every init of its batch has come,
\* unless a download was scheduled.
HeldUntilAllCame ==
    [][\A t \in Inits :
          step[t] \in AtBarrier /\ step'[t] = "reply" => interrupted \/ BatchOf(t) = Arrived]_dlVars

\* No notification of the barrier is lost: an init that sleeps although the
\* barrier is open has a notify_all() on its way.
NoStrandedInit ==
    (\E t \in Blocked : init_counter >= InitCount(t))
        => dpc = "notifyInits" \/ \E t \in Inits : step[t] = "release"

\* Once ScheduleDownload has notified, no init occupies a worker at the
\* barrier, and none will until the next InitConnections.
DownloadsUnblockInits ==
    interrupted /\ dpc # "notifyInits" => Blocked = {}

\* Every init and every download that was pushed returns a response: the
\* barrier does not starve the pool, whatever times out.
EveryTaskFinishes ==
    \A t \in Tasks : (t \in {queued[i] : i \in DOMAIN queued}) ~> (t \in answered \cup collected)

=============================================================================
