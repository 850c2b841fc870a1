-------------------------- MODULE QueryBwScheduler --------------------------
(***************************************************************************)
(* The program playground/query-bw-scheduler.cc: NB_PARALLEL workers       *)
(* invoke a Lambda function NB_INVOKE times.  A worker whose call fails    *)
(* for good calls exit(1), while main waits for a response that will never *)
(* come: exit() runs the static destructors, that of the handle cache      *)
(* (HandleContainer.cpp) among them, beside the other workers.             *)
(*                                                                         *)
(* The AsyncQueue is its TaskPool, an attempt of the Lambda client is one  *)
(* transfer over the handle cache.  Retries go on while the strategy of    *)
(* the program says so.                                                    *)
(***************************************************************************)
EXTENDS TaskPool, HandleContainer, SdkLifecycle

CONSTANTS
    Lambda,            \* the domain of the Lambda service
    retry_interval,    \* of ConnectRetryStrategy, in milliseconds
    max_retry_duration

ASSUME LambdaAssumption == Domains = {Lambda}
ASSUME TasksAssumption == IsFiniteSet(Tasks)
ASSUME RetryAssumption == retry_interval \in Nat \ {0} /\ max_retry_duration \in Nat

VARIABLES
    mpc,                \* where main and execute() are
    invokes_completed,
    invokes_successful,
    step,               \* each invocation: where its lambda is
    attempted,          \* each invocation: its attempted_retries
    held,               \* each invocation: the handle its transfer uses
    delivered,          \* the invocations the service has accepted
    statics,            \* the handle cache: "built" or "destroyed"
    status              \* how the process has ended, or "running"

mainVars == <<mpc, invokes_completed, invokes_successful>>
callVars == <<step, attempted, held, delivered>>
processVars == <<statics, status>>
vars == <<poolVars, containerVars, sdkVars, mainVars, callVars, processVars>>

Init ==
    /\ PoolInit /\ ContainerInit /\ SdkInit
    /\ mpc = "start"
    /\ invokes_completed = 0 /\ invokes_successful = 0
    /\ step = [t \in Tasks |-> "none"]
    /\ attempted = [t \in Tasks |-> 0]
    /\ held = [t \in Tasks |-> None]
    /\ delivered = {}
    /\ statics = "built"
    /\ status = "running"

-----------------------------------------------------------------------------
(* The main thread.                                                        *)

Start ==
    /\ mpc = "start"
    /\ InitializeAwsSdk
    /\ mpc' = "invoke"
    /\ UNCHANGED <<poolVars, containerVars, callVars, processVars,
                   invokes_completed, invokes_successful>>

\* One round of the loop that schedules.
Invoke(t) ==
    /\ mpc = "invoke"
    /\ Submit(t)
    /\ mpc' = IF Unseen = {t} THEN "wait" ELSE "invoke"
    /\ UNCHANGED <<containerVars, sdkVars, callVars, processVars,
                   invokes_completed, invokes_successful>>

\* One round of the loop that waits; every response is ok.
ProcessResponses ==
    /\ mpc = "wait"
    /\ Collect
    /\ invokes_completed' = invokes_completed + Cardinality(answered)
    /\ invokes_successful' = invokes_successful + Cardinality(answered)
    /\ mpc' = IF invokes_completed' < Cardinality(Tasks) THEN "wait" ELSE "leave"
    /\ UNCHANGED <<containerVars, sdkVars, callVars, processVars>>

\* execute() returns: the queue, Fume's last member, is the first to go.
LeaveExecute ==
    /\ mpc = "leave"
    /\ BeginClose \/ EndClose
    /\ mpc' = IF state' = "closed" THEN "finalize" ELSE "leave"
    /\ UNCHANGED <<containerVars, sdkVars, callVars, processVars,
                   invokes_completed, invokes_successful>>

Finalize ==
    /\ mpc = "finalize"
    /\ FinalizeAwsSdk
    /\ mpc' = "return"
    /\ UNCHANGED <<poolVars, containerVars, callVars, processVars,
                   invokes_completed, invokes_successful>>

MainStep ==
    \/ Start \/ ProcessResponses \/ LeaveExecute \/ Finalize
    \/ \E t \in Tasks : Invoke(t)

-----------------------------------------------------------------------------
(* The workers: client_->Invoke(req).                                      *)

BeginInvoke ==
    /\ Begin
    /\ step' = [step EXCEPT ![Head(queued)] = "attempt"]
    /\ UNCHANGED <<containerVars, sdkVars, mainVars, attempted, held, delivered, processVars>>

StartAttempt(t) ==
    /\ step[t] = "attempt"
    /\ \E h \in Handles :
          /\ AcquireCurlHandle(Lambda, Lambda, h)
          /\ held' = [held EXCEPT ![t] = h]
    /\ step' = [step EXCEPT ![t] = "transfer"]
    /\ UNCHANGED <<poolVars, sdkVars, mainVars, attempted, delivered, processVars>>

\* Mutant of Succeed: the handle is not given back.
SucceedUnreleased(t) ==
    /\ step[t] = "transfer"
    /\ held' = [held EXCEPT ![t] = None]
    /\ delivered' = delivered \cup {t}
    /\ step' = [step EXCEPT ![t] = "done"]
    /\ UNCHANGED <<poolVars, containerVars, sdkVars, mainVars, attempted, processVars>>

Succeed(t) ==
    /\ step[t] = "transfer"
    /\ ReleaseCurlHandle(Lambda, held[t])
    /\ held' = [held EXCEPT ![t] = None]
    /\ delivered' = delivered \cup {t}
    /\ step' = [step EXCEPT ![t] = "done"]
    /\ UNCHANGED <<poolVars, sdkVars, mainVars, attempted, processVars>>

ShouldRetry(attempted_retries) == attempted_retries * retry_interval < max_retry_duration

\* Mutant of Fail: each retry is the first.
FailAfresh(t) ==
    /\ step[t] = "transfer"
    /\ ReleaseCurlHandle(Lambda, held[t]) \/ DestroyCurlHandle(held[t])
    /\ held' = [held EXCEPT ![t] = None]
    /\ step' = [step EXCEPT ![t] = IF ShouldRetry(attempted[t]) THEN "attempt" ELSE "exit"]
    /\ UNCHANGED <<poolVars, sdkVars, mainVars, attempted, delivered, processVars>>

\* The service refuses, or the transfer fails and its handle goes with it.
Fail(t) ==
    /\ step[t] = "transfer"
    /\ ReleaseCurlHandle(Lambda, held[t]) \/ DestroyCurlHandle(held[t])
    /\ held' = [held EXCEPT ![t] = None]
    /\ IF ShouldRetry(attempted[t])
       THEN /\ step' = [step EXCEPT ![t] = "attempt"]
            /\ attempted' = [attempted EXCEPT ![t] = @ + 1]
       ELSE step' = [step EXCEPT ![t] = "exit"] /\ UNCHANGED attempted
    /\ UNCHANGED <<poolVars, sdkVars, mainVars, delivered, processVars>>

\* Mutant of Exit: a response all the same.
ExitNot(t) ==
    /\ step[t] = "exit"
    /\ step' = [step EXCEPT ![t] = "done"]
    /\ UNCHANGED <<poolVars, containerVars, sdkVars, mainVars, attempted, held, delivered,
                   processVars>>

\* exit(1): the thread does not come back.
Exit(t) ==
    /\ step[t] = "exit"
    /\ step' = [step EXCEPT ![t] = "exiting"]
    /\ UNCHANGED <<poolVars, containerVars, sdkVars, mainVars, attempted, held, delivered,
                   processVars>>

\* The lambda returns InvokeResponse{}.
FinishInvoke(t) ==
    /\ step[t] = "done"
    /\ Finish(t)
    /\ UNCHANGED <<containerVars, sdkVars, mainVars, callVars, processVars>>

WorkerStep(t) == StartAttempt(t) \/ Succeed(t) \/ Fail(t) \/ Exit(t) \/ FinishInvoke(t)

-----------------------------------------------------------------------------
(* The end of the process.                                                 *)

\* The workers inside exit(1).
Exiting == {t \in Tasks : step[t] = "exiting"}

Idle == {cache[Lambda][i] : i \in DOMAIN cache[Lambda]}

\* ~DomainHandleCache, after main has returned or in a call of exit(1).
DestroyCache ==
    /\ mpc = "return" \/ Exiting # {}
    /\ statics = "built"
    /\ statics' = "destroyed"
    /\ cache' = [cache EXCEPT ![Lambda] = << >>]
    /\ shareOf' = [h \in Handles |-> IF h \in Idle THEN None ELSE shareOf[h]]
    /\ UNCHANGED <<poolVars, options, sdkVars, mainVars, callVars, status>>

\* A worker that meets the destroyed cache may go on as if nothing had
\* happened (the steps above) or crash the process.
UseDestroyed(t) ==
    /\ statics = "destroyed"
    /\ step[t] \in {"attempt", "transfer"}
    /\ status' = "signal"
    /\ UNCHANGED <<poolVars, containerVars, sdkVars, mainVars, callVars, statics>>

EndProcess ==
    /\ statics = "destroyed"
    /\ status' = IF Exiting = {} THEN "success" ELSE "failure"
    /\ UNCHANGED <<poolVars, containerVars, sdkVars, mainVars, callVars, statics>>

ExitStep == DestroyCache \/ EndProcess \/ \E t \in Tasks : UseDestroyed(t)

Running == status = "running"

Next ==
    \/ Running /\ (MainStep \/ BeginInvoke \/ ExitStep \/ \E t \in Tasks : WorkerStep(t))
    \/ ~Running /\ UNCHANGED vars

\* Threads run and attempts end.
Fairness ==
    /\ WF_vars(Running /\ MainStep)
    /\ WF_vars(Running /\ BeginInvoke)
    /\ WF_vars(Running /\ ExitStep)
    /\ \A t \in Tasks : WF_vars(Running /\ WorkerStep(t))

Spec == Init /\ [][Next]_vars /\ Fairness

-----------------------------------------------------------------------------
(* Properties.                                                             *)

\* Whoever started the program can rely on its exit code, although any thread
\* may end it at any time: 0 means that every invocation was accepted and
\* counted, anything else that some invocation was out of retries.
ExitCodeTellsOutcome ==
    /\ status = "success" =>
          delivered = Tasks /\ invokes_successful = Cardinality(Tasks)
    /\ status \in {"failure", "signal"} =>
          \E t \in Tasks \ delivered : ~ShouldRetry(attempted[t])

\* No worker has a handle, and so a transfer, before curl is initialised or
\* after it was shut down; and when the cache is destroyed because main has
\* returned, every handle is in it: none is in use, and none is left behind.
\* That destructor is the exception: it calls curl after FinalizeAwsSdk.
OrderlyShutdown ==
    /\ \A t \in Tasks : held[t] # None => SdkReady
    /\ statics = "destroyed" /\ Exiting = {} => Live = {} /\ \A t \in Tasks : held[t] = None

\* The program ends, although a worker that gives up never answers and main
\* waits for its response for ever.
ProgramEnds == <>~Running

=============================================================================
