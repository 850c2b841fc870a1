----------------------- MODULE QueryBwSchedulerProofs -----------------------
(***************************************************************************)
(* Theorems about query-bw-scheduler.cc, for any number of invocations,    *)
(* workers and handles and any retry strategy: what its exit code means,   *)
(* and what is left when it ends.                                          *)
(***************************************************************************)
EXTENDS QueryBwScheduler, TaskPoolProofs

-----------------------------------------------------------------------------
(* The invariant.                                                          *)

TypeOK ==
    /\ cache \in [Domains -> Seq(Handles)]
    /\ shareOf \in [Handles -> Domains \cup {None}]
    /\ aws_initialized \in BOOLEAN /\ isInit \in BOOLEAN /\ curl_inits \in Nat
    /\ mpc \in {"start", "invoke", "wait", "leave", "finalize", "return"}
    /\ invokes_completed \in Nat /\ invokes_successful \in Nat
    /\ step \in [Tasks -> {"none", "attempt", "transfer", "done", "exit", "exiting"}]
    /\ attempted \in [Tasks -> Nat]
    /\ held \in [Tasks -> Handles \cup {None}]
    /\ delivered \subseteq Tasks
    /\ statics \in {"built", "destroyed"}
    /\ status \in {"running", "success", "failure", "signal"}

\* Where the lambda of an invocation is, and what it has: a worker runs it from
\* its start to its response, and gives up only without an answer and a retry.
CallInv ==
    \A t \in Tasks :
        /\ step[t] = "none" <=> t \notin running \cup answered \cup collected
        /\ t \in answered \cup collected => step[t] = "done"
        /\ held[t] # None <=> step[t] = "transfer"
        /\ t \in delivered <=> step[t] = "done"
        /\ step[t] \in {"exit", "exiting"} => ~ShouldRetry(attempted[t])

\* What main knows at each of its places.
MainInv ==
    /\ invokes_completed = Cardinality(collected)
    /\ invokes_successful = Cardinality(collected)
    /\ mpc = "start" => /\ Waiting = {} /\ running \cup answered \cup collected = {}
                        /\ ~aws_initialized /\ ~isInit
    /\ mpc \in {"invoke", "wait", "leave", "finalize"} => SdkReady
    /\ mpc \in {"leave", "finalize", "return"} => collected = Tasks

\* The process ends because main returned, or because a worker called exit(1).
EndInv ==
    /\ statics = "destroyed" => mpc = "return" \/ Exiting # {}
    /\ status = "success" => mpc = "return"
    /\ status \in {"failure", "signal"} => Exiting # {}

\* No handle is lost while the cache lives, and none outlives it after main.
HandleInv ==
    /\ statics = "built" => \A h \in Live : h \in Idle \/ \E t \in Tasks : held[t] = h
    /\ statics = "destroyed" /\ Exiting = {} => Live = {}

SchedulerInv == TypeOK /\ PoolInv /\ CallInv /\ MainInv /\ EndInv /\ HandleInv

-----------------------------------------------------------------------------
(* What follows from it.                                                   *)

\* A worker inside exit(1) has an invocation without answer and retry.
LEMMA ExitingGaveUp ==
    ASSUME SchedulerInv, NEW t \in Exiting
    PROVE  t \in Tasks \ delivered /\ ~ShouldRetry(attempted[t]) /\ t \notin collected
BY DEF SchedulerInv, CallInv, Exiting

\* Once every response is collected no worker is in an invocation.
LEMMA CollectedIsQuiet ==
    ASSUME SchedulerInv, collected = Tasks
    PROVE  /\ Exiting = {} /\ delivered = Tasks /\ running = {}
           /\ \A t \in Tasks : step[t] = "done" /\ held[t] = None
<1>1. \A t \in Tasks : step[t] = "done"
  BY DEF SchedulerInv, CallInv
<1>2. delivered = Tasks /\ \A t \in Tasks : held[t] = None
  BY <1>1 DEF SchedulerInv, CallInv, TypeOK
<1>3. running = {}
  BY DEF SchedulerInv, PoolInv, PoolTypeOK, OnePlace
<1> QED
  BY <1>1, <1>2, <1>3 DEF Exiting

\* While an invocation is under way, main has initialised the SDK and has not
\* left the loop that waits.
LEMMA CallUnderWay ==
    ASSUME SchedulerInv, NEW t \in Tasks, step[t] \in {"attempt", "transfer", "exit", "exiting"}
    PROVE  mpc \in {"invoke", "wait"} /\ SdkReady /\ t \in running
<1>1. t \in running /\ t \notin collected
  BY DEF SchedulerInv, CallInv
<1>2. mpc # "start" /\ mpc \notin {"leave", "finalize", "return"}
  BY <1>1 DEF SchedulerInv, MainInv
<1> QED
  BY <1>1, <1>2 DEF SchedulerInv, MainInv, TypeOK

\* The invariant implies both properties.
LEMMA SchedulerInvSuffices ==
    SchedulerInv => ExitCodeTellsOutcome /\ OrderlyShutdown
<1> SUFFICES ASSUME SchedulerInv
             PROVE  ExitCodeTellsOutcome /\ OrderlyShutdown
  OBVIOUS
<1>1. ASSUME status = "success"
      PROVE  delivered = Tasks /\ invokes_successful = Cardinality(Tasks)
  <2>1. collected = Tasks
    BY <1>1 DEF SchedulerInv, EndInv, MainInv
  <2> QED
    BY <2>1, CollectedIsQuiet DEF SchedulerInv, MainInv
<1>2. ASSUME status \in {"failure", "signal"}
      PROVE  \E t \in Tasks \ delivered : ~ShouldRetry(attempted[t])
  BY <1>2, ExitingGaveUp DEF SchedulerInv, EndInv
<1>3. ASSUME NEW t \in Tasks, held[t] # None
      PROVE  SdkReady
  BY <1>3, CallUnderWay DEF SchedulerInv, CallInv
<1>4. ASSUME statics = "destroyed", Exiting = {}
      PROVE  Live = {} /\ \A t \in Tasks : held[t] = None
  <2>1. collected = Tasks
    BY <1>4 DEF SchedulerInv, EndInv, MainInv
  <2> QED
    BY <1>4, <2>1, CollectedIsQuiet DEF SchedulerInv, HandleInv
<1> QED
  BY <1>1, <1>2, <1>3, <1>4 DEF ExitCodeTellsOutcome, OrderlyShutdown

-----------------------------------------------------------------------------
(* Initial states.                                                         *)

\* The program has done nothing yet.
LEMMA SchedulerInvInit == Init => SchedulerInv
<1> SUFFICES ASSUME Init
             PROVE  SchedulerInv
  OBVIOUS
<1> USE DEF Init, PoolInit, ContainerInit, SdkInit
<1>1. TypeOK
  <2>1. << >> \in Seq(Handles)
    OBVIOUS
  <2>2. cache \in [Domains -> Seq(Handles)] /\ shareOf \in [Handles -> Domains \cup {None}]
    BY <2>1
  <2> QED
    BY <2>2 DEF TypeOK
<1>2. PoolInv
  BY PoolInvInit
<1>3. CallInv
  BY DEF CallInv
<1>4. MainInv
  BY FS_EmptySet DEF MainInv, Waiting
<1>5. EndInv
  BY DEF EndInv
<1>6. HandleInv
  BY DEF HandleInv, Live
<1> QED
  BY <1>1, <1>2, <1>3, <1>4, <1>5, <1>6 DEF SchedulerInv

-----------------------------------------------------------------------------
(* The main thread.                                                        *)

\* The steps of main leave the workers' part of the invariant alone.
LEMMA MainKeepsHandles ==
    ASSUME SchedulerInv, UNCHANGED <<containerVars, callVars, processVars>>
    PROVE  HandleInv'
BY DEF SchedulerInv, HandleInv, containerVars, callVars, processVars, Live, Idle, Exiting

\* InitializeAwsSdk, from the state it finds at the start of main.
LEMMA StartStep ==
    ASSUME SchedulerInv, Start
    PROVE  SchedulerInv'
<1> USE DEF SchedulerInv, Start, poolVars, containerVars, callVars, processVars
<1>1. aws_initialized' = TRUE /\ isInit' = TRUE /\ curl_inits' = curl_inits + 1
  BY DEF InitializeAwsSdk, InitGlobalState, MainInv
<1>2. TypeOK'
  BY <1>1 DEF TypeOK
<1>3. PoolInv'
  BY PoolStep
<1>4. CallInv'
  BY DEF CallInv
<1>5. MainInv'
  BY <1>1 DEF MainInv, SdkReady, TypeOK
<1>6. EndInv'
  BY DEF EndInv, Exiting
<1> QED
  BY <1>2, <1>3, <1>4, <1>5, <1>6, MainKeepsHandles

\* One call of schedule().
LEMMA InvokeStep ==
    ASSUME SchedulerInv, NEW t \in Tasks, Invoke(t)
    PROVE  SchedulerInv'
<1> USE DEF SchedulerInv, Invoke, containerVars, sdkVars, callVars, processVars
<1>1. UNCHANGED <<running, answered, collected>>
  BY DEF Submit
<1>2. TypeOK'
  BY DEF TypeOK
<1>3. PoolInv'
  BY SubmitPool
<1>4. CallInv'
  BY <1>1 DEF CallInv
<1>5. MainInv'
  BY <1>1 DEF MainInv, SdkReady
<1>6. EndInv'
  BY DEF EndInv, Exiting
<1> QED
  BY <1>2, <1>3, <1>4, <1>5, <1>6, MainKeepsHandles

\* One round of the loop that waits: it ends with the last response.
LEMMA ProcessResponsesStep ==
    ASSUME SchedulerInv, ProcessResponses
    PROVE  SchedulerInv'
<1> USE DEF SchedulerInv, ProcessResponses, containerVars, sdkVars, callVars, processVars
<1>1. collected' = collected \cup answered /\ answered' = {} /\ UNCHANGED running
  BY DEF Collect
<1>2. PoolInv'
  BY OtherPoolSteps
<1>3. answered \subseteq Tasks /\ collected \subseteq Tasks /\ answered \cap collected = {}
  BY DEF PoolInv, PoolTypeOK, OnePlace
<1>4. IsFiniteSet(answered) /\ IsFiniteSet(collected) /\ IsFiniteSet(Tasks)
  BY <1>3, TasksAssumption, FS_Subset
<1>5. Cardinality(answered) \in Nat /\ Cardinality(collected) \in Nat
  BY <1>4, FS_CardinalityType
<1>6. Cardinality(collected') = Cardinality(collected) + Cardinality(answered)
  BY <1>1, <1>3, <1>4, <1>5, FS_Union, FS_EmptySet
<1>7. /\ invokes_completed' = Cardinality(collected')
      /\ invokes_successful' = Cardinality(collected')
  BY <1>6 DEF MainInv
<1>8. TypeOK'
  BY <1>5 DEF TypeOK
<1>9. CallInv'
  BY <1>1 DEF CallInv
<1>10. ASSUME mpc' = "leave"
       PROVE  collected' = Tasks
  <2>1. Cardinality(collected') \in Nat /\ Cardinality(Tasks) \in Nat
    BY <1>4, <1>5, <1>6, FS_CardinalityType
  <2>2. ~(Cardinality(collected') < Cardinality(Tasks))
    BY <1>7, <1>10
  <2>3. collected' \subseteq Tasks
    BY <1>1, <1>3
  <2> QED
    BY <1>4, <2>1, <2>2, <2>3, FS_Subset
<1>11. MainInv'
  BY <1>7, <1>10 DEF MainInv, SdkReady
<1>12. EndInv'
  BY DEF EndInv, Exiting
<1> QED
  BY <1>2, <1>8, <1>9, <1>11, <1>12, MainKeepsHandles

\* The queue is closed, then the SDK shut down.
LEMMA LeaveStep ==
    ASSUME SchedulerInv, LeaveExecute \/ Finalize
    PROVE  SchedulerInv'
<1> USE DEF SchedulerInv, LeaveExecute, Finalize, containerVars, callVars, processVars
<1>1. UNCHANGED <<queued, running, answered, collected>>
  BY DEF BeginClose, EndClose, poolVars
<1>2. PoolInv'
  BY OtherPoolSteps
<1>3. TypeOK'
  <2>1. aws_initialized' \in BOOLEAN /\ isInit' \in BOOLEAN /\ curl_inits' \in Nat
    <3>1. CASE LeaveExecute
      BY <3>1 DEF TypeOK, sdkVars
    <3>2. CASE Finalize
      <4>1. aws_initialized' = FALSE /\ UNCHANGED isInit
        BY <3>2 DEF FinalizeAwsSdk
      <4>2. curl_inits \in Nat /\ curl_inits' = IF curl_inits > 0 THEN curl_inits - 1 ELSE 0
        BY <3>2 DEF TypeOK, FinalizeAwsSdk
      <4>3. curl_inits' \in Nat
        BY ONLY <4>2, SMT
      <4> QED
        BY <4>1, <4>3 DEF TypeOK
    <3> QED
      BY <3>1, <3>2
  <2> QED
    BY <2>1 DEF TypeOK
<1>4. CallInv'
  BY <1>1 DEF CallInv
<1>5. collected' = Tasks
  BY <1>1 DEF MainInv
<1>6. mpc' \in {"leave", "finalize"} => SdkReady'
  BY DEF MainInv, SdkReady, sdkVars
<1>7. MainInv'
  BY <1>1, <1>5, <1>6 DEF MainInv
<1>8. EndInv'
  BY DEF EndInv, Exiting
<1> QED
  BY <1>2, <1>3, <1>4, <1>7, <1>8, MainKeepsHandles

-----------------------------------------------------------------------------
(* The workers.                                                            *)

\* pop_back() takes the handle it returns from the stack, and no other.
LEMMA ReuseIdle ==
    ASSUME TypeOK, NEW h \in Handles, Reuse(Lambda, h)
    PROVE  cache' \in [Domains -> Seq(Handles)] /\ Idle \subseteq Idle' \cup {h}
<1> DEFINE s == cache[Lambda]
           n == Len(s)
<1>1. s \in Seq(Handles) /\ s # << >> /\ h = s[n]
  BY LambdaAssumption DEF TypeOK, Reuse
<1>2. n \in Nat /\ n # 0 /\ DOMAIN s = 1..n
  BY <1>1
<1>3. cache' = [cache EXCEPT ![Lambda] = SubSeq(s, 1, n - 1)]
  BY DEF Reuse
<1>4. /\ SubSeq(s, 1, n - 1) \in Seq(Handles) /\ DOMAIN SubSeq(s, 1, n - 1) = 1..(n - 1)
      /\ \A i \in 1..(n - 1) : SubSeq(s, 1, n - 1)[i] = s[i]
  BY <1>1, <1>2
<1>5. cache' \in [Domains -> Seq(Handles)] /\ cache'[Lambda] = SubSeq(s, 1, n - 1)
  BY <1>3, <1>4, LambdaAssumption DEF TypeOK
<1>6. Idle = {s[i] : i \in 1..n} /\ Idle' = {s[i] : i \in 1..(n - 1)}
  BY <1>2, <1>4, <1>5 DEF Idle
<1> HIDE DEF s, n
<1>7. \A i \in 1..n : i \in 1..(n - 1) \/ i = n
  BY <1>2
<1> QED
  BY <1>1, <1>5, <1>6, <1>7

\* push_back() puts a handle on the stack, and takes none away.
LEMMA ReleaseIdle ==
    ASSUME TypeOK, NEW h \in Handles, cache' = [cache EXCEPT ![Lambda] = Append(@, h)]
    PROVE  cache' \in [Domains -> Seq(Handles)] /\ Idle \cup {h} \subseteq Idle'
<1> DEFINE s == cache[Lambda]
           n == Len(s)
           r == Append(s, h)
<1>1. s \in Seq(Handles) /\ n \in Nat /\ DOMAIN s = 1..n
  BY LambdaAssumption DEF TypeOK
<1>2. /\ r \in Seq(Handles) /\ DOMAIN r = 1..(n + 1)
      /\ \A i \in 1..n : r[i] = s[i]
      /\ r[n + 1] = h
  BY <1>1
<1>3. cache' \in [Domains -> Seq(Handles)] /\ cache'[Lambda] = r
  BY <1>2, LambdaAssumption DEF TypeOK
<1>4. Idle = {s[i] : i \in 1..n} /\ Idle' = {r[i] : i \in 1..(n + 1)}
  BY <1>1, <1>2, <1>3 DEF Idle
<1> HIDE DEF s, n, r
<1>5. 1..n \subseteq 1..(n + 1) /\ n + 1 \in 1..(n + 1)
  BY <1>1
<1> QED
  BY <1>2, <1>3, <1>4, <1>5

\* What main knows does not change while an invocation is under way.
LEMMA WorkersKeepMain ==
    ASSUME SchedulerInv, UNCHANGED <<poolVars, sdkVars, mainVars>>
    PROVE  MainInv' /\ PoolInv'
<1>1. PoolInv'
  BY OtherPoolSteps DEF SchedulerInv
<1>2. MainInv'
  BY DEF SchedulerInv, MainInv, poolVars, sdkVars, mainVars, Waiting, SdkReady
<1> QED
  BY <1>1, <1>2

\* Nor does the end of the process become undone.
LEMMA WorkersKeepEnd ==
    ASSUME SchedulerInv, UNCHANGED <<mpc, statics, status>>, Exiting \subseteq Exiting'
    PROVE  EndInv'
BY DEF SchedulerInv, EndInv

\* A worker takes a request from the queue and starts its lambda.
LEMMA BeginStep ==
    ASSUME SchedulerInv, BeginInvoke
    PROVE  SchedulerInv'
<1> USE DEF SchedulerInv, BeginInvoke, containerVars, sdkVars, mainVars, processVars
<1>1. PICK t \in Tasks : t = Head(queued) /\ t \in Waiting
  BY BeginWaiting DEF PoolInv, PoolTypeOK, Waiting
<1>2. running' = running \cup {t} /\ UNCHANGED <<answered, collected>>
  BY <1>1 DEF Begin
<1>3. step' = [step EXCEPT ![t] = "attempt"]
  BY <1>1
<1>4. t \notin running \cup answered \cup collected
  BY <1>1 DEF PoolInv, OnePlace
<1>5. step[t] = "none" /\ t \notin delivered /\ held[t] = None
  BY <1>4 DEF CallInv
<1>6. TypeOK'
  BY <1>3 DEF TypeOK
<1>7. PoolInv'
  BY BeginPool
<1>8. CallInv'
  BY <1>2, <1>3, <1>4, <1>5 DEF CallInv, TypeOK
<1>9. mpc # "start"
  BY <1>1 DEF MainInv
<1>10. MainInv'
  BY <1>2, <1>9 DEF MainInv, SdkReady
<1>11. Exiting' = Exiting
  BY <1>3, <1>5 DEF Exiting, TypeOK
<1>12. HandleInv'
  BY <1>11 DEF HandleInv, Live, Idle
<1> QED
  BY <1>6, <1>7, <1>8, <1>10, <1>11, <1>12, WorkersKeepEnd

\* An attempt gets a handle from the cache, or a new one.
LEMMA StartAttemptStep ==
    ASSUME SchedulerInv, NEW t \in Tasks, StartAttempt(t)
    PROVE  SchedulerInv'
<1> USE DEF SchedulerInv, StartAttempt, callVars, processVars
<1>1. PICK h \in Handles : AcquireCurlHandle(Lambda, Lambda, h) /\ held' = [held EXCEPT ![t] = h]
  OBVIOUS
<1>2. step[t] = "attempt" /\ step' = [step EXCEPT ![t] = "transfer"]
  OBVIOUS
<1>3. /\ cache' \in [Domains -> Seq(Handles)] /\ shareOf' \in [Handles -> Domains \cup {None}]
      /\ Idle \subseteq Idle' \cup {h} /\ Live' \subseteq Live \cup {h}
  <2>1. CASE Reuse(Lambda, h)
    <3>1. UNCHANGED shareOf
      BY <2>1 DEF Reuse
    <3> QED
      BY <2>1, <3>1, ReuseIdle DEF TypeOK, Live
  <2>2. CASE Create(Lambda, h)
    BY <2>2, LambdaAssumption DEF Create, TypeOK, Live, Idle
  <2> QED
    BY <1>1, <2>1, <2>2 DEF AcquireCurlHandle
<1>4. TypeOK'
  BY <1>1, <1>2, <1>3 DEF TypeOK, sdkVars, mainVars
<1>5. CallInv'
  BY <1>1, <1>2, HandlesAssumption DEF CallInv, TypeOK, poolVars
<1>6. Exiting' = Exiting
  BY <1>2 DEF Exiting, TypeOK
<1>7. statics = "destroyed" => Exiting # {}
  BY <1>2, CallUnderWay DEF EndInv
<1>8. held'[t] = h /\ \A u \in Tasks \ {t} : held'[u] = held[u]
  BY <1>1 DEF TypeOK
<1>9. held[t] = None
  BY <1>2 DEF CallInv
<1>10. None \notin Live
  BY HandlesAssumption DEF Live
<1>11. HandleInv'
  BY <1>3, <1>6, <1>7, <1>8, <1>9, <1>10 DEF HandleInv
<1> QED
  BY <1>4, <1>5, <1>6, <1>11, WorkersKeepMain, WorkersKeepEnd DEF mainVars

\* The service accepts: the handle goes back to the cache.
LEMMA SucceedStep ==
    ASSUME SchedulerInv, NEW t \in Tasks, Succeed(t)
    PROVE  SchedulerInv'
<1> USE DEF SchedulerInv, Succeed, ReleaseCurlHandle, processVars
<1>1. step[t] = "transfer" /\ held[t] \in Handles
  BY DEF TypeOK, CallInv
<1>2. cache' \in [Domains -> Seq(Handles)] /\ Idle \cup {held[t]} \subseteq Idle'
  BY <1>1, ReleaseIdle
<1>3. TypeOK'
  BY <1>2 DEF TypeOK, sdkVars, mainVars
<1>4. CallInv'
  BY <1>1 DEF CallInv, TypeOK, poolVars
<1>5. Exiting' = Exiting
  BY <1>1 DEF Exiting, TypeOK
<1>6. statics = "destroyed" => Exiting # {}
  BY <1>1, CallUnderWay DEF EndInv
<1>7. Live' = Live /\ \A u \in Tasks \ {t} : held'[u] = held[u]
  BY DEF TypeOK, Live
<1>8. HandleInv'
  BY <1>2, <1>5, <1>6, <1>7 DEF HandleInv
<1> QED
  BY <1>3, <1>4, <1>5, <1>8, WorkersKeepMain, WorkersKeepEnd DEF mainVars

\* An attempt fails: the handle goes back to the cache or is destroyed, and the
\* strategy is asked for another attempt.
LEMMA FailStep ==
    ASSUME SchedulerInv, NEW t \in Tasks, Fail(t)
    PROVE  SchedulerInv'
<1> USE DEF SchedulerInv, Fail, processVars
<1>1. step[t] = "transfer" /\ held[t] \in Handles /\ t \notin delivered /\ t \in running
  BY CallUnderWay DEF TypeOK, CallInv
<1>2. /\ cache' \in [Domains -> Seq(Handles)] /\ shareOf' \in [Handles -> Domains \cup {None}]
      /\ Live' \subseteq Live /\ Idle \subseteq Idle'
      /\ held[t] \in Live' => held[t] \in Idle'
  <2>1. CASE ReleaseCurlHandle(Lambda, held[t])
    BY <1>1, <2>1, ReleaseIdle DEF ReleaseCurlHandle, TypeOK, Live
  <2>2. CASE DestroyCurlHandle(held[t])
    BY <1>1, <2>2 DEF DestroyCurlHandle, TypeOK, Live, Idle
  <2> QED
    BY <2>1, <2>2
<1>3. /\ step' \in [Tasks -> {"none", "attempt", "transfer", "done", "exit", "exiting"}]
      /\ step'[t] \in {"attempt", "exit"} /\ \A u \in Tasks \ {t} : step'[u] = step[u]
      /\ attempted' \in [Tasks -> Nat] /\ \A u \in Tasks \ {t} : attempted'[u] = attempted[u]
      /\ step'[t] = "exit" => ~ShouldRetry(attempted'[t])
  BY DEF TypeOK
<1>4. /\ held' \in [Tasks -> Handles \cup {None}] /\ held'[t] = None
      /\ \A u \in Tasks \ {t} : held'[u] = held[u]
  BY DEF TypeOK
<1>5. TypeOK'
  BY <1>2, <1>3, <1>4 DEF TypeOK, sdkVars, mainVars
<1>6. CallInv'
  BY <1>1, <1>3, <1>4 DEF CallInv, poolVars
<1>7. Exiting' = Exiting
  BY <1>1, <1>3 DEF Exiting
<1>8. statics = "destroyed" => Exiting # {}
  BY <1>1, CallUnderWay DEF EndInv
<1>9. HandleInv'
  BY <1>2, <1>4, <1>7, <1>8 DEF HandleInv
<1> QED
  BY <1>5, <1>6, <1>7, <1>9, WorkersKeepMain, WorkersKeepEnd DEF mainVars

\* exit(1): the invocation is neither answered nor tried again.
LEMMA ExitWorkerStep ==
    ASSUME SchedulerInv, NEW t \in Tasks, Exit(t)
    PROVE  SchedulerInv'
<1> USE DEF SchedulerInv, Exit, containerVars, processVars
<1>1. step[t] = "exit"
  OBVIOUS
<1>2. TypeOK'
  BY DEF TypeOK, sdkVars, mainVars
<1>3. CallInv'
  BY <1>1 DEF CallInv, TypeOK, poolVars
<1>4. Exiting \subseteq Exiting' /\ t \in Exiting'
  BY DEF Exiting, TypeOK
<1>5. HandleInv'
  BY <1>4 DEF HandleInv, Live, Idle
<1> QED
  BY <1>2, <1>3, <1>4, <1>5, WorkersKeepMain, WorkersKeepEnd DEF mainVars

\* The lambda returns, and its response is stored.
LEMMA FinishStep ==
    ASSUME SchedulerInv, NEW t \in Tasks, FinishInvoke(t)
    PROVE  SchedulerInv'
<1> USE DEF SchedulerInv, FinishInvoke, containerVars, sdkVars, mainVars, callVars, processVars
<1>1. PoolInv' /\ Waiting' = Waiting
  BY OtherPoolSteps
<1>2. /\ t \in running /\ running' = running \ {t} /\ answered' = answered \cup {t}
      /\ UNCHANGED collected
  BY DEF Finish
<1>3. TypeOK'
  BY DEF TypeOK
<1>4. CallInv'
  BY <1>2 DEF CallInv
<1>5. MainInv'
  BY <1>1, <1>2 DEF MainInv, SdkReady
<1>6. Exiting' = Exiting
  BY DEF Exiting
<1>7. HandleInv'
  BY <1>6 DEF HandleInv, Live, Idle
<1> QED
  BY <1>1, <1>3, <1>4, <1>5, <1>6, <1>7, WorkersKeepEnd

-----------------------------------------------------------------------------
(* The end of the process.                                                 *)

\* The static destructor of the cache: after main has returned it finds every
\* handle in the cache.
LEMMA DestroyCacheStep ==
    ASSUME SchedulerInv, DestroyCache
    PROVE  SchedulerInv'
<1> USE DEF SchedulerInv, DestroyCache, callVars
<1>1. << >> \in Seq(Handles)
  OBVIOUS
<1>2. TypeOK'
  BY <1>1 DEF TypeOK, sdkVars, mainVars
<1>3. CallInv'
  BY DEF CallInv, poolVars
<1>4. Exiting' = Exiting
  BY DEF Exiting
<1>5. EndInv'
  BY <1>4 DEF EndInv, mainVars
<1>6. HandleInv'
  <2>1. ASSUME Exiting = {}
        PROVE  Live' = {}
    <3>1. collected = Tasks
      BY <2>1 DEF MainInv
    <3>2. Live \subseteq Idle
      BY <3>1, CollectedIsQuiet, HandlesAssumption DEF HandleInv, Live
    <3> QED
      BY <3>2 DEF Live, TypeOK
  <2> QED
    BY <1>4, <2>1 DEF HandleInv
<1> QED
  BY <1>2, <1>3, <1>5, <1>6, WorkersKeepMain

\* The process ends: by a signal, with the code of exit(1), or with main's.
LEMMA EndStep ==
    ASSUME SchedulerInv, EndProcess \/ \E t \in Tasks : UseDestroyed(t)
    PROVE  SchedulerInv'
<1> USE DEF SchedulerInv, EndProcess, UseDestroyed, containerVars, callVars
<1>1. UNCHANGED <<poolVars, containerVars, sdkVars, mainVars, callVars, statics>>
  OBVIOUS
<1>2. status' \in {"success", "failure", "signal"} /\ statics = "destroyed"
  OBVIOUS
<1>3. TypeOK'
  BY <1>1, <1>2 DEF TypeOK, sdkVars, mainVars
<1>4. CallInv'
  BY <1>1 DEF CallInv, poolVars
<1>5. Exiting' = Exiting /\ mpc' = mpc
  BY <1>1 DEF Exiting, mainVars
<1>6. ASSUME status' = "success"
      PROVE  mpc = "return"
  BY <1>6 DEF EndInv
<1>7. ASSUME status' \in {"failure", "signal"}
      PROVE  Exiting # {}
  <2>1. CASE EndProcess
    BY <1>7, <2>1
  <2>2. ASSUME NEW t \in Tasks, UseDestroyed(t)
        PROVE  Exiting # {}
    BY <2>2, CallUnderWay DEF EndInv
  <2> QED
    BY <2>1, <2>2
<1>8. EndInv'
  BY <1>2, <1>5, <1>6, <1>7 DEF EndInv
<1>9. HandleInv'
  BY <1>1, <1>5 DEF HandleInv, Live, Idle
<1> QED
  BY <1>1, <1>3, <1>4, <1>8, <1>9, WorkersKeepMain

-----------------------------------------------------------------------------
(* Theorems.                                                               *)

\* Every step of the program keeps the invariant.
LEMMA SchedulerInvNext ==
    ASSUME SchedulerInv, [Next]_vars
    PROVE  SchedulerInv'
<1>1. CASE MainStep
  BY <1>1, StartStep, ProcessResponsesStep, LeaveStep, InvokeStep DEF MainStep
<1>2. CASE BeginInvoke
  BY <1>2, BeginStep
<1>3. CASE ExitStep
  BY <1>3, DestroyCacheStep, EndStep DEF ExitStep
<1>4. ASSUME NEW t \in Tasks, WorkerStep(t)
      PROVE  SchedulerInv'
  BY <1>4, StartAttemptStep, SucceedStep, FailStep, ExitWorkerStep, FinishStep DEF WorkerStep
<1>5. CASE UNCHANGED vars
  <2>1. UNCHANGED <<poolVars, containerVars, sdkVars, mainVars, callVars, processVars>>
    BY <1>5 DEF vars
  <2>2. TypeOK' /\ CallInv' /\ EndInv' /\ HandleInv'
    BY <2>1 DEF SchedulerInv, TypeOK, CallInv, EndInv, HandleInv, Live, Idle, Exiting,
                poolVars, containerVars, sdkVars, mainVars, callVars, processVars
  <2> QED
    BY <2>1, <2>2, WorkersKeepMain DEF SchedulerInv
<1> QED
  BY <1>1, <1>2, <1>3, <1>4, <1>5 DEF Next

\* The invariant of query-bw-scheduler.cc: where each invocation is, what main
\* has counted, where the handles are and why the process ends.
THEOREM SchedulerInvariant == Spec => []SchedulerInv
BY SchedulerInvInit, SchedulerInvNext, PTL DEF Spec

\* The exit code of query-bw-scheduler tells its outcome, for any number of
\* invocations and workers, any retry strategy, and whichever threads are
\* inside exit(1): 0 means that every invocation was accepted and counted.
THEOREM ExitCodeIsTruthful == Spec => []ExitCodeTellsOutcome
BY SchedulerInvariant, SchedulerInvSuffices, PTL

\* The workers of query-bw-scheduler transfer only between initialisation and
\* shut-down of the SDK and of curl, and the static cache is destroyed with
\* every handle in it once main has returned.  The destructor of the cache,
\* which calls curl after the shut-down, is not a worker.
THEOREM ShutdownIsOrderly == Spec => []OrderlyShutdown
BY SchedulerInvariant, SchedulerInvSuffices, PTL

=============================================================================
