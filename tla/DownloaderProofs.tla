-------------------------- MODULE DownloaderProofs --------------------------
(***************************************************************************)
(* Theorems about Downloader, for every pool size, every sequence of       *)
(* InitConnections and ScheduleDownload calls and every number of inits.   *)
(*                                                                         *)
(* The invariant is proved for each operation by itself, so that a module  *)
(* that drives a Downloader with a program of its own can cite the lemmas. *)
(***************************************************************************)
EXTENDS Downloader, TaskPoolProofs

-----------------------------------------------------------------------------
(* The invariant.                                                          *)

Started == running \cup answered \cup collected

\* Where a task is in its lambda, where it is in the pool, and what it has
\* returned fit together.
TaskInv ==
    /\ \A t \in Tasks : step[t] # "none" <=> t \in Started
    /\ \A t \in Tasks : step[t] = "done" <=> result[t] # "none"
    /\ \A t \in answered \cup collected : step[t] = "done"
    /\ \A t \in Downloads : /\ step[t] \in {"none", "get", "done"}
                            /\ result[t] \in {"none", "data", "error"}
    /\ \A t \in Inits : step[t] # "get" /\ result[t] \in {"none", "aborted", "init"}

\* Only inits of the last batch are queued or under way, and none of them is
\* aborted without a download.  A call pushes what it was made to push.
BatchInv ==
    /\ \A t \in Inits \ batch : step[t] \in {"none", "done"} /\ t \notin Waiting
    /\ dpc = "pushInits" => pending \subseteq batch
    /\ dpc \in {"idle", "destroy"} => pending = {}
    /\ dpc \in {"notifyInits", "pushDownload"} => interrupted /\ pending \subseteq Downloads
    /\ ~interrupted => \A t \in batch : result[t] # "aborted"

\* init_counter is the number of arrivals, and it has reached max_init_count
\* when an init is about to notify.
BarrierInv ==
    /\ init_counter \in Nat
    /\ interrupted => init_counter >= PoolSize
    /\ batch # {} /\ ~interrupted => init_counter = Cardinality(Arrived)
    /\ \A t \in Inits : step[t] = "release" => init_counter >= InitCount(t)
    /\ NoStrandedInit
    /\ DownloadsUnblockInits

DlInv == TypeOK /\ PoolInv /\ TaskInv /\ BatchInv /\ BarrierInv

\* The calls a dispatcher may make.
DownloaderCall ==
    \/ \E B \in Batches : InitConnections(B)
    \/ \E d \in Downloads : ScheduleDownload(d)
    \/ ProcessResponses
    \/ DestroyMembers

\* The steps of one task.
TaskMove ==
    \/ \E t \in Inits : InitStep(t) \/ SpuriousWakeup(t)
    \/ \E t \in Downloads : Get(t)
    \/ \E t \in Tasks : FinishTask(t)

\* The steps of the downloader, for case analysis.
LEMMA StepCases ==
    DownloaderStep <=> DispatcherStep \/ BeginTask \/ TaskMove
BY TasksAssumption DEF DownloaderStep, TaskMove, TaskStep

-----------------------------------------------------------------------------
(* Facts about the constants and the sets the invariant counts.            *)

\* A batch and its arrivals are finite, and the arrivals are no more.
LEMMA BatchFacts ==
    ASSUME TypeOK
    PROVE  /\ batch \subseteq Inits /\ IsFiniteSet(batch) /\ Cardinality(batch) \in Nat
           /\ Arrived \subseteq batch /\ IsFiniteSet(Arrived) /\ Cardinality(Arrived) \in Nat
           /\ Cardinality(Arrived) <= Cardinality(batch)
<1>1. batch \subseteq Inits
  BY DEF TypeOK, Inits
<1>2. batch \in SUBSET Tasks
  BY <1>1, TasksAssumption
<1>3. IsFiniteSet(batch)
  BY <1>2, TasksAssumption, FS_Subset
<1>4. Arrived \in SUBSET batch
  BY DEF Arrived
<1> QED
  BY <1>1, <1>3, <1>4, FS_Subset, FS_CardinalityType

\* An init belongs to its batch, which is no larger than the pool.
LEMMA CountFacts ==
    ASSUME NEW t \in Inits
    PROVE  /\ BatchOf(t) \in Batches /\ t \in BatchOf(t)
           /\ InitCount(t) \in Nat /\ InitCount(t) <= PoolSize
<1>1. BatchOf(t) \in Batches /\ t \in BatchOf(t)
  BY DEF Inits, BatchOf
<1>2. BatchOf(t) \in SUBSET Tasks
  BY <1>1, TasksAssumption DEF Inits
<1>3. InitCount(t) \in Nat
  BY <1>2, TasksAssumption, FS_Subset, FS_CardinalityType DEF InitCount
<1> QED
  BY <1>1, <1>3, InitCountAssumption DEF InitCount

\* Every init of the batch captured the size of the batch.
LEMMA CountOfBatch ==
    ASSUME TypeOK, NEW t \in batch
    PROVE  BatchOf(t) = batch /\ InitCount(t) = Cardinality(batch)
<1>1. batch \in Batches /\ t \in Inits
  BY DEF TypeOK, Inits
<1>2. BatchOf(t) = batch
  BY <1>1, CountFacts, TasksAssumption
<1> QED
  BY <1>2 DEF InitCount

\* A barrier that was not opened by a download and is full has seen everyone.
LEMMA FullBarrier ==
    ASSUME TypeOK, BarrierInv, ~interrupted, NEW t \in batch, init_counter >= InitCount(t)
    PROVE  Arrived = batch
<1>1. Cardinality(Arrived) >= Cardinality(batch)
  BY CountOfBatch DEF BarrierInv
<1>2. Cardinality(Arrived) = Cardinality(batch) /\ Arrived \in SUBSET batch
  BY <1>1, BatchFacts
<1> QED
  BY <1>2, BatchFacts, FS_Subset

\* An init that has begun and not ended is one of the batch.
LEMMA UnderWay ==
    ASSUME TypeOK, BatchInv, NEW t \in Inits, step[t] \notin {"none", "done"}
    PROVE  t \in batch
BY DEF BatchInv

-----------------------------------------------------------------------------
(* Types and the pool.                                                     *)

\* Whatever the downloader does, its pool takes a step of the pool or none.
LEMMA PoolPart ==
    ASSUME DownloaderCall \/ DownloaderStep \/ UNCHANGED dlVars
    PROVE  [PoolNext]_poolVars
<1>1. CASE DownloaderCall
  BY <1>1 DEF DownloaderCall, InitConnections, ScheduleDownload, ProcessResponses, DestroyMembers,
              PoolNext
<1>2. CASE DispatcherStep
  BY <1>2 DEF DispatcherStep, PushInit, NotifyInits, PushDownload, DestroyQueue, PoolNext, Submit,
              Unseen
<1>3. CASE BeginTask
  BY <1>3 DEF BeginTask, PoolNext
<1>4. CASE TaskMove
  BY <1>4 DEF TaskMove, InitStep, Abort, Connect, Arrive, Recheck, Release, Miss, EndInit,
              SpuriousWakeup, Get, FinishTask, PoolNext
<1>5. CASE UNCHANGED dlVars
  BY <1>5 DEF dlVars
<1> QED
  BY <1>1, <1>2, <1>3, <1>4, <1>5, StepCases


\* Types, before the first call.
LEMMA DlTypeInit == DownloaderInit => TypeOK
<1> SUFFICES ASSUME DownloaderInit
             PROVE  TypeOK
  OBVIOUS
<1>1. PoolTypeOK
  BY PoolInvInit DEF DownloaderInit, PoolInv
<1>2. init_counter \in Int
  BY PoolSizeAssumption DEF DownloaderInit
<1>3. step \in [Tasks -> Steps] /\ result \in [Tasks -> Results]
  BY DEF DownloaderInit, Steps, Results
<1> QED
  BY <1>1, <1>2, <1>3 DEF DownloaderInit, PoolTypeOK, TypeOK

\* Every step respects the types.
LEMMA DlTypeStep ==
    ASSUME TypeOK, PoolInv', DownloaderCall \/ DownloaderStep \/ UNCHANGED dlVars
    PROVE  TypeOK'
<1>1. /\ queued' \in Seq(Tasks) /\ running' \subseteq Tasks
      /\ answered' \subseteq Tasks /\ collected' \subseteq Tasks
      /\ state' \in {"open", "closing", "closed"}
  BY DEF PoolInv, PoolTypeOK
<1> USE <1>1 DEF TypeOK, dispatchVars, taskVars
<1>2. CASE DownloaderCall
  <2>1. PoolSize \in Int /\ Inits \subseteq Tasks /\ Downloads \subseteq Tasks
    BY PoolSizeAssumption, TasksAssumption
  <2>2. \A B \in Batches : B \subseteq Tasks
    BY <2>1 DEF Inits
  <2>3. ASSUME NEW B \in Batches, InitConnections(B)
        PROVE  TypeOK'
    <3>1. batch' \in Batches \cup {{}} /\ pending' \subseteq Tasks /\ init_counter' \in Int
      BY <2>2, <2>3 DEF InitConnections
    <3>2. interrupted' = FALSE /\ dpc' = "pushInits" /\ UNCHANGED <<alive, step, result>>
      BY <2>3 DEF InitConnections
    <3> QED
      BY <3>1, <3>2
  <2>4. ASSUME NEW d \in Downloads, ScheduleDownload(d)
        PROVE  TypeOK'
    <3>1. {d} \subseteq Tasks
      BY <2>1
    <3> QED
      BY <2>1, <2>4, <3>1 DEF ScheduleDownload
  <2>5. CASE ProcessResponses \/ DestroyMembers
    BY <2>5 DEF ProcessResponses, DestroyMembers
  <2> QED
    BY <1>2, <2>3, <2>4, <2>5 DEF DownloaderCall
<1>3. CASE DispatcherStep
  <2>1. WakeAll(step) \in [Tasks -> Steps]
    BY DEF WakeAll, Steps
  <2> QED
    BY <1>3, <2>1 DEF DispatcherStep, PushInit, NotifyInits, PushDownload, DestroyQueue
<1>4. CASE BeginTask
  BY <1>4 DEF BeginTask, Goto, Steps
<1>5. CASE TaskMove
  <2>1. ASSUME NEW t \in Inits, InitStep(t) \/ SpuriousWakeup(t)
        PROVE  TypeOK'
    <3>1. CASE Release(t)
      BY <3>1 DEF Release, WakeAll, Steps
    <3>2. CASE Arrive(t) \/ Miss(t)
      BY <3>2 DEF Arrive, Miss, Goto, Steps
    <3>3. CASE Abort(t) \/ Connect(t) \/ Recheck(t) \/ EndInit(t) \/ SpuriousWakeup(t)
      BY <3>3 DEF Abort, Connect, Recheck, EndInit, SpuriousWakeup, Goto, Steps, Results
    <3> QED
      BY <2>1, <3>1, <3>2, <3>3 DEF InitStep
  <2>2. ASSUME NEW t \in Tasks, Get(t) \/ FinishTask(t)
        PROVE  TypeOK'
    BY <2>2 DEF Get, FinishTask, Goto, Steps, Results
  <2> QED
    BY <1>5, <2>1, <2>2, TasksAssumption DEF TaskMove
<1>6. CASE UNCHANGED dlVars
  BY <1>6 DEF dlVars
<1> QED
  BY <1>2, <1>3, <1>4, <1>5, <1>6, StepCases

-----------------------------------------------------------------------------
(* Tasks and the pool.                                                     *)

\* Before the first call there is no task.
LEMMA TaskInvInit == DownloaderInit => TaskInv
BY TasksAssumption DEF DownloaderInit, PoolInit, TaskInv, Started

\* A step that pushes a task or none.
LEMMA TaskInvFrame ==
    ASSUME TaskInv, UNCHANGED <<running, taskVars>>,
           answered' \cup collected' = answered \cup collected
    PROVE  TaskInv'
BY DEF TaskInv, Started, taskVars

\* The first step of a call moves no task.
LEMMA TaskInvCall ==
    ASSUME TaskInv, DownloaderCall
    PROVE  TaskInv'
BY TaskInvFrame DEF DownloaderCall, InitConnections, ScheduleDownload, ProcessResponses,
                    DestroyMembers, Collect, poolVars, taskVars

\* The rest of a call: pushes, wake-ups and the end of the queue.
LEMMA TaskInvDispatch ==
    ASSUME TypeOK, TaskInv, DispatcherStep
    PROVE  TaskInv'
<1>1. CASE NotifyInits
  <2>1. \A t \in Tasks : step[t] = step'[t] \/ (step[t] = "blocked" /\ step'[t] = "recheck")
    BY <1>1 DEF NotifyInits, WakeAll, Blocked, TypeOK
  <2>2. UNCHANGED <<poolVars, result>>
    BY <1>1 DEF NotifyInits
  <2>3. answered \subseteq Tasks /\ collected \subseteq Tasks
        /\ Inits \subseteq Tasks /\ Downloads \subseteq Tasks
    BY TasksAssumption DEF TypeOK
  <2> QED
    BY <2>1, <2>2, <2>3 DEF TaskInv, Started, poolVars
<1>2. CASE ~NotifyInits
  BY <1>2, TaskInvFrame DEF DispatcherStep, PushInit, PushDownload, DestroyQueue, Submit,
                            BeginClose, EndClose, taskVars
<1> QED
  BY <1>1, <1>2

\* A worker calls the lambda of the task it has popped.
LEMMA TaskInvBegin ==
    ASSUME TypeOK, PoolInv, TaskInv, BeginTask
    PROVE  TaskInv'
<1> DEFINE h == Head(queued)
<1>1. h \in Waiting /\ h \in Tasks
  BY BeginWaiting DEF BeginTask, PoolInv, PoolTypeOK, Waiting
<1>2. /\ running' = running \cup {h} /\ UNCHANGED <<answered, collected, result>>
      /\ step' = [step EXCEPT ![h] = IF h \in Inits THEN "check" ELSE "get"]
  BY DEF BeginTask, Begin, Goto
<1>3. h \notin Started /\ step[h] = "none" /\ result[h] = "none"
  BY <1>1 DEF PoolInv, OnePlace, TaskInv, Started
<1> HIDE DEF h
<1> QED
  BY <1>1, <1>2, <1>3, TasksAssumption DEF TaskInv, Started, TypeOK

\* A task goes on.
LEMMA TaskInvMove ==
    ASSUME TypeOK, TaskInv, TaskMove
    PROVE  TaskInv'
<1>0. Inits \subseteq Tasks /\ Downloads \subseteq Tasks /\ Inits \cap Downloads = {}
      /\ answered \subseteq Tasks /\ collected \subseteq Tasks
  BY TasksAssumption DEF TypeOK
<1>1. ASSUME NEW t \in Inits, InitStep(t) \/ SpuriousWakeup(t)
      PROVE  TaskInv'
  <2>1. UNCHANGED poolVars
    BY <1>1 DEF InitStep, Abort, Connect, Arrive, Recheck, Release, Miss, EndInit, SpuriousWakeup
  <2>2. step[t] \notin {"none", "done"} /\ t \in Started
    BY <1>0, <1>1 DEF InitStep, Abort, Connect, Arrive, Recheck, Release, Miss, EndInit,
                      SpuriousWakeup, Goto, TaskInv
  <2>3. \A u \in Tasks \ {t} :
           /\ step'[u] = step[u] \/ (step[u] = "blocked" /\ step'[u] = "recheck")
           /\ result'[u] = result[u]
    BY <1>1 DEF InitStep, Abort, Connect, Arrive, Recheck, Release, Miss, EndInit,
                SpuriousWakeup, Goto, WakeAll, Blocked, TypeOK
  <2>4. /\ step'[t] \notin {"none", "get"}
        /\ result'[t] \in {"none", "aborted", "init"}
        /\ step'[t] = "done" <=> result'[t] # "none"
    BY <1>0, <1>1, <2>2 DEF InitStep, Abort, Connect, Arrive, Recheck, Release, Miss, EndInit,
                SpuriousWakeup, Goto, WakeAll, Blocked, TypeOK, TaskInv
  <2> QED
    BY <1>0, <2>1, <2>2, <2>3, <2>4 DEF TaskInv, Started, poolVars
<1>2. ASSUME NEW t \in Downloads, Get(t)
      PROVE  TaskInv'
  BY <1>0, <1>2 DEF Get, Goto, TaskInv, Started, poolVars, TypeOK
<1>3. ASSUME NEW t \in Tasks, FinishTask(t)
      PROVE  TaskInv'
  <2>1. /\ running' = running \ {t} /\ answered' = answered \cup {t} /\ t \in running
        /\ UNCHANGED <<collected, step, result>> /\ step[t] = "done"
    BY <1>3 DEF FinishTask, Finish, taskVars
  <2> QED
    BY <2>1 DEF TaskInv, Started
<1> QED
  BY <1>1, <1>2, <1>3 DEF TaskMove

\* Every step keeps task, pool and result in agreement.
LEMMA TaskInvStep ==
    ASSUME TypeOK, PoolInv, TaskInv, DownloaderCall \/ DownloaderStep \/ UNCHANGED dlVars
    PROVE  TaskInv'
<1>1. CASE UNCHANGED dlVars
  BY <1>1, TaskInvFrame DEF dlVars, poolVars
<1> QED
  BY <1>1, TaskInvCall, TaskInvDispatch, TaskInvBegin, TaskInvMove, StepCases

-----------------------------------------------------------------------------
(* The batch.                                                              *)

\* A call that finds the inits of the last batch complete finds no init under
\* way: an init that has a result is not in the queue.
LEMMA AllQuiet ==
    ASSUME TypeOK, PoolInv, TaskInv, BatchInv, \A t \in batch : result[t] # "none"
    PROVE  \A t \in Inits : step[t] \in {"none", "done"} /\ (t \in batch => t \notin Waiting)
<1>1. \A t \in batch : t \in Tasks /\ step[t] = "done" /\ t \in Started
  BY BatchFacts, TasksAssumption DEF TaskInv
<1>2. \A t \in Started : t \notin Waiting
  BY DEF Started, PoolInv, OnePlace
<1> QED
  BY <1>1, <1>2 DEF BatchInv

\* A step that moves no init but those of the batch.
LEMMA BatchFrame ==
    ASSUME BatchInv, UNCHANGED <<batch, interrupted, dpc, pending>>,
           Waiting' \subseteq Waiting,
           \A t \in Inits \ batch : step'[t] = step[t],
           ~interrupted => \A t \in batch : result'[t] = "aborted" => result[t] = "aborted"
    PROVE  BatchInv'
BY DEF BatchInv

\* Before the first call there is no batch.
LEMMA BatchInvInit == DownloaderInit => BatchInv
BY TasksAssumption DEF DownloaderInit, PoolInit, BatchInv, Waiting

\* InitConnections names the batch before it pushes it.
LEMMA BatchInvCall ==
    ASSUME TypeOK, PoolInv, TaskInv, BatchInv, DownloaderCall
    PROVE  BatchInv'
<1>1. UNCHANGED <<queued, step, result>> /\ Waiting' = Waiting
  BY DEF DownloaderCall, InitConnections, ScheduleDownload, ProcessResponses, DestroyMembers,
         Collect, poolVars, taskVars, Waiting
<1>2. ASSUME NEW B \in Batches, InitConnections(B)
      PROVE  BatchInv'
  <2>1. \A t \in Inits : step[t] \in {"none", "done"} /\ (t \in batch => t \notin Waiting)
    BY <1>2, AllQuiet DEF InitConnections
  <2>2. \A t \in B : t \in Tasks /\ t \notin Started /\ result[t] = "none"
    BY <1>2 DEF InitConnections, Unseen, Started, TaskInv
  <2>3. batch' = B /\ pending' = B /\ dpc' = "pushInits"
    BY <1>2 DEF InitConnections
  <2> QED
    BY <1>1, <2>1, <2>2, <2>3 DEF BatchInv
<1>3. ASSUME NEW d \in Downloads, ScheduleDownload(d)
      PROVE  BatchInv'
  BY <1>1, <1>3 DEF ScheduleDownload, BatchInv
<1>4. CASE ProcessResponses \/ DestroyMembers
  BY <1>1, <1>4 DEF ProcessResponses, DestroyMembers, dispatchVars, BatchInv
<1> QED
  BY <1>2, <1>3, <1>4 DEF DownloaderCall

\* Each init of the batch is pushed at most once.
LEMMA BatchInvDispatch ==
    ASSUME TypeOK, PoolInv, BatchInv, DispatcherStep
    PROVE  BatchInv'
<1>0. PoolTypeOK
  BY DEF PoolInv
<1>1. ASSUME NEW t \in Inits, PushInit(t)
      PROVE  BatchInv'
  <2>1. t \in batch /\ t \in Tasks /\ Submit(t)
    BY <1>1, TasksAssumption DEF PushInit, BatchInv
  <2>2. Waiting' = Waiting \cup {t}
    BY <1>0, <2>1, SubmitWaiting
  <2> QED
    BY <1>1, <2>1, <2>2 DEF PushInit, BatchInv, taskVars
<1>2. CASE NotifyInits
  <2>1. Waiting' = Waiting
    BY <1>2 DEF NotifyInits, poolVars, Waiting
  <2>2. \A t \in Inits \ batch : step'[t] = step[t]
    BY <1>2, TasksAssumption DEF NotifyInits, WakeAll, Blocked, BatchInv
  <2> QED
    BY <1>2, <2>1, <2>2 DEF NotifyInits, BatchInv
<1>3. CASE PushDownload
  <2>1. PICK d \in pending : Submit(d)
    BY <1>3 DEF PushDownload
  <2>2. d \in Downloads /\ d \in Tasks /\ d \notin Inits
    BY <1>3, TasksAssumption DEF PushDownload, BatchInv
  <2>3. Waiting' = Waiting \cup {d}
    BY <1>0, <2>1, <2>2, SubmitWaiting
  <2> QED
    BY <1>3, <2>2, <2>3 DEF PushDownload, BatchInv, taskVars
<1>4. CASE DestroyQueue
  <2>1. Waiting' = Waiting
    BY <1>4 DEF DestroyQueue, BeginClose, EndClose, Waiting
  <2> QED
    BY <1>4, <2>1, BatchFrame DEF DestroyQueue, dispatchVars, taskVars
<1> QED
  BY <1>1, <1>2, <1>3, <1>4 DEF DispatcherStep

\* Only tasks of the batch, or downloads, are in the queue to begin.
LEMMA BatchInvBegin ==
    ASSUME TypeOK, PoolInv, BatchInv, BeginTask
    PROVE  BatchInv'
<1> DEFINE h == Head(queued)
<1>1. h \in Waiting /\ Waiting' \subseteq Waiting
  BY BeginWaiting DEF BeginTask, PoolInv
<1>2. /\ step' = [step EXCEPT ![h] = IF h \in Inits THEN "check" ELSE "get"]
      /\ UNCHANGED <<batch, interrupted, dpc, pending, result>>
  BY DEF BeginTask, Goto, dispatchVars
<1> HIDE DEF h
<1>3. h \notin Inits \ batch
  BY <1>1 DEF BatchInv
<1>4. \A t \in Inits \ batch : step'[t] = step[t]
  BY <1>2, <1>3 DEF TypeOK
<1> QED
  BY <1>1, <1>2, <1>4, BatchFrame

\* No init is told to give up while no download is scheduled: the barrier can
\* only be full when the init itself has arrived.
LEMMA BatchInvMove ==
    ASSUME TypeOK, PoolInv, TaskInv, BatchInv, BarrierInv, TaskMove
    PROVE  BatchInv'
<1>0. Inits \subseteq Tasks /\ Inits \cap Downloads = {}
  BY TasksAssumption
<1>1. ASSUME NEW t \in Inits, InitStep(t) \/ SpuriousWakeup(t)
      PROVE  BatchInv'
  <2>1. UNCHANGED <<poolVars, batch, interrupted, dpc, pending>>
    BY <1>1 DEF InitStep, Abort, Connect, Arrive, Recheck, Release, Miss, EndInit, SpuriousWakeup,
                dispatchVars
  <2>2. step[t] \notin {"none", "done"}
    BY <1>1 DEF InitStep, Abort, Connect, Arrive, Recheck, Release, Miss, EndInit, SpuriousWakeup,
                Goto
  <2>3. t \in batch
    BY <2>2, UnderWay
  <2>4. \A u \in Inits \ batch : u \notin Blocked /\ u # t
    BY <2>3 DEF BatchInv, Blocked
  <2>5. \A u \in Inits \ batch : step'[u] = step[u]
    BY <1>0, <1>1, <2>4 DEF InitStep, Abort, Connect, Arrive, Recheck, Release, Miss, EndInit,
                            SpuriousWakeup, Goto, WakeAll, TypeOK
  <2>6. ~interrupted => ~Abort(t)
    <3> SUFFICES ASSUME ~interrupted, Abort(t)
                 PROVE  FALSE
      OBVIOUS
    <3>1. Arrived = batch /\ step[t] = "check"
      BY <2>3, FullBarrier DEF Abort, Goto
    <3>2. result[t] = "init"
      BY <2>3, <3>1 DEF Arrived, AtBarrier
    <3> QED
      BY <1>0, <3>1, <3>2 DEF TaskInv
  <2>7. ~Abort(t) => \A u \in Tasks : result'[u] = "aborted" => result[u] = "aborted"
    BY <1>1 DEF InitStep, Connect, Arrive, Recheck, Release, Miss, EndInit, SpuriousWakeup, TypeOK
  <2> QED
    BY <1>0, <2>1, <2>5, <2>6, <2>7, BatchFacts, BatchFrame DEF poolVars, Waiting
<1>2. ASSUME NEW t \in Downloads, Get(t)
      PROVE  BatchInv'
  <2>1. /\ \A u \in Inits : step'[u] = step[u] /\ result'[u] = result[u]
        /\ UNCHANGED <<queued, batch, interrupted, dpc, pending>>
    BY <1>0, <1>2 DEF Get, Goto, TypeOK, poolVars, dispatchVars
  <2> QED
    BY <2>1, BatchFacts, BatchFrame DEF Waiting
<1>3. ASSUME NEW t \in Tasks, FinishTask(t)
      PROVE  BatchInv'
  BY <1>3, BatchFrame DEF FinishTask, Finish, dispatchVars, taskVars, Waiting
<1> QED
  BY <1>1, <1>2, <1>3 DEF TaskMove

\* Every step keeps the inits of other batches out of the way.
LEMMA BatchInvStep ==
    ASSUME DlInv, DownloaderCall \/ DownloaderStep \/ UNCHANGED dlVars
    PROVE  BatchInv'
<1>1. CASE UNCHANGED dlVars
  BY <1>1, BatchFrame DEF DlInv, dlVars, poolVars, dispatchVars, taskVars, Waiting
<1> QED
  BY <1>1, BatchInvCall, BatchInvDispatch, BatchInvBegin, BatchInvMove, StepCases DEF DlInv

-----------------------------------------------------------------------------
(* The barrier.                                                            *)

\* A step that counts nobody: it leaves the arrivals alone, and an init goes to
\* sleep only at a closed barrier.
LEMMA BarrierFrame ==
    ASSUME TypeOK, BarrierInv, UNCHANGED <<init_counter, batch, interrupted>>,
           Arrived' = Arrived,
           dpc = "notifyInits" => dpc' = "notifyInits" \/ Blocked' = {},
           dpc' = "notifyInits" => dpc = "notifyInits",
           \A t \in Blocked' : t \in Blocked \/ init_counter < InitCount(t),
           \A t \in Inits : step'[t] = "release" => step[t] = "release",
           \A t \in Inits : step[t] = "release" => step'[t] = "release" \/ Blocked' = {}
    PROVE  BarrierInv'
<1>1. \A t \in Inits : init_counter \in Int /\ PoolSize \in Int /\ InitCount(t) \in Int
                       /\ InitCount(t) <= PoolSize
  BY CountFacts, PoolSizeAssumption DEF TypeOK
<1>2. Blocked' \subseteq Inits
  BY DEF Blocked
<1>3. NoStrandedInit'
  BY <1>1, <1>2 DEF BarrierInv, NoStrandedInit
<1>4. DownloadsUnblockInits'
  BY <1>1, <1>2 DEF BarrierInv, DownloadsUnblockInits
<1> QED
  BY <1>1, <1>3, <1>4 DEF BarrierInv

\* Nothing that the barrier looks at changes.
LEMMA BarrierQuiet ==
    ASSUME TypeOK, BarrierInv, UNCHANGED <<init_counter, batch, interrupted, step, result>>,
           dpc' = "notifyInits" <=> dpc = "notifyInits"
    PROVE  BarrierInv'
<1>1. Arrived' = Arrived /\ Blocked' = Blocked
  BY DEF Arrived, Blocked
<1> QED
  BY <1>1, BarrierFrame

\* Before the first call nobody waits.
LEMMA BarrierInvInit == DownloaderInit => BarrierInv
BY PoolSizeAssumption, TasksAssumption
   DEF DownloaderInit, BarrierInv, NoStrandedInit, DownloadsUnblockInits, Blocked

\* A new batch starts to count at zero; a download opens the barrier.
LEMMA BarrierInvCall ==
    ASSUME DlInv, DownloaderCall
    PROVE  BarrierInv'
<1> USE DEF DlInv
<1>1. ASSUME NEW B \in Batches, InitConnections(B)
      PROVE  BarrierInv'
  <2>1. \A t \in Inits : step[t] \in {"none", "done"}
    BY <1>1, AllQuiet DEF InitConnections
  <2>2. \A t \in B : t \in Inits /\ t \in Tasks /\ t \notin Started
    BY <1>1, TasksAssumption DEF InitConnections, Unseen, Started, Inits
  <2>3. \A t \in B : step[t] = "none" /\ result[t] = "none"
    BY <2>2 DEF TaskInv
  <2>4. /\ init_counter' = 0 /\ batch' = B /\ interrupted' = FALSE
        /\ UNCHANGED <<step, result>>
    BY <1>1 DEF InitConnections, taskVars
  <2>5. Arrived' = {} /\ Blocked' = {}
    BY <2>1, <2>3, <2>4 DEF Arrived, Blocked, AtBarrier
  <2>6. Cardinality(Arrived') = 0
    BY <2>5, FS_EmptySet
  <2> QED
    BY <2>1, <2>4, <2>5, <2>6 DEF BarrierInv, NoStrandedInit, DownloadsUnblockInits
<1>2. ASSUME NEW d \in Downloads, ScheduleDownload(d)
      PROVE  BarrierInv'
  BY <1>2, CountFacts, PoolSizeAssumption
     DEF ScheduleDownload, BarrierInv, NoStrandedInit, DownloadsUnblockInits, taskVars
<1>3. CASE ProcessResponses \/ DestroyMembers
  BY <1>3, BarrierQuiet DEF ProcessResponses, DestroyMembers, dispatchVars, taskVars
<1> QED
  BY <1>1, <1>2, <1>3 DEF DownloaderCall

\* Whoever was asleep when the barrier opened is woken before the call goes on.
LEMMA BarrierInvDispatch ==
    ASSUME DlInv, DispatcherStep
    PROVE  BarrierInv'
<1> USE DEF DlInv
<1>1. CASE NotifyInits
  <2>1. UNCHANGED <<init_counter, batch, interrupted, result>> /\ step' = WakeAll(step)
    BY <1>1 DEF NotifyInits
  <2>2. \A t \in Inits : /\ step'[t] # "blocked"
                         /\ step'[t] = IF step[t] = "blocked" THEN "recheck" ELSE step[t]
    BY <2>1, TasksAssumption DEF WakeAll, Blocked
  <2>3. Blocked' = {} /\ Arrived' = Arrived
    BY <2>1, <2>2, BatchFacts DEF Blocked, Arrived, AtBarrier
  <2> QED
    BY <1>1, <2>1, <2>2, <2>3, BarrierFrame DEF NotifyInits
<1>2. CASE ~NotifyInits
  BY <1>2, BarrierQuiet DEF DispatcherStep, PushInit, PushDownload, DestroyQueue, dispatchVars,
                            taskVars
<1> QED
  BY <1>1, <1>2

\* A task that begins has not been at the barrier.
LEMMA BarrierInvBegin ==
    ASSUME DlInv, BeginTask
    PROVE  BarrierInv'
<1> USE DEF DlInv
<1> DEFINE h == Head(queued)
<1>1. h \in Tasks
  BY BeginWaiting DEF BeginTask, PoolInv, PoolTypeOK, Waiting
<1>2. /\ step[h] = "none" /\ step' = [step EXCEPT ![h] = IF h \in Inits THEN "check" ELSE "get"]
      /\ UNCHANGED <<init_counter, batch, interrupted, dpc, result>>
  BY DEF BeginTask, Goto, dispatchVars
<1> HIDE DEF h
<1>3. \A t \in Inits : \/ step'[t] = step[t]
                       \/ step[t] = "none" /\ step'[t] = "check"
  BY <1>1, <1>2, TasksAssumption DEF TypeOK
<1>4. Blocked' = Blocked /\ Arrived' = Arrived
  BY <1>2, <1>3, BatchFacts DEF Blocked, Arrived, AtBarrier
<1> QED
  BY <1>2, <1>3, <1>4, BarrierFrame

\* An init that comes to the barrier or misses it is counted.  If it is the last
\* of those that sleep there, it is about to notify them.
LEMMA BarrierInvCount ==
    ASSUME DlInv, NEW t \in Inits, Arrive(t) \/ Miss(t)
    PROVE  BarrierInv'
<1> USE DEF DlInv
<1>1. /\ init_counter' = init_counter + 1 /\ UNCHANGED <<batch, interrupted, dpc, result>>
      /\ step[t] = "connect" /\ step' = [step EXCEPT ![t] = step'[t]]
      /\ step'[t] \in {"blocked", "release", "reply"}
  BY TasksAssumption DEF Arrive, Miss, Goto, dispatchVars, TypeOK
<1>2. step'[t] = "blocked" => init_counter' < InitCount(t)
  BY TasksAssumption DEF Arrive, Miss, Goto, TypeOK
<1>3. step'[t] = "release" => init_counter' >= InitCount(t)
  BY TasksAssumption, CountFacts DEF Arrive, Miss, Goto, TypeOK
<1>4. init_counter' = InitCount(t) => step'[t] = "release"
  BY TasksAssumption, CountFacts DEF Arrive, Miss, Goto, TypeOK
<1>5. t \in batch /\ result[t] = "none"
  BY <1>1, UnderWay, TasksAssumption DEF TaskInv
<1>6. \A u \in Inits \ {t} : step'[u] = step[u]
  BY <1>1, TasksAssumption DEF TypeOK
<1>7. Arrived' = Arrived \cup {t} /\ t \notin Arrived
  BY <1>1, <1>5, <1>6, BatchFacts DEF Arrived, AtBarrier
<1>8. Cardinality(Arrived') = Cardinality(Arrived) + 1
  BY <1>7, BatchFacts, FS_AddElement
<1>9. \A u \in Inits : InitCount(u) \in Nat /\ InitCount(u) <= PoolSize
  BY CountFacts
<1>10. init_counter \in Nat /\ PoolSize \in Nat
  BY PoolSizeAssumption DEF BarrierInv
<1>11. \A u \in Blocked : InitCount(u) = InitCount(t)
  BY <1>5, UnderWay, CountOfBatch DEF Blocked
<1>12. Blocked' \subseteq Blocked \cup {t}
  BY <1>6 DEF Blocked
<1>13. NoStrandedInit'
  <2> SUFFICES ASSUME NEW u \in Blocked', init_counter' >= InitCount(u)
               PROVE  dpc' = "notifyInits" \/ \E v \in Inits : step'[v] = "release"
    BY <1>12 DEF NoStrandedInit, Blocked
  <2>1. u # t
    BY <1>2, <1>9, <1>10, <1>1 DEF Blocked
  <2>2. u \in Blocked /\ InitCount(u) = InitCount(t)
    BY <2>1, <1>11, <1>12
  <2>3. CASE init_counter >= InitCount(u)
    BY <2>2, <2>3, <1>1, <1>6 DEF BarrierInv, NoStrandedInit
  <2>4. CASE init_counter < InitCount(u)
    BY <2>2, <2>4, <1>1, <1>4, <1>9, <1>10
  <2>5. u \in Inits
    BY <2>2 DEF Blocked
  <2> QED
    BY <2>3, <2>4, <2>5, <1>9, <1>10
<1>14. DownloadsUnblockInits'
  BY <1>1, <1>2, <1>9, <1>10, <1>12 DEF BarrierInv, DownloadsUnblockInits, Blocked
<1>15. \A u \in Inits : step'[u] = "release" => init_counter' >= InitCount(u)
  BY <1>1, <1>3, <1>6, <1>9, <1>10 DEF BarrierInv
<1> QED
  BY <1>1, <1>8, <1>10, <1>13, <1>14, <1>15 DEF BarrierInv

\* The last arrival leaves nobody behind.
LEMMA BarrierInvRelease ==
    ASSUME DlInv, NEW t \in Inits, Release(t)
    PROVE  BarrierInv'
<1> USE DEF DlInv
<1>1. UNCHANGED <<init_counter, batch, interrupted, dpc, result>> /\ step[t] = "release"
  BY DEF Release, dispatchVars
<1>2. /\ \A u \in Inits \ {t} : step'[u] = IF step[u] = "blocked" THEN "recheck" ELSE step[u]
      /\ step'[t] = "reply"
  BY TasksAssumption DEF Release, WakeAll, Blocked
<1>3. Blocked' = {} /\ Arrived' = Arrived
  BY <1>1, <1>2, BatchFacts DEF Blocked, Arrived, AtBarrier
<1> QED
  BY <1>1, <1>2, <1>3, BarrierFrame

\* The other steps of an init.
LEMMA BarrierInvPass ==
    ASSUME DlInv, NEW t \in Inits,
           Abort(t) \/ Connect(t) \/ Recheck(t) \/ EndInit(t) \/ SpuriousWakeup(t)
    PROVE  BarrierInv'
<1> USE DEF DlInv
<1>1. /\ UNCHANGED <<init_counter, batch, interrupted, dpc>>
      /\ step' = [step EXCEPT ![t] = step'[t]]
      /\ step[t] # "release" /\ step'[t] # "release"
      /\ step'[t] = "blocked" => init_counter < InitCount(t)
  BY TasksAssumption DEF Abort, Connect, Recheck, EndInit, SpuriousWakeup, Goto, dispatchVars, TypeOK
<1>2. \A u \in Inits \ {t} : step'[u] = step[u] /\ result'[u] = result[u]
  BY TasksAssumption DEF Abort, Connect, Recheck, EndInit, SpuriousWakeup, Goto, TypeOK
<1>3. (step'[t] \in AtBarrier \cup {"reply"} \/ result'[t] = "init")
       <=> (step[t] \in AtBarrier \cup {"reply"} \/ result[t] = "init")
  BY TasksAssumption DEF Abort, Connect, Recheck, EndInit, SpuriousWakeup, Goto, TypeOK, AtBarrier,
                         TaskInv
<1>4. Arrived' = Arrived
  BY <1>1, <1>2, <1>3, BatchFacts DEF Arrived
<1>5. \A u \in Blocked' : u \in Blocked \/ init_counter < InitCount(u)
  BY <1>1, <1>2 DEF Blocked
<1> QED
  BY <1>1, <1>2, <1>4, <1>5, BarrierFrame

\* Every step of a task keeps the barrier: arrivals are counted once.
LEMMA BarrierInvMove ==
    ASSUME DlInv, TaskMove
    PROVE  BarrierInv'
<1> USE DEF DlInv
<1>1. ASSUME NEW t \in Inits, InitStep(t) \/ SpuriousWakeup(t)
      PROVE  BarrierInv'
  BY <1>1, BarrierInvCount, BarrierInvRelease, BarrierInvPass DEF InitStep
<1>2. ASSUME NEW t \in Downloads, Get(t)
      PROVE  BarrierInv'
  <2>1. /\ \A u \in Inits : step'[u] = step[u] /\ result'[u] = result[u]
        /\ UNCHANGED <<init_counter, batch, interrupted, dpc>>
    BY <1>2, TasksAssumption DEF Get, Goto, TypeOK, dispatchVars
  <2>2. Arrived' = Arrived /\ Blocked' = Blocked
    BY <2>1, BatchFacts DEF Arrived, Blocked
  <2> QED
    BY <2>1, <2>2, BarrierFrame
<1>3. ASSUME NEW t \in Tasks, FinishTask(t)
      PROVE  BarrierInv'
  BY <1>3, BarrierQuiet DEF FinishTask, dispatchVars, taskVars
<1> QED
  BY <1>1, <1>2, <1>3 DEF TaskMove

-----------------------------------------------------------------------------
(* The invariant of a Downloader, whatever its dispatcher does.            *)

\* The invariant holds before the first call.
LEMMA DlInvInit == DownloaderInit => DlInv
BY DlTypeInit, PoolInvInit, TaskInvInit, BatchInvInit, BarrierInvInit DEF DlInv, DownloaderInit

\* The invariant is inductive.
LEMMA DlInvStep ==
    ASSUME DlInv, DownloaderCall \/ DownloaderStep \/ UNCHANGED dlVars
    PROVE  DlInv'
<1>1. PoolInv'
  BY PoolPart, PoolStep DEF DlInv
<1>2. TypeOK' /\ TaskInv' /\ BatchInv'
  BY <1>1, DlTypeStep, TaskInvStep, BatchInvStep DEF DlInv
<1>3. ASSUME UNCHANGED dlVars
      PROVE  BarrierInv'
  BY <1>3, BarrierQuiet DEF DlInv, dlVars, dispatchVars, taskVars
<1>4. BarrierInv'
  BY <1>3, BarrierInvCall, BarrierInvDispatch, BarrierInvBegin, BarrierInvMove, StepCases
<1> QED
  BY <1>1, <1>2, <1>4 DEF DlInv

\* What a Downloader guarantees to the program of a dispatcher, in one state.
LEMMA DlInvConsequences ==
    ASSUME DlInv
    PROVE  TypeOK /\ CounterCountsArrivals /\ NoStrandedInit /\ DownloadsUnblockInits
BY DEF DlInv, BarrierInv, CounterCountsArrivals

\* An init leaves the barrier by Recheck or Release, and only a barrier that is
\* open lets it go.
LEMMA HeldStep ==
    ASSUME DlInv, DownloaderCall \/ DownloaderStep \/ UNCHANGED dlVars,
           NEW t \in Inits, step[t] \in AtBarrier, step'[t] = "reply"
    PROVE  interrupted \/ BatchOf(t) = Arrived
<1> USE DEF DlInv
<1>1. t \in batch
  BY UnderWay DEF AtBarrier
<1>2. SUFFICES init_counter >= InitCount(t)
  BY <1>1, <1>2, FullBarrier, CountOfBatch
<1>3. CASE step[t] = "release"
  BY <1>3 DEF BarrierInv
<1>4. CASE step[t] # "release"
  <2>1. Recheck(t)
    <3>1. CASE DownloaderCall \/ UNCHANGED dlVars
      BY <3>1 DEF DownloaderCall, InitConnections, ScheduleDownload, ProcessResponses,
                  DestroyMembers, dlVars, taskVars, AtBarrier
    <3>2. CASE DispatcherStep
      BY <3>2, TasksAssumption DEF DispatcherStep, PushInit, NotifyInits, PushDownload, DestroyQueue,
                  WakeAll, taskVars, AtBarrier
    <3>3. CASE BeginTask
      <4>1. Head(queued) \in Tasks
        BY <3>3, BeginWaiting DEF BeginTask, PoolInv, PoolTypeOK, Waiting
      <4> QED
        BY <3>3, <4>1, TasksAssumption DEF BeginTask, Goto, AtBarrier, TypeOK
    <3>4. ASSUME NEW u \in Inits, InitStep(u) \/ SpuriousWakeup(u), u # t
          PROVE  FALSE
      BY <3>4, TasksAssumption DEF InitStep, Abort, Connect, Arrive, Recheck, Release, Miss, EndInit,
                  SpuriousWakeup, Goto, WakeAll, AtBarrier, TypeOK
    <3>5. ASSUME InitStep(t) \/ SpuriousWakeup(t)
          PROVE  Recheck(t)
      BY <3>5, <1>4, TasksAssumption DEF InitStep, Abort, Connect, Arrive, Recheck, Release, Miss,
                  EndInit, SpuriousWakeup, Goto, AtBarrier, TypeOK
    <3>6. ASSUME NEW u \in Tasks, (u \in Downloads /\ Get(u)) \/ FinishTask(u)
          PROVE  FALSE
      BY <3>6, TasksAssumption DEF Get, FinishTask, Goto, taskVars, AtBarrier, TypeOK
    <3> QED
      BY <3>1, <3>2, <3>3, <3>4, <3>5, <3>6, StepCases, TasksAssumption DEF TaskMove
  <2>2. init_counter \in Int /\ InitCount(t) \in Int
    BY CountFacts DEF TypeOK
  <2> QED
    BY <2>1, <2>2, TasksAssumption DEF Recheck, Goto, TypeOK
<1> QED
  BY <1>3, <1>4

-----------------------------------------------------------------------------
(* The dispatcher of Downloader, which makes any calls the header allows.  *)

\* Next, as the steps the lemmas speak of.
LEMMA NextSteps ==
    ASSUME [Next]_dlVars
    PROVE  DownloaderCall \/ DownloaderStep \/ UNCHANGED dlVars
BY DEF Next, Destroy, Terminated, DownloaderCall

\* The invariant holds for every pool size and every set of calls.
THEOREM DownloaderInvariant == Spec => []DlInv
<1>1. DlInv /\ [Next]_dlVars => DlInv'
  BY NextSteps, DlInvStep
<1> QED
  BY <1>1, DlInvInit, PTL DEF Spec

\* The state keeps its shape: every task is in one place of the pool, and
\* init_counter_ is a number.
THEOREM TypeCorrect == Spec => []TypeOK
BY DownloaderInvariant, DlInvConsequences, PTL

\* init_counter_ is never incremented twice for an init, nor missed for one that
\* timed out.
THEOREM CounterIsExact == Spec => []CounterCountsArrivals
BY DownloaderInvariant, DlInvConsequences, PTL

\* No init sleeps behind an open barrier without a notify_all() to come.
THEOREM NobodyStranded == Spec => []NoStrandedInit
BY DownloaderInvariant, DlInvConsequences, PTL

\* ScheduleDownload frees every worker that the barrier holds.
THEOREM DownloadsGetThrough == Spec => []DownloadsUnblockInits
BY DownloaderInvariant, DlInvConsequences, PTL

\* Connections are held until all inits of the call have one.
THEOREM BarrierHolds == Spec => HeldUntilAllCame
<1>1. DlInv /\ [Next]_dlVars
      => [\A t \in Inits : step[t] \in AtBarrier /\ step'[t] = "reply"
                              => interrupted \/ BatchOf(t) = Arrived]_dlVars
  BY NextSteps, HeldStep
<1> QED
  BY <1>1, DownloaderInvariant, PTL DEF Spec, HeldUntilAllCame

=============================================================================
