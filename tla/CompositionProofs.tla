-------------------------- MODULE CompositionProofs --------------------------
(***************************************************************************)
(* Theorems about what is built on a Downloader:                           *)
(*                                                                         *)
(*  - Handlers, for every number of connections and chunks, every pool     *)
(*    size and every file: what the handlers of the Lambda functions may   *)
(*    conclude from the responses they pop, and what is still running when *)
(*    they return;                                                         *)
(*  - WarmConnections, for every pool and any number of batches: what the  *)
(*    barrier of InitConnections does for the handle cache.                *)
(*                                                                         *)
(* In both the Downloader takes its own steps, seen without the rest, so   *)
(* its invariant, DlInv, holds; the first adds how far the handler is, the *)
(* second which connection is where.                                       *)
(***************************************************************************)
EXTENDS Handlers, WarmConnections, DownloaderProofs

-----------------------------------------------------------------------------
(* The handlers: the invariant.                                            *)

\* The tasks that were passed to the Downloader.
Touched == Started \cup Waiting \cup pending

Before == {"main", "start"}
Over == {"return", "returned", "ended"}
Late == {"schedule", "reading"} \cup Over

ProgramInv ==
    /\ program \in {"bandwidth", "parquet"} /\ chuncks \in Work(program)
    /\ hpc \in Before \cup {"init", "inits", "footer", "crashed"} \cup Late
    /\ hpc = "inits" => program = "bandwidth"
    /\ hpc \in {"init", "footer"} => program = "parquet"

\* From the first step of main to its last, the SDK is there.
SdkInv == IF hpc = "main" THEN ~aws_initialized /\ ~isInit /\ curl_inits = 0
                          ELSE hpc # "ended" => SdkReady

\* The Downloader lives until the handler returns.
LifeInv ==
    /\ ~alive <=> hpc \in {"returned", "ended"}
    /\ ~alive <=> dpc = "destroy"
    /\ hpc = "ended" => state = "closed"
    /\ hpc \in {"main", "reading", "return"} => dpc = "idle"

\* What the handler has asked for, and what it has surely seen.
PhaseInv ==
    /\ hpc \in Before => Touched = {} /\ inits_completed = 0
    /\ hpc = "init" => Touched \subseteq {Footer}
    /\ hpc = "inits" => Touched \subseteq Inits /\ inits_completed = Cardinality(collected)
    /\ hpc = "footer" => Touched \subseteq Inits \cup {Footer}
    /\ hpc \in {"inits", "footer"} => ~interrupted /\ batch = Inits
    /\ hpc \in Late =>
          IF program = "bandwidth"
          THEN Touched \subseteq Inits \cup chuncks /\ Inits \subseteq collected
          ELSE Touched \subseteq Inits \cup chuncks \cup {Footer} /\ Footer \in collected
    /\ hpc = "schedule" /\ ~interrupted => Touched \cap chuncks = {}
    /\ hpc \in {"reading"} \cup Over /\ chuncks # {} => interrupted

\* downloaded_chuncks counts the chunks popped, and all of them have data.
ReadInv ==
    /\ hpc # "crashed" => /\ downloaded_chuncks = Cardinality(collected \cap chuncks)
                          /\ \A d \in collected \cap chuncks : result[d] = "data"
    /\ hpc \in Over => chuncks \subseteq collected

HandlerInv ==
    ProgramInv /\ SdkInv /\ LifeInv /\ PhaseInv /\ ReadInv /\ CrashOnlyOnFailedDownload

-----------------------------------------------------------------------------
(* Facts about sets.                                                       *)

\* What the invariant says of the tasks of the invocation under way.
LEMMA WorkFacts ==
    ASSUME ProgramInv
    PROVE  /\ chuncks \subseteq Downloads /\ chuncks \subseteq Tasks /\ Footer \notin chuncks
           /\ chuncks \cap Inits = {} /\ IsFiniteSet(chuncks) /\ Cardinality(chuncks) \in Nat
           /\ Footer \in Downloads /\ Footer \in Tasks /\ Footer \notin Inits
           /\ Inits \in Batches /\ IsFiniteSet(Inits) /\ Cardinality(Inits) \in Nat
<1>1. chuncks \subseteq Chuncks
  BY HandlerAssumption DEF ProgramInv, Work
<1>2. chuncks \in SUBSET Tasks /\ Inits \in SUBSET Tasks
  BY <1>1, TasksAssumption DEF Chuncks
<1>3. IsFiniteSet(chuncks) /\ IsFiniteSet(Inits)
  BY <1>2, TasksAssumption, FS_Subset
<1> QED
  BY <1>1, <1>2, <1>3, HandlerAssumption, TasksAssumption, FS_CardinalityType DEF Chuncks

\* Counting two sets without common members.
LEMMA DisjointCount ==
    ASSUME NEW S \in SUBSET Tasks, NEW T \in SUBSET Tasks, S \cap T = {}
    PROVE  /\ Cardinality(S) \in Nat /\ Cardinality(T) \in Nat
           /\ Cardinality(S \cup T) = Cardinality(S) + Cardinality(T)
<1>1. IsFiniteSet(S) /\ IsFiniteSet(T)
  BY TasksAssumption, FS_Subset
<1>2. Cardinality(S) \in Nat /\ Cardinality(T) \in Nat
  BY <1>1, FS_CardinalityType
<1>3. Cardinality(S \cup T) = Cardinality(S) + Cardinality(T) - Cardinality(S \cap T)
  BY <1>1, FS_Union
<1>4. Cardinality(S \cap T) = 0
  BY FS_EmptySet
<1> QED
  BY <1>2, <1>3, <1>4

\* A set that has as many elements as one it is part of is that set.
LEMMA FullCount ==
    ASSUME NEW S \in SUBSET Tasks, NEW T \in SUBSET S, Cardinality(T) >= Cardinality(S)
    PROVE  T = S
<1>1. IsFiniteSet(S)
  BY TasksAssumption, FS_Subset
<1>2. Cardinality(T) \in Nat /\ Cardinality(S) \in Nat /\ Cardinality(T) <= Cardinality(S)
  BY <1>1, FS_Subset, FS_CardinalityType
<1> QED
  BY <1>1, <1>2, FS_Subset

\* What DlInv says of the tasks a handler can see.
LEMMA SeenFacts ==
    ASSUME DlInv
    PROVE  /\ answered \subseteq Tasks /\ collected \subseteq Tasks /\ answered \cap collected = {}
           /\ answered \subseteq Touched /\ collected \subseteq Touched
           /\ \A t \in answered \cup collected : result[t] # "none"
           /\ \A t \in Downloads : result[t] \in {"none", "data", "error"}
           /\ \A t \in Inits : result[t] \in {"none", "aborted", "init"}
           /\ \A t \in Tasks \ Touched : step[t] = "none" /\ result[t] = "none"
           /\ dpc = "idle" => pending = {}
BY DEF DlInv, TypeOK, PoolInv, OnePlace, TaskInv, BatchInv, Touched, Started

-----------------------------------------------------------------------------
(* What the calls and the steps of the Downloader do to what HandlerInv    *)
(* speaks about.                                                           *)

\* A step below the handler starts no task of its own and changes no response popped.
LEMMA BelowEffects ==
    ASSUME DlInv, DownloaderStep
    PROVE  /\ Touched' \subseteq Touched
           /\ UNCHANGED <<collected, batch, interrupted, alive>>
           /\ dpc' = "destroy" <=> dpc = "destroy"
           /\ dpc = "idle" => dpc' = "idle"
           /\ state = "closed" => state' = "closed"
           /\ \A t \in collected : result'[t] = result[t]
<1> USE DEF DlInv
<1>0. PoolTypeOK /\ OnePlace
  BY DEF PoolInv
<1>1. CASE DispatcherStep
  <2>1. ASSUME NEW t \in pending, Submit(t), pending' = {} \/ pending' = pending \ {t}
        PROVE  Touched' \subseteq Touched
    <3>1. Waiting' = Waiting \cup {t}
      BY <1>0, <2>1, SubmitWaiting DEF TypeOK
    <3> QED
      BY <2>1, <3>1 DEF Touched, Started, Submit
  <2>2. ASSUME NotifyInits \/ DestroyQueue
        PROVE  Touched' \subseteq Touched
    BY <2>2 DEF NotifyInits, DestroyQueue, BeginClose, EndClose, Touched, Started, Waiting, poolVars,
                dispatchVars
  <2>3. Touched' \subseteq Touched
    BY <1>1, <2>1, <2>2 DEF DispatcherStep, PushInit, PushDownload
  <2> QED
    BY <1>1, <2>3 DEF DispatcherStep, PushInit, NotifyInits, PushDownload, DestroyQueue, Submit,
                BeginClose, EndClose, poolVars, dispatchVars, taskVars
<1>2. CASE BeginTask
  <2>1. Head(queued) \in Waiting /\ Waiting' \subseteq Waiting
    BY <1>0, <1>2, BeginWaiting DEF BeginTask
  <2> QED
    BY <1>2, <2>1 DEF BeginTask, Begin, Touched, Started, dispatchVars
<1>3. CASE TaskMove
  <2>1. \A t \in collected : t \in Tasks /\ step[t] = "done"
    BY DEF TypeOK, TaskInv
  <2>2. ASSUME NEW t \in Tasks, InitStep(t) \/ SpuriousWakeup(t) \/ Get(t)
        PROVE  /\ UNCHANGED <<poolVars, dispatchVars>>
               /\ \A u \in collected : result'[u] = result[u]
    BY <2>1, <2>2 DEF InitStep, Abort, Connect, Arrive, Recheck, Release, Miss, EndInit,
                      SpuriousWakeup, Get, Goto, TypeOK
  <2>3. ASSUME NEW t \in Tasks, FinishTask(t)
        PROVE  /\ UNCHANGED <<queued, collected, state, dispatchVars, result>>
               /\ Started' \subseteq Started
    BY <2>3 DEF FinishTask, Finish, Started, taskVars
  <2> QED
    BY <1>3, <2>2, <2>3, TasksAssumption DEF TaskMove, Touched, Started, Waiting, poolVars, dispatchVars
<1> QED
  BY <1>1, <1>2, <1>3, StepCases

\* What scheduling downloads changes.
LEMMA ScheduleEffects ==
    ASSUME DlInv, NEW d \in Downloads, ScheduleDownload(d)
    PROVE  /\ Touched' = Touched \cup {d} /\ interrupted'
           /\ UNCHANGED <<collected, batch, alive, state, result>>
           /\ alive /\ dpc' = "notifyInits"
<1>1. pending = {}
  BY DEF ScheduleDownload, DlInv, BatchInv
<1> QED
  BY <1>1 DEF ScheduleDownload, Touched, Started, Waiting, poolVars, taskVars

\* What InitConnections changes.
LEMMA OpenEffects ==
    ASSUME DlInv, InitConnections(Inits)
    PROVE  /\ Touched' = Touched \cup Inits /\ ~interrupted' /\ batch' = Inits
           /\ UNCHANGED <<collected, alive, state, result>>
           /\ alive /\ dpc' = "pushInits"
<1>1. pending = {}
  BY DEF InitConnections, DlInv, BatchInv
<1> QED
  BY <1>1 DEF InitConnections, Touched, Started, Waiting, poolVars, taskVars

\* What popping a response changes.
LEMMA PopEffects ==
    ASSUME ProcessResponses
    PROVE  /\ collected' = collected \cup answered /\ Touched' = Touched
           /\ UNCHANGED <<batch, interrupted, alive, dpc, state, step, result>>
           /\ alive /\ dpc = "idle"
BY DEF ProcessResponses, Collect, Touched, Started, Waiting, dispatchVars, taskVars

-----------------------------------------------------------------------------
(* The steps of the handlers.                                              *)

\* The invariant holds before the first invocation.
LEMMA HandlerInvInit == HandlerInit => HandlerInv
<1> SUFFICES ASSUME HandlerInit
             PROVE  HandlerInv
  OBVIOUS
<1>1. Touched = {} /\ collected = {} /\ queued = << >>
  BY DEF HandlerInit, DownloaderInit, PoolInit, Touched, Started, Waiting
<1>2. ProgramInv /\ SdkInv /\ LifeInv /\ PhaseInv /\ CrashOnlyOnFailedDownload
  BY <1>1 DEF HandlerInit, DownloaderInit, SdkInit, ProgramInv, SdkInv, LifeInv, PhaseInv, Before,
              Late, Over, CrashOnlyOnFailedDownload
<1>3. ReadInv
  BY <1>1, FS_EmptySet DEF HandlerInit, ReadInv, Over
<1> QED
  BY <1>2, <1>3 DEF HandlerInv

\* The Downloader goes on: it gives the handler no new response.
LEMMA HandlerInvBelow ==
    ASSUME DlInv, HandlerInv, BelowStep
    PROVE  HandlerInv'
<1>1. UNCHANGED <<sdkVars, handlerVars>> /\ hpc # "crashed" /\ DownloaderStep
  BY DEF BelowStep
<1>2. UNCHANGED <<hpc, program, chuncks, inits_completed, downloaded_chuncks>>
  BY <1>1 DEF handlerVars
<1>3. ProgramInv' /\ SdkInv'
  BY <1>1, <1>2 DEF HandlerInv, ProgramInv, SdkInv, SdkReady, sdkVars, Work
<1>4. LifeInv' /\ PhaseInv' /\ ReadInv'
  BY <1>1, <1>2, BelowEffects DEF HandlerInv, LifeInv, PhaseInv, ReadInv
<1> QED
  BY <1>1, <1>2, <1>3, <1>4 DEF HandlerInv, CrashOnlyOnFailedDownload

\* main has initialised the SDK.
LEMMA HandlerInvStart ==
    ASSUME DlInv, HandlerInv, Start
    PROVE  HandlerInv'
<1>1. /\ UNCHANGED <<dlVars, program, chuncks, inits_completed, downloaded_chuncks>>
      /\ hpc = "main" /\ hpc' = "start"
  BY DEF Start, GoOn
<1>2. SdkReady'
  BY <1>1 DEF HandlerInv, SdkInv, Start, InitializeAwsSdk, InitGlobalState, SdkReady
<1>3. UNCHANGED <<Touched, collected, result, alive, dpc, state>>
  BY <1>1 DEF dlVars, poolVars, dispatchVars, taskVars, Touched, Started, Waiting
<1> QED
  BY <1>1, <1>2, <1>3 DEF HandlerInv, ProgramInv, SdkInv, LifeInv, PhaseInv, ReadInv, Before, Late,
                          Over, Work, CrashOnlyOnFailedDownload

\* The footer is asked for.
LEMMA HandlerInvFooter ==
    ASSUME DlInv, HandlerInv, ScheduleFooter
    PROVE  HandlerInv'
<1>1. /\ UNCHANGED <<sdkVars, program, chuncks, inits_completed, downloaded_chuncks>>
      /\ hpc = "start" /\ program = "parquet" /\ hpc' = "init"
  BY DEF ScheduleFooter, At, GoOn
<1>2. Touched' = Touched \cup {Footer} /\ UNCHANGED <<collected, alive, result>>
      /\ alive /\ dpc' = "notifyInits"
  BY HandlerAssumption, ScheduleEffects DEF ScheduleFooter
<1> QED
  BY <1>1, <1>2 DEF HandlerInv, ProgramInv, SdkInv, SdkReady, sdkVars, LifeInv, PhaseInv, ReadInv,
                    Before, Late, Over, Work, CrashOnlyOnFailedDownload

\* The connections are warmed up.
LEMMA HandlerInvOpen ==
    ASSUME DlInv, HandlerInv, Open
    PROVE  HandlerInv'
<1>1. /\ UNCHANGED <<sdkVars, program, chuncks, inits_completed, downloaded_chuncks>>
      /\ \/ program = "bandwidth" /\ hpc = "start" /\ hpc' = "inits"
         \/ program = "parquet" /\ hpc = "init" /\ hpc' = "footer"
  BY DEF Open, At, GoOn
<1>2. Touched' = Touched \cup Inits /\ ~interrupted' /\ batch' = Inits
      /\ UNCHANGED <<collected, alive, result>> /\ alive /\ dpc' = "pushInits"
  BY OpenEffects DEF Open
<1>3. hpc = "start" => collected = {} /\ Cardinality(collected) = 0 /\ inits_completed = 0
  BY FS_EmptySet DEF HandlerInv, PhaseInv, Before, Touched, Started
<1>4. PhaseInv'
  BY <1>1, <1>2, <1>3 DEF HandlerInv, PhaseInv, Before, Late, Over
<1> QED
  BY <1>1, <1>2, <1>4 DEF HandlerInv, ProgramInv, SdkInv, SdkReady, sdkVars, LifeInv, ReadInv,
                    Before, Late, Over, Work, CrashOnlyOnFailedDownload

\* The loop is left when as many results were popped as there are inits, and
\* only inits were under way: the Downloader has no other task left.
LEMMA HandlerInvWaitInits ==
    ASSUME DlInv, HandlerInv, WaitInits
    PROVE  HandlerInv'
<1>1. /\ UNCHANGED <<sdkVars, program, chuncks, downloaded_chuncks>>
      /\ hpc = "inits" /\ program = "bandwidth" /\ hpc' \in {"inits", "schedule"}
      /\ inits_completed' = inits_completed + Cardinality(answered)
      /\ hpc' = "schedule" => ~(inits_completed' < Cardinality(Inits))
  BY DEF WaitInits, HandlerInv, ProgramInv
<1>2. collected' = collected \cup answered /\ Touched' = Touched
      /\ UNCHANGED <<batch, interrupted, alive, dpc, result>> /\ alive /\ dpc = "idle"
  BY PopEffects DEF WaitInits
<1>3. Touched \subseteq Inits /\ inits_completed = Cardinality(collected) /\ ~interrupted
  BY <1>1 DEF HandlerInv, PhaseInv
<1>4. /\ Cardinality(collected') = inits_completed' /\ collected' \in SUBSET Inits
      /\ Cardinality(collected') \in Nat
  <2>1. collected \in SUBSET Tasks /\ answered \in SUBSET Tasks /\ collected \cap answered = {}
        /\ collected' \in SUBSET Inits
    BY <1>2, <1>3, SeenFacts
  <2> QED
    BY <1>1, <1>2, <1>3, <2>1, DisjointCount
<1>5. hpc' = "schedule" => collected' = Inits
  <2> SUFFICES ASSUME hpc' = "schedule"
               PROVE  collected' = Inits
    OBVIOUS
  <2>1. Cardinality(collected') >= Cardinality(Inits)
    BY <1>1, <1>4, WorkFacts DEF HandlerInv
  <2>2. Inits \in SUBSET Tasks
    BY TasksAssumption
  <2> QED
    BY <2>1, <2>2, <1>4, FullCount
<1>6. Touched \cap chuncks = {} /\ collected' \cap chuncks = collected \cap chuncks
  BY <1>2, <1>3, <1>4, SeenFacts, WorkFacts DEF HandlerInv
<1>7. PhaseInv'
  BY <1>1, <1>2, <1>3, <1>4, <1>5, <1>6 DEF HandlerInv, PhaseInv, Before, Late, Over
<1>8. ReadInv'
  BY <1>1, <1>2, <1>6 DEF HandlerInv, ReadInv, Over
<1> QED
  BY <1>1, <1>2, <1>7, <1>8 DEF HandlerInv, ProgramInv, SdkInv, SdkReady, sdkVars, LifeInv,
                    Before, Late, Over, Work, CrashOnlyOnFailedDownload

\* A Status that ends the process is that of the footer: no init of a batch
\* that no ScheduleDownload followed was aborted.
LEMMA HandlerInvWaitFooter ==
    ASSUME DlInv, HandlerInv, WaitFooter
    PROVE  HandlerInv'
<1>1. /\ UNCHANGED <<sdkVars, program, chuncks, inits_completed, downloaded_chuncks>>
      /\ hpc = "footer" /\ program = "parquet"
      /\ \/ hpc' = "crashed" /\ \E t \in answered : result[t] \in {"aborted", "error"}
         \/ hpc' = "schedule" /\ Footer \in answered
         \/ hpc' = "footer"
  BY DEF WaitFooter, GoOn, HandlerInv, ProgramInv
<1>2. collected' = collected \cup answered /\ Touched' = Touched
      /\ UNCHANGED <<batch, interrupted, alive, dpc, result>> /\ alive /\ dpc = "idle"
  BY PopEffects DEF WaitFooter
<1>3. Touched \subseteq Inits \cup {Footer} /\ ~interrupted /\ batch = Inits
  BY <1>1 DEF HandlerInv, PhaseInv
<1>4. \A t \in Inits : result[t] \in {"none", "init"}
  BY <1>3, SeenFacts DEF DlInv, BatchInv
<1>5. Touched \cap chuncks = {} /\ collected' \cap chuncks = collected \cap chuncks
  BY <1>2, <1>3, SeenFacts, WorkFacts DEF HandlerInv
<1>6. CrashOnlyOnFailedDownload'
  BY <1>1, <1>2, <1>3, <1>4, SeenFacts, HandlerAssumption DEF CrashOnlyOnFailedDownload
<1>7. PhaseInv'
  BY <1>1, <1>2, <1>3, <1>5 DEF HandlerInv, PhaseInv, Before, Late, Over
<1>8. ReadInv'
  BY <1>1, <1>2, <1>5 DEF HandlerInv, ReadInv, Over
<1> QED
  BY <1>1, <1>2, <1>6, <1>7, <1>8 DEF HandlerInv, ProgramInv, SdkInv, SdkReady, sdkVars, LifeInv,
                    Before, Late, Over, Work

\* A chunk is asked for.
LEMMA HandlerInvSchedule ==
    ASSUME DlInv, HandlerInv, NEW d \in Chuncks, ScheduleChunck(d)
    PROVE  HandlerInv'
<1>1. /\ UNCHANGED <<sdkVars, handlerVars>> /\ hpc = "schedule" /\ d \in chuncks
      /\ d \in Downloads /\ ScheduleDownload(d)
  BY DEF ScheduleChunck, Chuncks
<1>2. UNCHANGED <<hpc, program, chuncks, inits_completed, downloaded_chuncks>>
  BY <1>1 DEF handlerVars
<1>3. Touched' = Touched \cup {d} /\ interrupted' /\ UNCHANGED <<collected, alive, result>>
      /\ alive /\ dpc' = "notifyInits"
  BY <1>1, ScheduleEffects
<1> QED
  BY <1>1, <1>2, <1>3 DEF HandlerInv, ProgramInv, SdkInv, SdkReady, sdkVars, LifeInv, PhaseInv,
                    ReadInv, Before, Late, Over, Work, CrashOnlyOnFailedDownload

\* Every chunk has been scheduled.
LEMMA HandlerInvStartReading ==
    ASSUME DlInv, HandlerInv, StartReading
    PROVE  HandlerInv'
<1>1. /\ UNCHANGED <<dlVars, sdkVars, program, chuncks, inits_completed, downloaded_chuncks>>
      /\ hpc = "schedule" /\ dpc = "idle" /\ Unseen \cap chuncks = {}
      /\ hpc' = IF chuncks = {} THEN "return" ELSE "reading"
  BY DEF StartReading, GoOn
<1>2. UNCHANGED <<Touched, collected, interrupted, result, alive, dpc, state>>
  BY <1>1 DEF dlVars, poolVars, dispatchVars, taskVars, Touched, Started, Waiting
<1>3. chuncks \subseteq Touched
  BY <1>1, WorkFacts DEF HandlerInv, Unseen, Touched, Started, Waiting
<1>4. chuncks # {} => interrupted
  BY <1>1, <1>3 DEF HandlerInv, PhaseInv
<1> QED
  BY <1>1, <1>2, <1>4 DEF HandlerInv, ProgramInv, SdkInv, SdkReady, sdkVars, LifeInv, PhaseInv,
                    ReadInv, Before, Late, Over, Work, CrashOnlyOnFailedDownload

\* A round of the last loop, in which the chunks among the responses are seen
\* and only a failed download is fatal.
LEMMA HandlerInvCount ==
    ASSUME DlInv, HandlerInv, NEW seen, NEW fatal \in BOOLEAN, Count(seen, fatal),
           fatal => \E t \in Downloads : result[t] = "error",
           ~fatal => seen = answered \cap chuncks /\ \A d \in seen : result[d] = "data"
    PROVE  HandlerInv'
<1>1. /\ UNCHANGED <<sdkVars, program, chuncks, inits_completed>> /\ hpc = "reading"
      /\ fatal => hpc' = "crashed"
      /\ ~fatal => /\ downloaded_chuncks' = downloaded_chuncks + Cardinality(seen)
                   /\ hpc' = IF downloaded_chuncks' < Cardinality(chuncks) THEN "reading" ELSE "return"
  BY DEF Count
<1>2. collected' = collected \cup answered /\ Touched' = Touched
      /\ UNCHANGED <<interrupted, alive, dpc, result>> /\ alive /\ dpc = "idle"
  BY PopEffects DEF Count
<1>3. hpc' \in {"crashed", "reading", "return"}
  BY <1>1
<1>4. ProgramInv' /\ SdkInv' /\ LifeInv' /\ PhaseInv' /\ CrashOnlyOnFailedDownload'
  BY <1>1, <1>2, <1>3 DEF HandlerInv, ProgramInv, SdkInv, SdkReady, sdkVars, LifeInv, PhaseInv,
                    Before, Late, Over, Work, CrashOnlyOnFailedDownload
<1>5. CASE fatal
  BY <1>1, <1>4, <1>5 DEF ReadInv, HandlerInv, Over
<1>6. CASE ~fatal
  <2>1. downloaded_chuncks = Cardinality(collected \cap chuncks)
        /\ \A d \in collected \cap chuncks : result[d] = "data"
    BY <1>1 DEF HandlerInv, ReadInv
  <2>2. /\ collected \cap chuncks \in SUBSET Tasks /\ answered \cap chuncks \in SUBSET Tasks
        /\ (collected \cap chuncks) \cap (answered \cap chuncks) = {}
        /\ collected' \cap chuncks = (collected \cap chuncks) \cup (answered \cap chuncks)
        /\ chuncks \in SUBSET Tasks /\ collected' \cap chuncks \in SUBSET chuncks
    BY <1>2, SeenFacts, WorkFacts DEF HandlerInv
  <2>3. downloaded_chuncks' = Cardinality(collected' \cap chuncks) /\ downloaded_chuncks' \in Nat
    <3>1. /\ Cardinality(collected \cap chuncks) \in Nat
          /\ Cardinality(answered \cap chuncks) \in Nat
          /\ Cardinality((collected \cap chuncks) \cup (answered \cap chuncks))
                = Cardinality(collected \cap chuncks) + Cardinality(answered \cap chuncks)
      BY <2>2, DisjointCount
    <3>2. downloaded_chuncks' = downloaded_chuncks + Cardinality(answered \cap chuncks)
      BY <1>1, <1>6
    <3>3. collected' \cap chuncks = (collected \cap chuncks) \cup (answered \cap chuncks)
      BY <2>2
    <3>4. Cardinality(collected' \cap chuncks)
             = Cardinality((collected \cap chuncks) \cup (answered \cap chuncks))
      BY <3>3
    <3>5. downloaded_chuncks = Cardinality(collected \cap chuncks)
      BY <2>1
    <3> QED
      BY <3>1, <3>2, <3>4, <3>5
  <2>4. hpc' = "return" => Cardinality(collected' \cap chuncks) >= Cardinality(chuncks)
    BY <1>1, <1>6, <2>3, WorkFacts DEF HandlerInv
  <2>5. hpc' = "return" => collected' \cap chuncks = chuncks
    BY <2>2, <2>4, FullCount
  <2>6. ReadInv'
    BY <1>1, <1>2, <1>3, <1>6, <2>1, <2>2, <2>3, <2>5 DEF ReadInv, Over
  <2> QED
    BY <1>4, <2>6 DEF HandlerInv
<1> QED
  BY <1>5, <1>6

\* No init is left to be popped: they were all counted in the first loop.
LEMMA HandlerInvWaitDownloads ==
    ASSUME DlInv, HandlerInv, WaitDownloads
    PROVE  HandlerInv'
<1> DEFINE fatal == \E t \in answered : result[t] # "data"
<1>1. program = "bandwidth" /\ hpc = "reading" /\ Count(answered, fatal)
  BY DEF WaitDownloads, Count
<1>2. Touched \subseteq Inits \cup chuncks /\ Inits \subseteq collected
  BY <1>1 DEF HandlerInv, PhaseInv, Late
<1>3. answered = answered \cap chuncks /\ answered \subseteq Downloads
  BY <1>2, SeenFacts, WorkFacts DEF HandlerInv
<1>4. fatal => \E t \in Downloads : result[t] = "error"
  BY <1>3, SeenFacts
<1>5. fatal \in BOOLEAN /\ (~fatal => \A d \in answered : result[d] = "data")
  OBVIOUS
<1> HIDE DEF fatal
<1> QED
  BY <1>1, <1>3, <1>4, <1>5, HandlerInvCount

\* Of the responses popped, those with data are chunks: the footer was popped
\* before.
LEMMA HandlerInvWaitChuncks ==
    ASSUME DlInv, HandlerInv, WaitChuncks
    PROVE  HandlerInv'
<1> DEFINE fatal == \E t \in answered : result[t] = "error"
           seen == {t \in answered : result[t] = "data"}
<1>1. program = "parquet" /\ hpc = "reading" /\ Count(seen, fatal)
  BY DEF WaitChuncks, Count
<1>2. Touched \subseteq Inits \cup chuncks \cup {Footer} /\ Footer \in collected
  BY <1>1 DEF HandlerInv, PhaseInv, Late, ProgramInv
<1>3. fatal => \E t \in Downloads : result[t] = "error"
  BY SeenFacts, TasksAssumption
<1>4. ~fatal => seen = answered \cap chuncks
  BY <1>2, SeenFacts, WorkFacts DEF HandlerInv
<1>5. fatal \in BOOLEAN /\ \A d \in seen : result[d] = "data"
  OBVIOUS
<1> HIDE DEF fatal, seen
<1> QED
  BY <1>1, <1>3, <1>4, <1>5, HandlerInvCount

\* The handler returns.
LEMMA HandlerInvReturn ==
    ASSUME DlInv, HandlerInv, Return
    PROVE  HandlerInv'
<1>1. /\ UNCHANGED <<sdkVars, program, chuncks, inits_completed, downloaded_chuncks>>
      /\ hpc = "return" /\ hpc' = "returned"
  BY DEF Return, GoOn
<1>2. ~alive' /\ dpc' = "destroy" /\ UNCHANGED <<Touched, collected, interrupted, result>>
  BY DEF Return, DestroyMembers, Touched, Started, Waiting, poolVars, taskVars
<1> QED
  BY <1>1, <1>2 DEF HandlerInv, ProgramInv, SdkInv, SdkReady, sdkVars, LifeInv, PhaseInv,
                    ReadInv, Before, Late, Over, Work, CrashOnlyOnFailedDownload

\* A new Downloader, and nothing of the old one.
LEMMA NewDownloader ==
    ASSUME DlInv, HandlerInv, NextInvocation
    PROVE  DownloaderInit'
<1>1. hpc = "returned" /\ state = "closed"
  BY DEF NextInvocation
<1>2. queued = << >> /\ running = {}
  BY <1>1 DEF DlInv, PoolInv, ClosedIsDrained
<1>3. pending = {}
  BY <1>1 DEF HandlerInv, LifeInv, DlInv, BatchInv
<1> QED
  BY <1>2, <1>3 DEF NextInvocation, DownloaderInit, PoolInit

\* A warm container is invoked again, with a new Downloader.
LEMMA HandlerInvNextInvocation ==
    ASSUME DlInv, HandlerInv, NextInvocation
    PROVE  HandlerInv'
<1>1. /\ UNCHANGED <<sdkVars, program>> /\ hpc = "returned" /\ hpc' = "start"
      /\ chuncks' \in Work(program) /\ inits_completed' = 0 /\ downloaded_chuncks' = 0
  BY DEF NextInvocation
<1>2. Touched' = {} /\ collected' = {} /\ alive' /\ dpc' = "idle"
  BY NewDownloader DEF DownloaderInit, PoolInit, Touched, Started, Waiting
<1>3. ReadInv'
  BY <1>1, <1>2, FS_EmptySet DEF ReadInv, Over
<1> QED
  BY <1>1, <1>2, <1>3 DEF HandlerInv, ProgramInv, SdkInv, SdkReady, sdkVars, LifeInv, PhaseInv,
                    Before, Late, Over, Work, CrashOnlyOnFailedDownload

\* main shuts the SDK down.
LEMMA HandlerInvEnd ==
    ASSUME DlInv, HandlerInv, EndProgram
    PROVE  HandlerInv'
<1>1. /\ UNCHANGED <<dlVars, program, chuncks, inits_completed, downloaded_chuncks>>
      /\ hpc = "returned" /\ hpc' = "ended" /\ state = "closed"
  BY DEF EndProgram, GoOn
<1>2. UNCHANGED <<Touched, collected, interrupted, result, alive, dpc, state>>
  BY <1>1 DEF dlVars, poolVars, dispatchVars, taskVars, Touched, Started, Waiting
<1> QED
  BY <1>1, <1>2 DEF HandlerInv, ProgramInv, SdkInv, LifeInv, PhaseInv, ReadInv, Before, Late,
                    Over, Work, CrashOnlyOnFailedDownload

\* Nothing happens.
LEMMA HandlerInvStutter ==
    ASSUME HandlerInv, UNCHANGED vars
    PROVE  HandlerInv'
BY DEF vars, dlVars, sdkVars, handlerVars, poolVars, dispatchVars, taskVars, HandlerInv, ProgramInv,
       SdkInv, SdkReady, LifeInv, PhaseInv, ReadInv, Touched, Started, Waiting, Work,
       CrashOnlyOnFailedDownload

\* The invariant is inductive.
LEMMA HandlerInvStep ==
    ASSUME DlInv, HandlerInv, [HandlerNext]_vars
    PROVE  HandlerInv'
BY HandlerInvBelow, HandlerInvStart, HandlerInvFooter, HandlerInvOpen, HandlerInvWaitInits,
   HandlerInvWaitFooter, HandlerInvSchedule, HandlerInvStartReading, HandlerInvWaitDownloads,
   HandlerInvWaitChuncks, HandlerInvReturn, HandlerInvNextInvocation, HandlerInvEnd,
   HandlerInvStutter
   DEF HandlerNext, HandlerStep, Ended

\* The Downloader that a handler drives keeps its invariant.
LEMMA DlInvBelow ==
    ASSUME DlInv, HandlerInv, [HandlerNext]_vars
    PROVE  DlInv'
<1>1. CASE NextInvocation
  <2>1. DownloaderInit'
    BY <1>1, NewDownloader
  <2>2. DownloaderInit' => DlInv'
    BY DlInvInit, PTL
  <2> QED
    BY <2>1, <2>2
<1>2. CASE ~NextInvocation
  <2>1. DownloaderCall \/ DownloaderStep \/ UNCHANGED dlVars
    BY <1>2, HandlerAssumption
       DEF HandlerNext, HandlerStep, BelowStep, Ended, vars, Start, ScheduleFooter, Open, WaitInits,
           WaitFooter, ScheduleChunck, StartReading, WaitDownloads, WaitChuncks, Count, Return,
           EndProgram, DownloaderCall, Chuncks
  <2> QED
    BY <2>1, DlInvStep
<1> QED
  BY <1>1, <1>2

-----------------------------------------------------------------------------
(* What follows from the invariant.                                        *)

\* No init is asked to stop before the first loop has popped all of them.
LEMMA LoopsKeptApart ==
    ASSUME DlInv, HandlerInv
    PROVE  PhasesDoNotMix
<1>1. ASSUME At("bandwidth", "inits"), NEW t \in Tasks
      PROVE  result[t] \in {"none", "init"}
  <2>1. ~interrupted /\ batch = Inits /\ Touched \subseteq Inits
    BY <1>1 DEF At, HandlerInv, PhaseInv
  <2>2. CASE t \in Inits
    BY <2>1, <2>2, SeenFacts DEF DlInv, BatchInv
  <2>3. CASE t \notin Inits
    BY <2>1, <2>3, SeenFacts
  <2> QED
    BY <2>2, <2>3
<1>2. program = "bandwidth" /\ hpc \in {"schedule", "reading"} => Inits \subseteq collected
  BY DEF HandlerInv, PhaseInv, Late
<1> QED
  BY <1>1, <1>2 DEF PhasesDoNotMix

\* When a handler has returned, every chunk was read.
LEMMA AllReadInState ==
    ASSUME DlInv, HandlerInv
    PROVE  AllChuncksRead
<1> SUFFICES ASSUME hpc \in Over
             PROVE  /\ \A d \in chuncks : d \in collected /\ result[d] = "data"
                    /\ downloaded_chuncks = Cardinality(chuncks)
  BY DEF AllChuncksRead, Over
<1>1. chuncks \subseteq collected /\ collected \cap chuncks = chuncks
  BY DEF HandlerInv, ReadInv
<1> QED
  BY <1>1 DEF HandlerInv, ReadInv, Over

\* When the members are destroyed, no task is left to use them.
LEMMA NobodyAtMembers ==
    ASSUME DlInv, HandlerInv
    PROVE  MembersOutliveTasks
<1> SUFFICES ASSUME ~alive
             PROVE  IF program = "bandwidth" THEN queued = << >> /\ running = {}
                                             ELSE chuncks # {} => Blocked = {}
  BY DEF MembersOutliveTasks
<1>1. hpc \in Over /\ dpc = "destroy"
  BY DEF HandlerInv, LifeInv, Over
<1>2. CASE program = "bandwidth"
  <2>1. Touched \subseteq collected
    BY <1>1, <1>2 DEF HandlerInv, PhaseInv, ReadInv, Late
  <2>2. Waiting = {} /\ running = {}
    BY <2>1 DEF DlInv, PoolInv, OnePlace, Touched, Started
  <2>3. \A i \in DOMAIN queued : queued[i] \in Waiting
    BY DEF Waiting
  <2>4. queued = << >>
    <3>1. queued \in Seq(Tasks)
      BY DEF DlInv, TypeOK
    <3>2. queued # << >> => 1 \in DOMAIN queued
      BY <3>1
    <3> QED
      BY <2>2, <2>3, <3>2
  <2> QED
    BY <1>2, <2>2, <2>4
<1>3. CASE program # "bandwidth"
  BY <1>1, <1>3 DEF HandlerInv, PhaseInv, DlInv, BarrierInv, DownloadsUnblockInits, Over
<1> QED
  BY <1>2, <1>3

\* When the SDK is shut down, no task is left to use it.
LEMMA SdkInUse ==
    ASSUME DlInv, HandlerInv
    PROVE  SdkOutlivesTasks
<1> SUFFICES ASSUME NEW t \in Tasks, step[t] \in InsideSdk
             PROVE  SdkReady
  BY DEF SdkOutlivesTasks
<1>1. step[t] \notin {"none", "done"}
  BY DEF InsideSdk
<1>2. t \in running
  BY <1>1 DEF DlInv, TaskInv, Started
<1>3. hpc # "main"
  BY <1>2 DEF HandlerInv, PhaseInv, Before, Touched, Started
<1>4. hpc # "ended"
  BY <1>2 DEF HandlerInv, LifeInv, DlInv, PoolInv, ClosedIsDrained
<1> QED
  BY <1>3, <1>4 DEF HandlerInv, SdkInv

-----------------------------------------------------------------------------

\* The handler and its Downloader keep to each other's state, for every number
\* of workers, connections and chunks and through any number of invocations.
THEOREM HandlersInvariant == HandlerSpec => [](DlInv /\ HandlerInv)
<1>1. HandlerInit => DlInv /\ HandlerInv
  BY DlInvInit, HandlerInvInit DEF HandlerInit
<1>2. DlInv /\ HandlerInv /\ [HandlerNext]_vars => (DlInv /\ HandlerInv)'
  BY DlInvBelow, HandlerInvStep
<1> QED
  BY <1>1, <1>2, PTL DEF HandlerSpec

\* query-bandwidth counts the results of its first loop without looking at
\* them; none of them is that of an aborted init, whatever times out, and no
\* init is left for its second loop, which takes every response for a download.
THEOREM InitsAreComplete == HandlerSpec => []PhasesDoNotMix
BY HandlersInvariant, LoopsKeptApart, PTL

\* ValueOrDie and the null raw_data of an init end no handler unless a download
\* has failed.
THEOREM CrashesAreFailures == HandlerSpec => []CrashOnlyOnFailedDownload
<1>1. HandlerInv => CrashOnlyOnFailedDownload
  BY DEF HandlerInv
<1> QED
  BY <1>1, HandlersInvariant, PTL

\* A handler that returns has read every chunk it was to read, once.
THEOREM EveryChunckIsRead == HandlerSpec => []AllChuncksRead
BY HandlersInvariant, AllReadInState, PTL

\* No task of query-bandwidth, and no init blocked in the condition variable of
\* a parquet handler that read a chunk, sees its Downloader's members destroyed.
THEOREM MembersAreNotMissed == HandlerSpec => []MembersOutliveTasks
BY HandlersInvariant, NobodyAtMembers, PTL

\* FinalizeAwsSdk comes after the last request.
THEOREM SdkIsThere == HandlerSpec => []SdkOutlivesTasks
BY HandlersInvariant, SdkInUse, PTL

-----------------------------------------------------------------------------
(* The connections: the invariant.                                         *)

\* The tasks that hold a handle, and the handles that are idle.
Holders == {t \in Tasks : held[t] # None}
Idle == {cache[Bucket][i] : i \in DOMAIN cache[Bucket]}

ConnTypeOK ==
    /\ cache \in [Domains -> Seq(Handles)]
    /\ shareOf \in [Handles -> Domains \cup {None}]
    /\ held \in [Tasks -> Handles \cup {None}]
    /\ warm \subseteq Handles
    /\ transfer \in [Tasks -> {"none", "ok", "failed"}]

\* A handle is with one task, or once in the cache.
HandleInv ==
    /\ \A i, j \in DOMAIN cache[Bucket] : cache[Bucket][i] = cache[Bucket][j] => i = j
    /\ \A t, u \in Holders : held[t] = held[u] => t = u
    /\ \A t \in Holders : held[t] \notin Idle
    /\ Live = Idle \cup {held[t] : t \in Holders}

\* Which tasks hold a handle, and when a transfer is over.  An init whose
\* transfer succeeds has been through an open barrier.
TransferInv ==
    /\ \A t \in Holders : transfer[t] = "none" /\ step[t] \notin {"none", "check", "done"}
    /\ \A t \in Inits : step[t] \in {"connect", "blocked", "recheck"} => t \in Holders
    /\ \A t \in Inits : transfer[t] # "none" => step[t] \in {"release", "reply", "done"}
    /\ \A t \in batch : transfer[t] = "ok" \/ (step[t] = "reply" /\ t \in Holders) =>
          init_counter >= InitCount(t)

ConnInv == ConnTypeOK /\ HandleInv /\ TransferInv /\ OneConnectionPerInit /\ ConnectionsWithinPool

WarmInv == DlInv /\ RunningBounded /\ ConnInv

\* The inits that have left a connection behind, and the connections.
Okay == {t \in batch : transfer[t] = "ok"}
Usable == Available \cap warm

-----------------------------------------------------------------------------
(* The cache of the one bucket.                                            *)

\* All requests go to one bucket.
LEMMA TheBucket == Bucket \in Domains /\ Bucket # None /\ Domains = {Bucket}
BY BucketAssumption, DomainsAssumption

\* The handle that MakeRequest gets was idle, or is new when none was idle.
LEMMA Acquired ==
    ASSUME ConnTypeOK, HandleInv, NEW t \in Tasks \ Holders, NEW c, NEW h \in Handles,
           AcquireCurlHandle(Bucket, c, h),
           held' = [held EXCEPT ![t] = h], warm' = IF h \in Live THEN warm ELSE warm \ {h},
           UNCHANGED transfer
    PROVE  /\ ConnTypeOK' /\ HandleInv'
           /\ Holders' = Holders \cup {t} /\ held'[t] = h /\ Idle' = Idle \ {h}
           /\ \A u \in Tasks \ {t} : held'[u] = held[u]
           /\ \/ h \in Idle /\ Live' = Live /\ warm' = warm
              \/ Idle = {} /\ h \notin Live /\ Live' = Live \cup {h} /\ warm' = warm \ {h}
<1> USE TheBucket, HandlesAssumption
<1> DEFINE s == cache[Bucket]
           n == Len(s)
<1>1. s \in Seq(Handles) /\ n \in Nat /\ DOMAIN s = 1 .. n /\ cache \in [Domains -> Seq(Handles)]
  BY DEF ConnTypeOK
<1>2. /\ Holders' = Holders \cup {t} /\ held'[t] = h
      /\ \A u \in Tasks \ {t} : held'[u] = held[u]
      /\ held' \in [Tasks -> Handles \cup {None}] /\ warm' \subseteq Handles
  BY DEF ConnTypeOK, Holders
<1>3. Idle \subseteq Live /\ \A u \in Holders : held[u] \in Live /\ held[u] \notin Idle
  BY DEF HandleInv
<1>4. CASE Reuse(Bucket, h)
  <2> DEFINE r == SubSeq(s, 1, n - 1)
  <2>1. s # << >> /\ h = s[n] /\ cache' = [cache EXCEPT ![Bucket] = r] /\ UNCHANGED shareOf
    BY <1>4 DEF Reuse
  <2>2. n \in 1 .. n
    BY <1>1, <2>1
  <2>3. r \in Seq(Handles) /\ DOMAIN r = 1 .. n - 1 /\ \A i \in 1 .. n - 1 : r[i] = s[i]
    BY <1>1, <2>2
  <2>4. cache' \in [Domains -> Seq(Handles)] /\ cache'[Bucket] = r
    BY <1>1, <2>1, <2>3
  <2>5. \A i, j \in 1 .. n : s[i] = s[j] => i = j
    BY <1>1 DEF HandleInv
  <2>6. Idle = {s[i] : i \in 1 .. n} /\ Idle' = {s[i] : i \in 1 .. n - 1}
    <3>1. Idle = {s[i] : i \in 1 .. n}
      BY <1>1 DEF Idle
    <3>2. Idle' = {r[i] : i \in 1 .. n - 1}
      BY <2>3, <2>4 DEF Idle
    <3> QED
      BY <2>3, <3>1, <3>2
  <2>7. h \in Idle
    BY <2>1, <2>2, <2>6
  <2> HIDE DEF s, n, r
  <2>8. \A i \in 1 .. n : i \in 1 .. n - 1 <=> s[i] # h
    BY <1>1, <2>1, <2>2, <2>5
  <2>9. 1 .. n - 1 \subseteq 1 .. n
    BY <1>1
  <2>10. Idle' = Idle \ {h}
    BY <2>6, <2>8, <2>9
  <2>11. Live' = Live /\ h \in Live /\ warm' = warm
    BY <1>3, <2>1, <2>7 DEF Live
  <2>12. \A i, j \in DOMAIN cache'[Bucket] : cache'[Bucket][i] = cache'[Bucket][j] => i = j
    BY <2>3, <2>4, <2>5, <2>9
  <2>13. HandleInv'
    <3>1. \A u, v \in Holders' : held'[u] = held'[v] => u = v
      BY <1>2, <1>3, <2>7 DEF HandleInv, Holders
    <3>2. \A u \in Holders' : held'[u] \notin Idle'
      BY <1>2, <1>3, <2>10 DEF Holders
    <3>3. Live' = Idle' \cup {held'[u] : u \in Holders'}
      BY <1>2, <1>3, <2>7, <2>10, <2>11 DEF HandleInv, Holders
    <3> QED
      BY <2>12, <3>1, <3>2, <3>3 DEF HandleInv
  <2>14. ConnTypeOK'
    BY <1>2, <2>1, <2>4 DEF ConnTypeOK
  <2> QED
    BY <1>2, <2>7, <2>10, <2>11, <2>13, <2>14
<1>5. CASE Create(Bucket, h)
  <2>1. s = << >> /\ h \notin Live /\ shareOf' = [shareOf EXCEPT ![h] = Bucket] /\ UNCHANGED cache
    BY <1>5 DEF Create
  <2>2. Idle = {} /\ Idle' = {}
    BY <2>1 DEF Idle
  <2>3. Live' = Live \cup {h} /\ warm' = warm \ {h}
    BY <2>1 DEF Live, ConnTypeOK
  <2>4. shareOf' \in [Handles -> Domains \cup {None}]
    BY <2>1 DEF ConnTypeOK
  <2>5. HandleInv'
    <3>1. \A u, v \in Holders' : held'[u] = held'[v] => u = v
      BY <1>2, <1>3, <2>1 DEF HandleInv, Holders
    <3>2. Live' = Idle' \cup {held'[u] : u \in Holders'}
      BY <1>2, <2>2, <2>3 DEF HandleInv, Holders
    <3> QED
      BY <2>1, <2>2, <3>1, <3>2 DEF HandleInv
  <2>6. ConnTypeOK'
    BY <1>1, <1>2, <2>1, <2>4 DEF ConnTypeOK
  <2> QED
    BY <1>2, <2>1, <2>2, <2>3, <2>5, <2>6
<1> QED
  BY <1>4, <1>5 DEF AcquireCurlHandle

\* A transfer that ends well puts its handle back with its connection.
LEMMA TransferEnded ==
    ASSUME ConnTypeOK, HandleInv, NEW t \in Holders, EndTransfer(t)
    PROVE  /\ ConnTypeOK' /\ HandleInv'
           /\ Holders' = Holders \ {t} /\ Idle' = Idle \cup {held[t]} /\ Live' = Live
           /\ \A u \in Tasks \ {t} : held'[u] = held[u] /\ transfer'[u] = transfer[u]
           /\ held'[t] = None /\ transfer'[t] = "ok" /\ warm' = warm \cup {held[t]}
           /\ held[t] \in Handles
<1> USE TheBucket, HandlesAssumption
<1> DEFINE s == cache[Bucket]
           n == Len(s)
           h == held[t]
           r == Append(s, h)
<1>1. /\ s \in Seq(Handles) /\ n \in Nat /\ DOMAIN s = 1 .. n
      /\ cache \in [Domains -> Seq(Handles)] /\ h \in Handles /\ t \in Tasks /\ h \notin Idle
  BY DEF ConnTypeOK, Holders, HandleInv
<1>2. /\ r \in Seq(Handles) /\ DOMAIN r = 1 .. n + 1 /\ \A i \in 1 .. n : r[i] = s[i]
      /\ r[n + 1] = h
  BY <1>1
<1>3. /\ cache' = [cache EXCEPT ![Bucket] = r] /\ UNCHANGED shareOf
      /\ held' = [held EXCEPT ![t] = None] /\ warm' = warm \cup {h}
      /\ transfer' = [transfer EXCEPT ![t] = "ok"]
  BY DEF EndTransfer, ReleaseCurlHandle
<1>4. cache' \in [Domains -> Seq(Handles)] /\ cache'[Bucket] = r
  BY <1>1, <1>2, <1>3
<1>5. Idle = {s[i] : i \in 1 .. n} /\ Idle' = {r[i] : i \in 1 .. n + 1}
  BY <1>1, <1>2, <1>4 DEF Idle
<1>6. /\ Holders' = Holders \ {t} /\ held'[t] = None /\ transfer'[t] = "ok"
      /\ \A u \in Tasks \ {t} : held'[u] = held[u] /\ transfer'[u] = transfer[u]
      /\ held' \in [Tasks -> Handles \cup {None}] /\ warm' \subseteq Handles
      /\ transfer' \in [Tasks -> {"none", "ok", "failed"}]
  BY <1>1, <1>3 DEF ConnTypeOK, Holders
<1>7. \A i, j \in 1 .. n : s[i] = s[j] => i = j
  BY <1>1 DEF HandleInv
<1>8. Live' = Live
  BY <1>3 DEF Live
<1>9. shareOf' \in [Handles -> Domains \cup {None}]
  BY <1>3 DEF ConnTypeOK
<1>10. held[t] = h
  OBVIOUS
<1> HIDE DEF s, n, r, h
<1>11. \A i \in 1 .. n + 1 : i \in 1 .. n \/ i = n + 1
  BY <1>1
<1>12. 1 .. n \subseteq 1 .. n + 1 /\ n + 1 \in 1 .. n + 1
  BY <1>1
<1>13. Idle' = Idle \cup {h}
  BY <1>2, <1>5, <1>11, <1>12
<1>14. \A i, j \in DOMAIN cache'[Bucket] : cache'[Bucket][i] = cache'[Bucket][j] => i = j
  BY <1>1, <1>2, <1>4, <1>5, <1>7, <1>11
<1>15. HandleInv'
  <2>1. \A u, v \in Holders' : held'[u] = held'[v] => u = v
    BY <1>6 DEF HandleInv, Holders
  <2>2. \A u \in Holders' : held'[u] \notin Idle'
    BY <1>6, <1>10, <1>13 DEF HandleInv, Holders
  <2>3. Live' = Idle' \cup {held'[u] : u \in Holders'}
    BY <1>6, <1>8, <1>10, <1>13 DEF HandleInv, Holders
  <2> QED
    BY <1>14, <2>1, <2>2, <2>3 DEF HandleInv
<1>16. ConnTypeOK'
  BY <1>4, <1>6, <1>9 DEF ConnTypeOK
<1> QED
  BY <1>1, <1>3, <1>6, <1>8, <1>10, <1>13, <1>15, <1>16

\* A transfer that fails destroys its handle with its connection.
LEMMA TransferFailed ==
    ASSUME ConnTypeOK, HandleInv, NEW t \in Holders, FailTransfer(t)
    PROVE  /\ ConnTypeOK' /\ HandleInv'
           /\ Holders' = Holders \ {t} /\ Idle' = Idle /\ Live' \subseteq Live
           /\ \A u \in Tasks \ {t} : held'[u] = held[u] /\ transfer'[u] = transfer[u]
           /\ held'[t] = None /\ transfer'[t] = "failed" /\ warm' = warm \ {held[t]}
<1> USE TheBucket, HandlesAssumption, DomainsAssumption
<1>1. t \in Tasks /\ held[t] \in Handles /\ held[t] \notin Idle
  BY DEF ConnTypeOK, Holders, HandleInv
<1>2. /\ UNCHANGED cache /\ shareOf' = [shareOf EXCEPT ![held[t]] = None]
      /\ held' = [held EXCEPT ![t] = None] /\ warm' = warm \ {held[t]}
      /\ transfer' = [transfer EXCEPT ![t] = "failed"]
  BY DEF FailTransfer, DestroyCurlHandle
<1>3. /\ Holders' = Holders \ {t} /\ held'[t] = None /\ transfer'[t] = "failed"
      /\ \A u \in Tasks \ {t} : held'[u] = held[u] /\ transfer'[u] = transfer[u]
      /\ ConnTypeOK'
  BY <1>1, <1>2 DEF ConnTypeOK, Holders
<1>4. Idle' = Idle
  BY <1>2 DEF Idle
<1>5. Live' = Live \ {held[t]}
  BY <1>1, <1>2 DEF Live, ConnTypeOK
<1>6. Live' = Idle' \cup {held'[u] : u \in Holders'}
  BY <1>1, <1>3, <1>4, <1>5 DEF HandleInv, Holders
<1>7. HandleInv'
  BY <1>2, <1>3, <1>4, <1>6 DEF HandleInv, Holders
<1> QED
  BY <1>2, <1>3, <1>4, <1>5, <1>7

-----------------------------------------------------------------------------
(* The steps of the Downloader, as they go with the cache.                 *)

\* Seen without its handles, this is a Downloader.
LEMMA WarmSteps ==
    ASSUME [WarmNext]_warmVars
    PROVE  DownloaderCall \/ DownloaderStep \/ UNCHANGED dlVars
<1> USE TasksAssumption
<1>1. CASE OtherStep
  BY <1>1 DEF OtherStep, Destroy, Terminated, DownloaderCall, DownloaderStep, TaskStep, InitStep
<1>2. ASSUME NEW t \in Inits,
             ConnectInit(t) \/ ArriveInit(t) \/ MissInit(t) \/ ReturnInit(t) \/ FinishInit(t)
      PROVE  DownloaderStep \/ UNCHANGED dlVars
  BY <1>2 DEF ConnectInit, ArriveInit, MissInit, ReturnInit, FinishInit, DownloaderStep, TaskStep,
              InitStep
<1>3. ASSUME NEW t \in Downloads, StartGet(t) \/ RetryGet(t) \/ ReturnGet(t) \/ FinishGet(t)
      PROVE  DownloaderStep \/ UNCHANGED dlVars
  BY <1>3 DEF StartGet, RetryGet, ReturnGet, FinishGet, DownloaderStep, TaskStep
<1>4. CASE UNCHANGED warmVars
  BY <1>4 DEF warmVars
<1> QED
  BY <1>1, <1>2, <1>3, <1>4 DEF WarmNext

\* How a task may go on while its handle stays where it is.
Goes(t) ==
    \/ step'[t] = step[t]
    \/ step[t] = "none" /\ step'[t] = IF t \in Inits THEN "check" ELSE "get"
    \/ step[t] = "check" /\ step'[t] = "done"
    \/ step[t] = "blocked" /\ step'[t] = "recheck"
    \/ step[t] = "recheck" /\ step'[t] = "blocked"
    \/ step[t] \in {"recheck", "release"} /\ step'[t] = "reply" /\ init_counter >= InitCount(t)

\* Such a step keeps TransferInv, if the barrier does not close.
LEMMA TransferFrame ==
    ASSUME DlInv, TransferInv, UNCHANGED <<held, transfer, batch>>,
           init_counter' \in Int, init_counter' >= init_counter, \A t \in Tasks : Goes(t)
    PROVE  TransferInv'
<1>1. Holders' = Holders /\ Holders \subseteq Tasks /\ Inits \subseteq Tasks /\ batch \subseteq Inits
      /\ init_counter \in Int /\ \A t \in Inits : InitCount(t) \in Int
  BY TasksAssumption, BatchFacts, CountFacts DEF Holders, DlInv, TypeOK
<1>2. \A t \in Holders : transfer'[t] = "none" /\ step'[t] \notin {"none", "check", "done"}
  BY <1>1 DEF TransferInv, Goes
<1>3. \A t \in Inits : step'[t] \in {"connect", "blocked", "recheck"} => t \in Holders
  BY <1>1 DEF TransferInv, Goes
<1>4. \A t \in Inits : transfer'[t] # "none" => step'[t] \in {"release", "reply", "done"}
  BY <1>1 DEF TransferInv, Goes
<1>5. \A t \in batch : transfer'[t] = "ok" \/ (step'[t] = "reply" /\ t \in Holders) =>
         init_counter' >= InitCount(t)
  BY <1>1 DEF TransferInv, Goes
<1> QED
  BY <1>1, <1>2, <1>3, <1>4, <1>5 DEF TransferInv

\* The steps that concern no handle.
LEMMA TransferOther ==
    ASSUME DlInv, DlInv', TransferInv, OtherStep
    PROVE  TransferInv'
<1> USE TasksAssumption
<1>0. /\ UNCHANGED connVars /\ UNCHANGED <<held, transfer>> /\ step \in [Tasks -> Steps]
      /\ init_counter \in Int /\ init_counter' \in Int
  BY DEF OtherStep, connVars, DlInv, TypeOK
<1>1. ASSUME NEW B \in Batches, InitConnections(B)
      PROVE  TransferInv'
  <2>1. batch' = B /\ step' = step /\ \A t \in B : t \in Inits /\ t \in Tasks /\ t \notin Started
    BY <1>1 DEF InitConnections, taskVars, Unseen, Started, Inits
  <2>2. \A t \in B : step[t] = "none"
    BY <2>1 DEF DlInv, TaskInv
  <2> QED
    BY <1>0, <2>1, <2>2 DEF TransferInv, Holders
<1>2. ASSUME NEW d \in Downloads, ScheduleDownload(d)
      PROVE  TransferInv'
  <2>1. UNCHANGED <<batch, step>> /\ init_counter' = PoolSize
    BY <1>2 DEF ScheduleDownload, taskVars
  <2>2. \A t \in batch : init_counter' >= InitCount(t)
    BY <2>1, BatchFacts, CountFacts, PoolSizeAssumption DEF DlInv
  <2> QED
    BY <1>0, <2>1, <2>2 DEF TransferInv, Holders
<1>3. CASE ProcessResponses \/ Destroy \/ Terminated \/ \E t \in Tasks : FinishTask(t)
  <2>1. UNCHANGED <<init_counter, batch, step>>
    BY <1>3 DEF ProcessResponses, Destroy, DestroyMembers, Terminated, FinishTask, dispatchVars,
                taskVars, dlVars
  <2> QED
    BY <1>0, <2>1, TransferFrame DEF Goes
<1>4. CASE DispatcherStep
  <2>1. UNCHANGED <<init_counter, batch>> /\ \A t \in Tasks : Goes(t)
    <3>1. CASE NotifyInits
      BY <1>0, <3>1 DEF NotifyInits, WakeAll, Blocked, Goes
    <3>2. CASE ~NotifyInits
      BY <1>4, <3>2 DEF DispatcherStep, PushInit, PushDownload, DestroyQueue, dispatchVars, taskVars,
                        Goes
    <3> QED
      BY <3>1, <3>2
  <2> QED
    BY <1>0, <2>1, TransferFrame
<1>5. CASE BeginTask
  <2>1. UNCHANGED <<init_counter, batch>> /\ \A t \in Tasks : Goes(t)
    BY <1>0, <1>5 DEF BeginTask, Goto, dispatchVars, Goes
  <2> QED
    BY <1>0, <2>1, TransferFrame
<1>6. ASSUME NEW t \in Inits, Abort(t) \/ Recheck(t) \/ Release(t) \/ SpuriousWakeup(t)
      PROVE  TransferInv'
  <2>1. UNCHANGED <<init_counter, batch>>
    BY <1>6 DEF Abort, Recheck, Release, SpuriousWakeup, dispatchVars
  <2>2. InitCount(t) \in Int
    BY CountFacts
  <2>3. \A u \in Tasks : Goes(u)
    <3>1. CASE Release(t)
      BY <1>0, <3>1 DEF Release, WakeAll, Blocked, Goes, DlInv, BarrierInv
    <3>2. CASE Abort(t) \/ Recheck(t) \/ SpuriousWakeup(t)
      BY <1>0, <2>2, <3>2 DEF Abort, Recheck, SpuriousWakeup, Goto, Goes
    <3> QED
      BY <1>6, <3>1, <3>2
  <2> QED
    BY <1>0, <2>1, <2>3, TransferFrame
<1> QED
  BY <1>1, <1>2, <1>3, <1>4, <1>5, <1>6 DEF OtherStep

-----------------------------------------------------------------------------
(* Counting connections.                                                   *)

\* The sets that OneConnectionPerInit counts are finite.
CountsFinite ==
    /\ IsFiniteSet(Okay) /\ Cardinality(Okay) \in Nat
    /\ IsFiniteSet(Usable) /\ Cardinality(Usable) \in Nat

\* Inits and handles are finite.
LEMMA FiniteCounts == TypeOK /\ ConnTypeOK => CountsFinite
<1> SUFFICES ASSUME TypeOK, ConnTypeOK
             PROVE  CountsFinite
  OBVIOUS
<1>1. Okay \in SUBSET batch /\ IsFiniteSet(batch)
  BY BatchFacts DEF Okay
<1>2. Usable \in SUBSET Handles /\ IsFiniteSet(Handles)
  BY HandlesAssumption DEF Usable, ConnTypeOK
<1> QED
  BY <1>1, <1>2, FS_Subset, FS_CardinalityType DEF CountsFinite

\* OneConnectionPerInit, in these terms.
LEMMA OneConnection ==
    OneConnectionPerInit
      <=> (~interrupted /\ failing = {} => Cardinality(Okay) <= Cardinality(Usable))
BY DEF OneConnectionPerInit, Okay, Usable

\* A step that finishes no init and loses no connection.
LEMMA CountKept ==
    ASSUME TypeOK, ConnTypeOK, TypeOK', ConnTypeOK', OneConnectionPerInit,
           ~interrupted' /\ failing' = {} => ~interrupted /\ failing = {},
           Okay' \subseteq Okay, Usable \subseteq Usable'
    PROVE  OneConnectionPerInit'
<1>1. /\ IsFiniteSet(Okay) /\ Cardinality(Okay) \in Nat
      /\ IsFiniteSet(Usable) /\ Cardinality(Usable) \in Nat
  BY FiniteCounts DEF CountsFinite
<1>2. /\ IsFiniteSet(Okay') /\ Cardinality(Okay') \in Nat
      /\ IsFiniteSet(Usable') /\ Cardinality(Usable') \in Nat
  <2>1. CountsFinite'
    BY FiniteCounts, PTL
  <2> QED
    BY <2>1 DEF CountsFinite
<1>3. Cardinality(Okay') <= Cardinality(Okay)
  BY <1>1, FS_Subset
<1>4. Cardinality(Usable) <= Cardinality(Usable')
  BY <1>2, FS_Subset
<1>5. ASSUME ~interrupted' /\ failing' = {}
      PROVE  Cardinality(Okay') <= Cardinality(Usable')
  <2>1. Cardinality(Okay) <= Cardinality(Usable)
    BY <1>5, OneConnection
  <2> QED
    BY <1>1, <1>2, <1>3, <1>4, <2>1
<1> QED
  BY <1>5 DEF OneConnectionPerInit, Okay, Usable

\* No init has finished yet.
LEMMA CountZero ==
    ASSUME TypeOK', ConnTypeOK', Okay' = {}
    PROVE  OneConnectionPerInit'
<1>1. Cardinality(Okay') = 0
  BY FS_EmptySet
<1>2. Cardinality(Usable') \in Nat
  <2>1. CountsFinite'
    BY FiniteCounts, PTL
  <2> QED
    BY <2>1 DEF CountsFinite
<1>3. Cardinality(Okay') <= Cardinality(Usable')
  BY <1>1, <1>2
<1> QED
  BY <1>3 DEF OneConnectionPerInit, Okay, Usable

\* An init that finishes brings a connection of its own.
LEMMA CountGrows ==
    ASSUME TypeOK, ConnTypeOK, TypeOK', ConnTypeOK', OneConnectionPerInit,
           UNCHANGED <<interrupted, failing>>,
           NEW t, NEW h, h \notin Usable, Okay' = Okay \cup {t}, Usable \cup {h} \subseteq Usable'
    PROVE  OneConnectionPerInit'
<1>1. /\ IsFiniteSet(Okay) /\ Cardinality(Okay) \in Nat
      /\ IsFiniteSet(Usable) /\ Cardinality(Usable) \in Nat
  BY FiniteCounts DEF CountsFinite
<1>2. IsFiniteSet(Usable') /\ Cardinality(Usable') \in Nat
  <2>1. CountsFinite'
    BY FiniteCounts, PTL
  <2> QED
    BY <2>1 DEF CountsFinite
<1>3. Cardinality(Okay \cup {t}) <= Cardinality(Okay) + 1
  <2>1. Cardinality(Okay \cup {t})
          = IF t \in Okay THEN Cardinality(Okay) ELSE Cardinality(Okay) + 1
    BY <1>1, FS_AddElement
  <2> QED
    BY <1>1, <2>1
<1>4. Cardinality(Usable \cup {h}) = Cardinality(Usable) + 1
  BY <1>1, FS_AddElement
<1>5. Cardinality(Usable \cup {h}) <= Cardinality(Usable')
  BY <1>2, FS_Subset
<1>6. Cardinality(Okay') = Cardinality(Okay \cup {t}) /\ Cardinality(Okay \cup {t}) \in Nat
  <2>1. IsFiniteSet(Okay \cup {t})
    BY <1>1, FS_AddElement
  <2> QED
    BY <2>1, FS_CardinalityType
<1>7. ASSUME ~interrupted' /\ failing' = {}
      PROVE  Cardinality(Okay') <= Cardinality(Usable')
  <2>1. Cardinality(Okay) <= Cardinality(Usable)
    BY <1>7, OneConnection
  <2> QED
    BY <1>1, <1>2, <1>3, <1>4, <1>5, <1>6, <2>1
<1> QED
  BY <1>7 DEF OneConnectionPerInit, Okay, Usable

\* A handle is created by a running task, and only when none is idle: those
\* that exist are with the other running tasks.
LEMMA CreatedWithinPool ==
    ASSUME DlInv, RunningBounded, ConnTypeOK, HandleInv, TransferInv,
           NEW t \in Tasks \ Holders, step[t] \notin {"none", "done"}, Idle = {},
           NEW h, Live' = Live \cup {h}
    PROVE  ConnectionsWithinPool'
<1> DEFINE R == running \ {t}
           f == [u \in Holders |-> held[u]]
           H == {held[u] : u \in Holders}
<1>1. \A u \in Tasks : step[u] \notin {"none", "done"} => u \in running
  BY DEF DlInv, TaskInv, Started
<1>2. Holders \in SUBSET R
  BY <1>1 DEF TransferInv, Holders
<1>3. IsFiniteSet(running) /\ Cardinality(running) \in Nat /\ Cardinality(running) <= PoolSize
      /\ PoolSize \in Nat
  BY FS_CardinalityType, PoolSizeAssumption DEF RunningBounded
<1>4. IsFiniteSet(R) /\ Cardinality(R) = Cardinality(running) - 1
  BY <1>1, <1>3, FS_RemoveElement
<1>5. IsFiniteSet(Holders) /\ Cardinality(Holders) <= Cardinality(R)
  BY <1>2, <1>4, FS_Subset
<1>6. f \in Surjection(Holders, H)
  BY DEF Surjection
<1>7. IsFiniteSet(H) /\ Cardinality(H) <= Cardinality(Holders)
  BY <1>5, <1>6, FS_Surjection
<1>8. Live = H
  BY DEF HandleInv
<1>9. Cardinality(H \cup {h}) <= Cardinality(H) + 1
  <2>1. Cardinality(H \cup {h}) = IF h \in H THEN Cardinality(H) ELSE Cardinality(H) + 1
    BY <1>7, FS_AddElement
  <2> QED
    BY <1>7, <2>1, FS_CardinalityType
<1>10. /\ Cardinality(H) \in Nat /\ Cardinality(Holders) \in Nat /\ Cardinality(R) \in Nat
       /\ Cardinality(H \cup {h}) \in Nat
  BY <1>4, <1>5, <1>7, FS_CardinalityType, FS_AddElement
<1>11. Cardinality(Live') = Cardinality(H \cup {h})
  BY <1>8
<1> HIDE DEF H, R
<1>12. Cardinality(Live') <= PoolSize
  BY <1>3, <1>4, <1>5, <1>7, <1>9, <1>10, <1>11
<1> QED
  BY <1>12 DEF ConnectionsWithinPool

\* Every other step creates none.
LEMMA NoneCreated ==
    ASSUME ConnectionsWithinPool, Live' \subseteq Live
    PROVE  ConnectionsWithinPool'
<1>1. Live \in SUBSET Handles /\ IsFiniteSet(Handles)
  BY HandlesAssumption DEF Live
<1>2. IsFiniteSet(Live) /\ Cardinality(Live) \in Nat
  BY <1>1, FS_Subset, FS_CardinalityType
<1>3. IsFiniteSet(Live') /\ Cardinality(Live') <= Cardinality(Live)
  BY <1>2, FS_Subset
<1>4. Cardinality(Live') \in Nat
  BY <1>3, FS_CardinalityType
<1>5. Cardinality(Live') <= PoolSize
  BY <1>2, <1>3, <1>4, PoolSizeAssumption DEF ConnectionsWithinPool
<1> QED
  BY <1>5 DEF ConnectionsWithinPool

-----------------------------------------------------------------------------
(* The steps of an init.                                                   *)

\* The handle of an init is of no use to a download while the init has it.
LEMMA HeldByInit ==
    ASSUME ConnInv, NEW t \in Inits, t \in Holders
    PROVE  /\ t \in Tasks /\ t \notin Downloads /\ held[t] \in Handles /\ held[t] \notin Available
           /\ Available = Idle \cup {held[u] : u \in Downloads}
           /\ \A u \in Downloads : u \in Tasks /\ u # t
<1>1. /\ t \in Tasks /\ t \notin Downloads /\ held[t] \in Handles
      /\ \A u \in Downloads : u \in Tasks /\ u # t
  BY TasksAssumption DEF Holders, ConnInv, ConnTypeOK
<1>2. held[t] \notin Idle /\ \A u \in Downloads : held[u] # held[t]
  BY <1>1, HandlesAssumption DEF ConnInv, HandleInv, Holders
<1>3. Available = Idle \cup {held[u] : u \in Downloads}
  BY DEF Available, Idle
<1> QED
  BY <1>1, <1>2, <1>3

\* An init that connects takes the place of none that has finished.
LEMMA ConnectStep ==
    ASSUME WarmInv, DlInv', NEW t \in Inits, ConnectInit(t)
    PROVE  ConnInv'
<1> USE TasksAssumption DEF WarmInv, ConnInv
<1>1. /\ step[t] = "check" /\ step' = [step EXCEPT ![t] = "connect"] /\ t \in Tasks
      /\ init_counter < InitCount(t) /\ UNCHANGED <<init_counter, batch, interrupted, result>>
      /\ step \in [Tasks -> Steps] /\ init_counter \in Int
  BY DEF ConnectInit, Connect, Goto, dispatchVars, DlInv, TypeOK
<1>2. t \in Tasks \ Holders /\ transfer[t] = "none"
  BY <1>1 DEF TransferInv, ConnTypeOK
<1>3. PICK h \in Handles :
         /\ AcquireCurlHandle(Bucket, "init", h)
         /\ held' = [held EXCEPT ![t] = h]
         /\ warm' = IF h \in Live THEN warm ELSE warm \ {h}
  BY DEF ConnectInit, StartTransfer
<1>4. UNCHANGED <<transfer, failing>>
  BY DEF ConnectInit, StartTransfer
<1>5. /\ ConnTypeOK' /\ HandleInv'
      /\ Holders' = Holders \cup {t} /\ held'[t] = h /\ Idle' = Idle \ {h}
      /\ \A u \in Tasks \ {t} : held'[u] = held[u]
      /\ \/ h \in Idle /\ Live' = Live /\ warm' = warm
         \/ Idle = {} /\ h \notin Live /\ Live' = Live \cup {h} /\ warm' = warm \ {h}
  BY <1>2, <1>3, <1>4, Acquired
<1>6. t \in batch
  BY <1>1, UnderWay DEF DlInv
<1>7. TransferInv'
  <2>1. \A u \in Tasks \ {t} : step'[u] = step[u]
    BY <1>1
  <2>2. step'[t] = "connect"
    BY <1>1
  <2>3. batch \subseteq Tasks /\ Inits \subseteq Tasks /\ Holders \subseteq Tasks
    BY BatchFacts DEF DlInv, Holders
  <2> QED
    BY <1>1, <1>2, <1>4, <1>5, <2>1, <2>2, <2>3 DEF TransferInv
<1>8. Okay' = {}
  <2>1. \A u \in batch : InitCount(u) = InitCount(t) /\ InitCount(u) \in Int
    BY <1>6, CountOfBatch, CountFacts DEF DlInv
  <2>2. \A u \in batch : transfer[u] # "ok"
    BY <1>1, <2>1 DEF TransferInv
  <2> QED
    BY <1>1, <1>4, <2>2 DEF Okay
<1>9. OneConnectionPerInit'
  BY <1>5, <1>8, CountZero DEF DlInv
<1>10. ConnectionsWithinPool'
  BY <1>1, <1>2, <1>5, NoneCreated, CreatedWithinPool
<1> QED
  BY <1>5, <1>7, <1>9, <1>10

\* The steps of an init that leave the cache alone.
LEMMA InitQuietStep ==
    ASSUME WarmInv, DlInv', NEW t \in Inits, ArriveInit(t) \/ FinishInit(t)
    PROVE  ConnInv'
<1> USE TasksAssumption DEF WarmInv, ConnInv
<1>1. /\ UNCHANGED <<containerVars, held, transfer, failing, batch, interrupted>>
      /\ step \in [Tasks -> Steps] /\ t \in Tasks
  BY DEF ArriveInit, FinishInit, Arrive, EndInit, connVars, dispatchVars, DlInv, TypeOK
<1>2. /\ \A u \in Tasks \ {t} : step'[u] = step[u]
      /\ \/ /\ step[t] = "connect" /\ step'[t] \in {"blocked", "release"}
            /\ init_counter' = init_counter + 1 /\ warm' = warm \cup {held[t]}
         \/ /\ step[t] = "reply" /\ step'[t] = "done" /\ held[t] = None
            /\ UNCHANGED <<init_counter, warm>>
  BY <1>1 DEF ArriveInit, FinishInit, Arrive, EndInit, Goto, connVars
<1>3. /\ Holders' = Holders /\ Idle' = Idle /\ Live' = Live /\ HandleInv' /\ Available' = Available
      /\ Okay' = Okay
  BY <1>1 DEF Holders, Idle, Live, HandleInv, Available, Okay, containerVars
<1>4. ConnTypeOK' /\ warm \subseteq warm'
  BY <1>1, <1>2 DEF ConnTypeOK, TransferInv, Holders, containerVars
<1>5. TransferInv'
  <2>1. batch \subseteq Inits /\ Inits \subseteq Tasks /\ Holders \subseteq Tasks
    BY BatchFacts DEF DlInv, Holders
  <2>2. /\ init_counter \in Int /\ \A u \in Inits : InitCount(u) \in Int
        /\ init_counter' >= init_counter /\ init_counter' \in Int
    BY <1>2, CountFacts DEF DlInv, TypeOK
  <2>3. step[t] = "connect" => t \in Holders
    BY DEF TransferInv
  <2>4. step[t] = "reply" => t \notin Holders
    BY <1>2 DEF Holders
  <2>5. \A u \in batch : transfer[u] = "ok" \/ (step'[u] = "reply" /\ u \in Holders) =>
           init_counter' >= InitCount(u)
    BY <1>1, <1>2, <2>1, <2>2 DEF TransferInv
  <2> QED
    BY <1>1, <1>2, <1>3, <2>1, <2>3, <2>4, <2>5 DEF TransferInv
<1>6. OneConnectionPerInit'
  BY <1>1, <1>3, <1>4, CountKept DEF DlInv, Usable
<1> QED
  BY <1>3, <1>4, <1>5, <1>6, NoneCreated

\* The request of an init fails: no finished init had this connection.
LEMMA InitFails ==
    ASSUME WarmInv, DlInv', NEW t \in Inits, MissInit(t) \/ (ReturnInit(t) /\ FailTransfer(t))
    PROVE  ConnInv'
<1> USE TasksAssumption DEF WarmInv, ConnInv
<1>1. /\ FailTransfer(t) /\ UNCHANGED <<batch, interrupted>> /\ t \in Tasks
      /\ step \in [Tasks -> Steps]
  BY DEF MissInit, ReturnInit, Miss, dispatchVars, dlVars, DlInv, TypeOK
<1>2. /\ \A u \in Tasks \ {t} : step'[u] = step[u]
      /\ \/ /\ step[t] = "connect" /\ step'[t] \in {"release", "reply"}
            /\ init_counter' = init_counter + 1
         \/ /\ step[t] = "reply" /\ step'[t] = "reply" /\ init_counter' = init_counter
            /\ held[t] # None
  BY <1>1 DEF MissInit, ReturnInit, Miss, Goto, dlVars, taskVars
<1>3. t \in Holders
  BY <1>1, <1>2 DEF TransferInv, Holders
<1>4. /\ ConnTypeOK' /\ HandleInv'
      /\ Holders' = Holders \ {t} /\ Idle' = Idle /\ Live' \subseteq Live
      /\ \A u \in Tasks \ {t} : held'[u] = held[u] /\ transfer'[u] = transfer[u]
      /\ held'[t] = None /\ transfer'[t] = "failed" /\ warm' = warm \ {held[t]}
  BY <1>1, <1>3, TransferFailed
<1>5. batch \subseteq Inits /\ Inits \subseteq Tasks /\ Holders \subseteq Tasks
  BY BatchFacts DEF DlInv, Holders
<1>6. TransferInv'
  <2>1. /\ init_counter \in Int /\ \A u \in Inits : InitCount(u) \in Int
        /\ init_counter' >= init_counter /\ init_counter' \in Int
    BY <1>2, CountFacts DEF DlInv, TypeOK
  <2>2. \A u \in batch : transfer'[u] = "ok" \/ (step'[u] = "reply" /\ u \in Holders') =>
           init_counter' >= InitCount(u)
    BY <1>2, <1>4, <1>5, <2>1 DEF TransferInv
  <2> QED
    BY <1>1, <1>2, <1>4, <1>5, <2>2 DEF TransferInv
<1>7. failing' = failing
  BY <1>1 DEF FailTransfer
<1>8. Okay' \subseteq Okay
  BY <1>1, <1>4, <1>5 DEF Okay
<1>9. Usable \subseteq Usable'
  <2>1. /\ held[t] \notin Available /\ Available = Idle \cup {held[u] : u \in Downloads}
        /\ \A u \in Downloads : held'[u] = held[u]
    BY <1>3, <1>4, HeldByInit
  <2>2. Available' = Idle' \cup {held'[u] : u \in Downloads}
    BY DEF Available, Idle
  <2> QED
    BY <1>4, <2>1, <2>2 DEF Usable
<1>10. OneConnectionPerInit'
  BY <1>1, <1>4, <1>7, <1>8, <1>9, CountKept DEF DlInv
<1> QED
  BY <1>4, <1>6, <1>10, NoneCreated

\* The request of an init succeeds: its connection becomes available.
LEMMA InitSucceeds ==
    ASSUME WarmInv, DlInv', NEW t \in Inits, ReturnInit(t), EndTransfer(t)
    PROVE  ConnInv'
<1> USE TasksAssumption DEF WarmInv, ConnInv
<1>1. /\ step[t] = "reply" /\ t \in Tasks /\ t \in Holders
      /\ UNCHANGED <<batch, interrupted, init_counter, step, failing>>
  BY DEF ReturnInit, dispatchVars, dlVars, taskVars, Holders, EndTransfer
<1>2. /\ ConnTypeOK' /\ HandleInv'
      /\ Holders' = Holders \ {t} /\ Idle' = Idle \cup {held[t]} /\ Live' = Live
      /\ \A u \in Tasks \ {t} : held'[u] = held[u] /\ transfer'[u] = transfer[u]
      /\ held'[t] = None /\ transfer'[t] = "ok" /\ warm' = warm \cup {held[t]}
  BY <1>1, TransferEnded
<1>3. batch \subseteq Inits /\ Inits \subseteq Tasks /\ Holders \subseteq Tasks /\ t \in batch
  BY <1>1, BatchFacts, UnderWay DEF DlInv, Holders
<1>4. TransferInv'
  BY <1>1, <1>2, <1>3 DEF TransferInv
<1>5. Okay' = Okay \cup {t}
  BY <1>1, <1>2, <1>3 DEF Okay
<1>6. held[t] \notin Usable /\ Usable \cup {held[t]} \subseteq Usable'
  <2>1. /\ held[t] \notin Available /\ Available = Idle \cup {held[u] : u \in Downloads}
        /\ \A u \in Downloads : held'[u] = held[u]
    BY <1>1, <1>2, HeldByInit
  <2>2. Available' = Idle' \cup {held'[u] : u \in Downloads}
    BY DEF Available, Idle
  <2> QED
    BY <1>2, <2>1, <2>2 DEF Usable
<1>7. OneConnectionPerInit'
  BY <1>1, <1>2, <1>5, <1>6, CountGrows DEF DlInv
<1> QED
  BY <1>2, <1>4, <1>7, NoneCreated

-----------------------------------------------------------------------------
(* The steps of a download.                                                *)

\* A download that starts a transfer takes no connection away: it keeps the one
\* it takes, and a new handle had none.
LEMMA GetStarts ==
    ASSUME WarmInv, DlInv', NEW t \in Downloads, StartGet(t)
    PROVE  ConnInv'
<1> USE TasksAssumption, HandlesAssumption DEF WarmInv, ConnInv
<1>1. /\ step[t] = "get" /\ t \in Tasks \ Holders /\ transfer[t] = "none" /\ held[t] = None
      /\ UNCHANGED <<step, init_counter, batch, interrupted, transfer, failing>>
  BY DEF StartGet, StartTransfer, dlVars, dispatchVars, taskVars, Holders
<1>2. PICK h \in Handles :
         /\ AcquireCurlHandle(Bucket, "download", h)
         /\ held' = [held EXCEPT ![t] = h]
         /\ warm' = IF h \in Live THEN warm ELSE warm \ {h}
  BY DEF StartGet, StartTransfer
<1>3. /\ ConnTypeOK' /\ HandleInv'
      /\ Holders' = Holders \cup {t} /\ held'[t] = h /\ Idle' = Idle \ {h}
      /\ \A u \in Tasks \ {t} : held'[u] = held[u]
      /\ \/ h \in Idle /\ Live' = Live /\ warm' = warm
         \/ Idle = {} /\ h \notin Live /\ Live' = Live \cup {h} /\ warm' = warm \ {h}
  BY <1>1, <1>2, Acquired
<1>4. TransferInv'
  <2>1. batch \subseteq Inits /\ Inits \subseteq Tasks /\ Holders \subseteq Tasks /\ t \notin Inits
    BY BatchFacts DEF DlInv, Holders
  <2> QED
    BY <1>1, <1>3, <2>1 DEF TransferInv
<1>5. Okay' = Okay
  BY <1>1 DEF Okay
<1>6. Usable \subseteq Usable'
  <2>1. /\ Available = Idle \cup {held[u] : u \in Downloads}
        /\ Available' = Idle' \cup {held'[u] : u \in Downloads}
    BY DEF Available, Idle
  <2>2. \A u \in Downloads : u # t => held'[u] = held[u]
    BY <1>3
  <2>3. None \notin warm
    BY DEF ConnTypeOK
  <2>4. Available \ {None} \subseteq Available'
    BY <1>1, <1>3, <2>1, <2>2
  <2>5. Available \ {None} \subseteq Live
    BY <2>1 DEF HandleInv, Holders
  <2> QED
    BY <1>3, <2>3, <2>4, <2>5 DEF Usable
<1>7. OneConnectionPerInit'
  BY <1>1, <1>3, <1>5, <1>6, CountKept DEF DlInv
<1>8. ConnectionsWithinPool'
  BY <1>1, <1>3, NoneCreated, CreatedWithinPool
<1> QED
  BY <1>3, <1>4, <1>7, <1>8

\* A transfer of a download ends.  If it fails, a connection may be lost.
LEMMA GetReturns ==
    ASSUME WarmInv, DlInv', NEW t \in Downloads, ReturnGet(t)
    PROVE  ConnInv'
<1> USE TasksAssumption DEF WarmInv, ConnInv
<1>1. /\ step[t] = "get" /\ t \in Holders /\ t \notin Inits
      /\ UNCHANGED <<step, init_counter, batch, interrupted>>
  BY DEF ReturnGet, dlVars, dispatchVars, taskVars, Holders
<1>2. batch \subseteq Inits /\ Inits \subseteq Tasks /\ Holders \subseteq Tasks
  BY BatchFacts DEF DlInv, Holders
<1>3. CASE EndTransfer(t)
  <2>1. /\ ConnTypeOK' /\ HandleInv'
        /\ Holders' = Holders \ {t} /\ Idle' = Idle \cup {held[t]} /\ Live' = Live
        /\ \A u \in Tasks \ {t} : held'[u] = held[u] /\ transfer'[u] = transfer[u]
        /\ held'[t] = None /\ transfer'[t] = "ok" /\ warm' = warm \cup {held[t]}
    BY <1>1, <1>3, TransferEnded
  <2>2. TransferInv'
    BY <1>1, <1>2, <2>1 DEF TransferInv
  <2>3. Okay' = Okay
    BY <1>1, <1>2, <2>1 DEF Okay
  <2>4. Usable \subseteq Usable'
    <3>1. /\ Available = Idle \cup {held[u] : u \in Downloads}
          /\ Available' = Idle' \cup {held'[u] : u \in Downloads}
      BY DEF Available, Idle
    <3>2. \A u \in Downloads : u # t => held'[u] = held[u]
      BY <2>1
    <3>3. Available \subseteq Available'
      BY <2>1, <3>1, <3>2
    <3> QED
      BY <2>1, <3>3 DEF Usable
  <2>5. failing' = failing
    BY <1>3 DEF EndTransfer
  <2>6. OneConnectionPerInit'
    BY <1>1, <2>1, <2>3, <2>4, <2>5, CountKept DEF DlInv
  <2> QED
    BY <2>1, <2>2, <2>6, NoneCreated
<1>4. CASE FailTransfer(t)
  <2>1. /\ ConnTypeOK' /\ HandleInv'
        /\ Holders' = Holders \ {t} /\ Idle' = Idle /\ Live' \subseteq Live
        /\ \A u \in Tasks \ {t} : held'[u] = held[u] /\ transfer'[u] = transfer[u]
        /\ held'[t] = None /\ transfer'[t] = "failed" /\ warm' = warm \ {held[t]}
    BY <1>1, <1>4, TransferFailed
  <2>2. TransferInv'
    BY <1>1, <1>2, <2>1 DEF TransferInv
  <2>3. failing' # {}
    BY <1>4 DEF FailTransfer
  <2>4. OneConnectionPerInit'
    BY <2>3 DEF OneConnectionPerInit
  <2> QED
    BY <2>1, <2>2, <2>4, NoneCreated
<1> QED
  BY <1>3, <1>4 DEF ReturnGet

\* A download tries again, or is over.
LEMMA GetQuietStep ==
    ASSUME WarmInv, DlInv', NEW t \in Downloads, RetryGet(t) \/ FinishGet(t)
    PROVE  ConnInv'
<1> USE TasksAssumption DEF WarmInv, ConnInv
<1>1. /\ UNCHANGED <<containerVars, held, warm, failing, init_counter, batch, interrupted>>
      /\ step \in [Tasks -> Steps] /\ t \in Tasks /\ t \notin Inits
      /\ transfer \in [Tasks -> {"none", "ok", "failed"}]
  BY DEF RetryGet, FinishGet, Get, connVars, dispatchVars, dlVars, DlInv, TypeOK, ConnTypeOK
<1>2. /\ \A u \in Tasks \ {t} : step'[u] = step[u] /\ transfer'[u] = transfer[u]
      /\ transfer' \in [Tasks -> {"none", "ok", "failed"}]
      /\ \/ transfer'[t] = "none" /\ step'[t] = step[t]
         \/ transfer'[t] = transfer[t] /\ transfer[t] # "none" /\ step'[t] = "done"
  BY <1>1 DEF RetryGet, FinishGet, Get, Goto, connVars, dlVars, taskVars
<1>3. batch \subseteq Inits /\ Inits \subseteq Tasks /\ Holders \subseteq Tasks
  BY BatchFacts DEF DlInv, Holders
<1>4. /\ Holders' = Holders /\ Live' = Live /\ HandleInv' /\ ConnTypeOK' /\ Available' = Available
      /\ Okay' = Okay
  BY <1>1, <1>2, <1>3 DEF Holders, Idle, Live, HandleInv, ConnTypeOK, Available, Okay, containerVars
<1>5. TransferInv'
  BY <1>1, <1>2, <1>3, <1>4 DEF TransferInv
<1>6. OneConnectionPerInit'
  BY <1>1, <1>4, CountKept DEF DlInv, Usable
<1> QED
  BY <1>4, <1>5, <1>6, NoneCreated

-----------------------------------------------------------------------------
(* The theorems about connections.                                         *)

\* A step that concerns no handle.  Only InitConnections changes what is
\* counted: no init of the new batch has finished.
LEMMA QuietStep ==
    ASSUME WarmInv, DlInv', OtherStep \/ UNCHANGED warmVars
    PROVE  ConnInv'
<1> USE DEF WarmInv, ConnInv
<1>1. UNCHANGED connVars
  BY DEF OtherStep, warmVars
<1>2. UNCHANGED <<containerVars, held, warm, transfer, failing>>
  BY <1>1 DEF connVars
<1>3. /\ Holders' = Holders /\ Live' = Live /\ HandleInv' /\ ConnTypeOK' /\ Available' = Available
      /\ Usable' = Usable
  BY <1>2 DEF Holders, Idle, Live, HandleInv, ConnTypeOK, Available, Usable, containerVars
<1>4. TransferInv'
  <2>1. CASE OtherStep
    BY <2>1, TransferOther
  <2>2. CASE UNCHANGED warmVars
    BY <1>2, <1>3, <2>2 DEF warmVars, dlVars, dispatchVars, taskVars, TransferInv
  <2> QED
    BY <2>1, <2>2
<1>5. OneConnectionPerInit'
  <2>1. ASSUME NEW B \in Batches, InitConnections(B)
        PROVE  OneConnectionPerInit'
    <3>1. batch' = B /\ \A t \in B : t \in Inits /\ t \in Tasks /\ t \notin Started
      BY <2>1, TasksAssumption DEF InitConnections, Unseen, Started, Inits
    <3>2. \A t \in B : transfer[t] = "none"
      BY <3>1 DEF DlInv, TaskInv, TransferInv
    <3>3. Okay' = {}
      BY <1>2, <3>1, <3>2 DEF Okay
    <3> QED
      BY <1>3, <3>3, CountZero DEF DlInv
  <2>2. ASSUME batch' = batch, ~interrupted' => ~interrupted
        PROVE  OneConnectionPerInit'
    <3>1. Okay' = Okay
      BY <1>2, <2>2 DEF Okay
    <3> QED
      BY <1>2, <1>3, <2>2, <3>1, CountKept DEF DlInv
  <2>3. \/ \E B \in Batches : InitConnections(B)
        \/ batch' = batch /\ (~interrupted' => ~interrupted)
    BY DEF OtherStep, ScheduleDownload, ProcessResponses, Destroy, DestroyMembers, DispatcherStep,
           PushInit, NotifyInits, PushDownload, DestroyQueue, BeginTask, Terminated, Abort, Recheck,
           Release, SpuriousWakeup, FinishTask, dispatchVars, dlVars, warmVars
  <2> QED
    BY <2>1, <2>2, <2>3
<1> QED
  BY <1>3, <1>4, <1>5, NoneCreated

\* Before the first call there is no handle.
LEMMA WarmInvInit == WarmInit => WarmInv
<1> SUFFICES ASSUME WarmInit
             PROVE  WarmInv
  OBVIOUS
<1> USE TheBucket, HandlesAssumption
<1>1. DlInv
  BY DlInvInit DEF WarmInit
<1>2. RunningBounded
  BY PoolSizeAssumption, FS_EmptySet DEF WarmInit, DownloaderInit, PoolInit, RunningBounded
<1>3. /\ cache \in [Domains -> Seq(Handles)] /\ cache[Bucket] = << >>
      /\ shareOf \in [Handles -> Domains \cup {None}] /\ Live = {}
  BY DEF WarmInit, ContainerInit, Live
<1>4. /\ held \in [Tasks -> Handles \cup {None}] /\ Holders = {} /\ warm = {}
      /\ transfer \in [Tasks -> {"none", "ok", "failed"}] /\ \A t \in Tasks : transfer[t] = "none"
      /\ \A t \in Tasks : step[t] = "none"
  BY DEF WarmInit, DownloaderInit, Holders
<1>5. Idle = {}
  BY <1>3 DEF Idle
<1>6. ConnTypeOK
  BY <1>3, <1>4 DEF ConnTypeOK
<1>7. HandleInv
  BY <1>3, <1>4, <1>5 DEF HandleInv
<1>8. batch = {} /\ Inits \subseteq Tasks
  BY TasksAssumption DEF WarmInit, DownloaderInit
<1>9. TransferInv
  BY <1>4, <1>8 DEF TransferInv
<1>10. OneConnectionPerInit
  <2>1. Okay = {}
    BY <1>8 DEF Okay
  <2>2. Cardinality(Okay) = 0
    BY <2>1, FS_EmptySet
  <2>3. Cardinality(Usable) \in Nat
    BY <1>1, <1>6, FiniteCounts DEF DlInv, CountsFinite
  <2> QED
    BY <2>2, <2>3, OneConnection
<1>11. ConnectionsWithinPool
  BY <1>3, FS_EmptySet, PoolSizeAssumption DEF ConnectionsWithinPool
<1> QED
  BY <1>1, <1>2, <1>6, <1>7, <1>9, <1>10, <1>11 DEF WarmInv, ConnInv

\* WarmInv is inductive.
LEMMA WarmInvStep ==
    ASSUME WarmInv, [WarmNext]_warmVars
    PROVE  WarmInv'
<1>1. DownloaderCall \/ DownloaderStep \/ UNCHANGED dlVars
  BY WarmSteps
<1>2. DlInv'
  BY <1>1, DlInvStep DEF WarmInv
<1>3. RunningBounded'
  BY <1>1, PoolPart, RunningBoundedStep DEF WarmInv
<1>4. ConnInv'
  <2>1. ASSUME NEW t \in Inits, ReturnInit(t)
        PROVE  ConnInv'
    BY <1>2, <2>1, InitFails, InitSucceeds DEF ReturnInit
  <2>2. CASE OtherStep \/ UNCHANGED warmVars
    BY <1>2, <2>2, QuietStep
  <2>3. ASSUME NEW t \in Inits, ConnectInit(t) \/ ArriveInit(t) \/ MissInit(t) \/ FinishInit(t)
        PROVE  ConnInv'
    BY <1>2, <2>3, ConnectStep, InitQuietStep, InitFails
  <2>4. ASSUME NEW t \in Downloads, StartGet(t) \/ RetryGet(t) \/ ReturnGet(t) \/ FinishGet(t)
        PROVE  ConnInv'
    BY <1>2, <2>4, GetStarts, GetReturns, GetQuietStep
  <2> QED
    BY <2>1, <2>2, <2>3, <2>4 DEF WarmNext
<1> QED
  BY <1>2, <1>3, <1>4 DEF WarmInv

\* The invariant, for any pool, cache and number of batches and downloads.
THEOREM WarmInvariant == WarmSpec => []WarmInv
BY WarmInvInit, WarmInvStep, PTL DEF WarmSpec

\* What the barrier is for: unless a download was scheduled or has failed, each
\* init that succeeded has left a connection of its own.
THEOREM InitsWarmTheCache == WarmSpec => []OneConnectionPerInit
<1>1. WarmInv => OneConnectionPerInit
  BY DEF WarmInv, ConnInv
<1> QED
  BY <1>1, WarmInvariant, PTL

\* The cache never has more connections than the pool has workers, although it
\* creates one whenever none is idle.
THEOREM FewConnections == WarmSpec => []ConnectionsWithinPool
<1>1. WarmInv => ConnectionsWithinPool
  BY DEF WarmInv, ConnInv
<1> QED
  BY <1>1, WarmInvariant, PTL

=============================================================================
