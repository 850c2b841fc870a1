------------------------------ MODULE Handlers ------------------------------
(***************************************************************************)
(* The Lambda functions: main() and the handlers of                        *)
(* playground/query-bandwidth.cc ("bandwidth") and of                      *)
(* parquet-raw-reader.cc and parquet-arrow-reader.cc with                  *)
(* aws/parquet-helpers.h ("parquet").  A handler is the dispatcher of one  *)
(* Downloader, which is destroyed when the handler returns.                *)
(*                                                                         *)
(*  - bandwidth opens MAX_PARALLEL connections, waits for all of them, and *)
(*    downloads NB_CHUNCK ranges;                                          *)
(*  - parquet downloads the footer of a file while connections are opened, *)
(*    then a column chunk of each row group.                               *)
(*                                                                         *)
(* synchronizer->wait() followed by ProcessResponses is the Collect of the *)
(* pool, which needs a response to be there (AsyncQueue, WaitReturns and   *)
(* WaitFindsResponse).                                                     *)
(***************************************************************************)
EXTENDS Downloader, SdkLifecycle

CONSTANTS
    Footer,  \* the download of the last 64 KiB of the file
    Files    \* what a parquet file may have for row groups: sets of downloads

VARIABLES
    program,            \* which function the process runs
    hpc,                \* where main or its handler is; "crashed" ends the process
    chuncks,            \* what the handler is to download (after the footer)
    inits_completed,
    downloaded_chuncks

handlerVars == <<program, hpc, chuncks, inits_completed, downloaded_chuncks>>
vars == <<dlVars, sdkVars, handlerVars>>

Chuncks == Downloads \ {Footer}

\* All the inits come from one call.
ASSUME HandlerAssumption ==
    /\ Footer \in Downloads /\ Chuncks # {}
    /\ Batches = {Inits}
    /\ \A f \in Files : f \subseteq Chuncks

\* The values of `chuncks` for a program.
Work(p) == IF p = "bandwidth" THEN {Chuncks} ELSE Files

HandlerInit ==
    /\ DownloaderInit /\ SdkInit
    /\ program \in {"bandwidth", "parquet"}
    /\ hpc = "main"
    /\ chuncks \in Work(program)
    /\ inits_completed = 0
    /\ downloaded_chuncks = 0

At(p, from) == program = p /\ hpc = from

GoOn(to) == hpc' = to /\ UNCHANGED <<program, chuncks, inits_completed, downloaded_chuncks>>

Start ==
    /\ hpc = "main"
    /\ InitializeAwsSdk
    /\ GoOn("start")
    /\ UNCHANGED dlVars

\* GetMetadata schedules the footer before it opens connections.
ScheduleFooter ==
    /\ At("parquet", "start")
    /\ ScheduleDownload(Footer)
    /\ GoOn("init")
    /\ UNCHANGED sdkVars

Open ==
    /\ At("bandwidth", "start") \/ At("parquet", "init")
    /\ InitConnections(Inits)
    /\ GoOn(IF program = "bandwidth" THEN "inits" ELSE "footer")
    /\ UNCHANGED sdkVars

\* bandwidth, one round of the first loop: results are counted, whatever they
\* are.
WaitInits ==
    /\ hpc = "inits"
    /\ ProcessResponses
    /\ inits_completed' = inits_completed + Cardinality(answered)
    /\ hpc' = IF inits_completed' < Cardinality(Inits) THEN "inits" ELSE "schedule"
    /\ UNCHANGED <<sdkVars, program, chuncks, downloaded_chuncks>>

\* parquet, one round of the loop in which any Status ends the process
\* (ValueOrDie), until the response that is not an init has come.
WaitFooter ==
    /\ hpc = "footer"
    /\ ProcessResponses
    /\ GoOn(IF \E t \in answered : result[t] \in {"aborted", "error"} THEN "crashed"
             ELSE IF Footer \in answered THEN "schedule" ELSE "footer")
    /\ UNCHANGED sdkVars

\* ScheduleDownload, or DownloadColumnChunck.
ScheduleChunck(d) ==
    /\ hpc = "schedule"
    /\ d \in chuncks
    /\ ScheduleDownload(d)
    /\ UNCHANGED <<sdkVars, handlerVars>>

StartReading ==
    /\ hpc = "schedule" /\ dpc = "idle"
    /\ Unseen \cap chuncks = {}
    /\ GoOn(IF chuncks = {} THEN "return" ELSE "reading")
    /\ UNCHANGED <<dlVars, sdkVars>>

\* What a round of the last loop does with the responses it pops: `seen` are
\* chunks, unless one of them ends the process.
Count(seen, fatal) ==
    /\ hpc = "reading"
    /\ ProcessResponses
    /\ IF fatal
       THEN hpc' = "crashed" /\ UNCHANGED downloaded_chuncks
       ELSE /\ downloaded_chuncks' = downloaded_chuncks + Cardinality(seen)
            /\ hpc' = IF downloaded_chuncks' < Cardinality(chuncks) THEN hpc ELSE "return"
    /\ UNCHANGED <<sdkVars, program, chuncks, inits_completed>>

\* Mutant of WaitDownloads: one round instead of a loop.
WaitOnce ==
    /\ At("bandwidth", "reading")
    /\ ProcessResponses
    /\ downloaded_chuncks' = downloaded_chuncks + Cardinality(answered)
    /\ hpc' = "return"
    /\ UNCHANGED <<sdkVars, program, chuncks, inits_completed>>

\* bandwidth: ValueOrDie aborts on a Status; the raw_data of an init's response
\* is null and size() dereferences it.
WaitDownloads ==
    program = "bandwidth" /\ Count(answered, \E t \in answered : result[t] # "data")

\* Mutant of WaitChuncks: the responses of inits count as chunks.
CountInits ==
    program = "parquet" /\ Count(answered, \E t \in answered : result[t] = "error")

\* parquet, GetColumnChunckFiles: aborted inits and completed ones are skipped,
\* another Status ends the process.
WaitChuncks ==
    /\ program = "parquet"
    /\ Count({t \in answered : result[t] = "data"}, \E t \in answered : result[t] = "error")

\* The handler returns, and the last reference to its Downloader goes with it,
\* whatever its inits are doing.  What they do to destroyed members is
\* undefined; here they go on as if the memory were intact.
Return ==
    /\ hpc = "return"
    /\ DestroyMembers
    /\ GoOn("returned")
    /\ UNCHANGED sdkVars

\* bootstrap(): run_handler calls the handler again, with a Downloader of its
\* own; the file may have been replaced.
NextInvocation ==
    /\ hpc = "returned" /\ state = "closed"
    /\ state' = "open" /\ dpc' = "idle" /\ alive' = TRUE
    /\ answered' = {} /\ collected' = {}
    /\ init_counter' \in {0, PoolSize}
    /\ batch' = {} /\ interrupted' = FALSE
    /\ step' = [t \in Tasks |-> "none"] /\ result' = [t \in Tasks |-> "none"]
    /\ hpc' = "start"
    /\ chuncks' \in Work(program)
    /\ inits_completed' = 0
    /\ downloaded_chuncks' = 0
    /\ UNCHANGED <<queued, running, pending, sdkVars, program>>

\* Mutant of EndProgram: the destructor of the Downloader is still at work.
EndAtReturn ==
    /\ hpc = "returned"
    /\ FinalizeAwsSdk
    /\ GoOn("ended")
    /\ UNCHANGED dlVars

\* IS_LOCAL: one invocation, and main returns.
EndProgram ==
    /\ hpc = "returned" /\ state = "closed"
    /\ FinalizeAwsSdk
    /\ GoOn("ended")
    /\ UNCHANGED dlVars

HandlerStep ==
    \/ Start \/ ScheduleFooter \/ Open \/ WaitInits \/ WaitFooter
    \/ \E d \in Chuncks : ScheduleChunck(d)
    \/ StartReading \/ WaitDownloads \/ WaitChuncks
    \/ Return \/ NextInvocation \/ EndProgram

BelowStep == hpc # "crashed" /\ DownloaderStep /\ UNCHANGED <<sdkVars, handlerVars>>

Ended == hpc \in {"crashed", "ended"} /\ UNCHANGED vars

HandlerNext == HandlerStep \/ BelowStep \/ Ended

HandlerSpec == HandlerInit /\ [][HandlerNext]_vars

\* The threads run and the network answers or times out (each task of the
\* Downloader by itself), and so does the handler.
HandlerFairness ==
    /\ WF_vars(HandlerStep)
    /\ WF_vars(DispatcherStep /\ BelowStep)
    /\ WF_vars(BeginTask /\ BelowStep)
    /\ \A t \in Tasks : WF_vars(TaskStep(t) /\ BelowStep)

FairHandlerSpec == HandlerSpec /\ HandlerFairness

-----------------------------------------------------------------------------
(* Properties.                                                             *)

\* Neither loop of query-bandwidth.cc looks at what kind of response it pops:
\* the first counts results of any kind up to MAX_PARALLEL, the second takes
\* each for a download and dereferences its raw_data, which is null in an
\* init's.  Yet the first counts only inits that were not aborted, and it
\* leaves none of them to the second.
PhasesDoNotMix ==
    /\ At("bandwidth", "inits") => \A t \in Tasks : result[t] \in {"none", "init"}
    /\ program = "bandwidth" /\ hpc \in {"schedule", "reading"} => Inits \subseteq collected

\* ValueOrDie, on inits that may have been aborted and on responses without
\* data, ends the process only when a download has really failed.
CrashOnlyOnFailedDownload ==
    hpc = "crashed" => \E t \in Downloads : result[t] = "error"

\* When a handler leaves its last loop, each chunk, and nothing else, was
\* counted: neither the footer nor an init is taken for a chunk.
AllChuncksRead ==
    hpc \in {"return", "returned", "ended"} =>
        /\ \A d \in chuncks : d \in collected /\ result[d] = "data"
        /\ downloaded_chuncks = Cardinality(chuncks)

\* The clients, the metrics and the barrier's mutex and condition variable are
\* destroyed before the queue's destructor joins the workers.  The bandwidth
\* handler has no task left by then.  The parquet handlers may have inits, but,
\* if the file has chunks, none that is blocked in the condition variable.
MembersOutliveTasks ==
    ~alive => IF program = "bandwidth" THEN queued = << >> /\ running = {}
                                       ELSE chuncks # {} => Blocked = {}

\* Where a task is inside an SDK client, and so inside curl.
InsideSdk == {"connect", "blocked", "recheck", "release", "get"}

\* FinalizeAwsSdk does not look for requests in progress, and a handler returns
\* while some are; still none runs without the SDK and curl.
SdkOutlivesTasks == (\E t \in Tasks : step[t] \in InsideSdk) => SdkReady

\* Each invocation ends: the handler returns and the queue is joined, or the
\* process was ended by a failed download.
InvocationEnds ==
    hpc = "start" ~> hpc = "crashed" \/ (hpc = "returned" /\ state = "closed")

=============================================================================
