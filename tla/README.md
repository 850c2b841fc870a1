# Verification of lab-cpp

TLA+ models of the C++ code in `src/code`: the thread pool every experiment
downloads with, the downloader and its connection barrier, the programs that
drive it from start-up to the exit of the process, the HTTP client with its
handle cache, and the memory pool, file view and metrics around them. TLC checks
small instances; for every instance TLAPS proves each safety invariant and the
action property that TLC checks on one, and that the thread pool implements its
abstract specification. Paths below are relative to `src/`.

Contents: [the system](#the-system) · [the plan](#the-plan) ·
[modules and code](#modules-and-code) · [runs](#runs) · [bounds](#bounds) ·
[fairness](#fairness) · [proofs](#proofs) · [findings](#findings) ·
[what is not modelled](#what-is-not-modelled)

## The system

The repository is a set of experiments (`code/playground`) that run as AWS
Lambda functions, a program that invokes them, and the helpers they share. One
invocation works like this:

```
handler (dispatcher thread)
   |  InitConnections, ScheduleDownload           wait()
   v                                                ^
Downloader ---- tasks ----> AsyncQueue ---notify--> Synchronizer
   | barrier of inits          | worker threads
   v                           v
S3 clients ---> CurlHttpClient::MakeRequest ---> handle cache (static)
                    responses ---> PartialFile ---> parquet reader
```

### Inventory

**Synchronizer and AsyncQueue** (`util/async_queue.h`, `.cc`). State: the
counter `work_` with its mutex and condition variable; per queue a FIFO of
requests, a list of responses, `stop_`, two mutexes, one condition variable and
the workers. Operations: `PushRequest`, `PopResponses`, the worker loop,
`~AsyncQueue`, `notify`, `wait`, `consume`. Several queues may share one
Synchronizer. Hard: notifications are sent after the mutex is released;
`PopResponses` may consume a work unit before it is added; the destructor races
callers and workers. Correct when: each request is run once and answered once
(`InOnePlace`), the counter is exact (`WorkAccounting`), no wake-up is lost
(`EnoughAwake`, `SleeperHasWaker`), `wait()` returns to something
(`WaitFindsResponse`, `WaitReturns`), the destructor drains and returns
(`JoinedMeansDrained`, `DestructorReturns`), and all of this amounts to the pool
its users imagine (`ImplementsPool`).

**Downloader** (`aws/downloader.h`, `.cc`). State: the queue, `init_counter_`
with a mutex and condition variable, two S3 clients. Operations:
`InitConnections(n)`, whose n tasks open a connection each and meet at a barrier
before they release it; `ScheduleDownload`, which opens the barrier;
`ProcessResponses`; the destructor. Hard: arrivals, time-outs and interruptions
in any order; blocked inits occupy the workers that others need; the counter is
reused by the next call; members are destroyed before the queue joins its
workers. Correct when: each arrival counts once (`CounterCountsArrivals`), no
connection is released early (`HeldUntilAllCame`), no init is stranded
(`NoStrandedInit`, `DownloadsUnblockInits`), each task answers
(`EveryTaskFinishes`).

**Handlers** (`main` and the handlers of `playground/query-bandwidth.cc`,
`parquet-raw-reader.cc` and `parquet-arrow-reader.cc`, with
`aws/parquet-helpers.h` and the loop of `util/bootstrap.h`). State: how far the
program is and what it has counted. A handler drives one Downloader, reads its
responses in two loops, and destroys it when it returns; the process goes on to
the next invocation, or shuts the SDK down. Hard: responses of inits and
downloads arrive in one stream in any order, `ValueOrDie` ends the process, and a
handler may return while its inits run. Correct when: a loop never counts or
trips over a response meant for the other (`PhasesDoNotMix`,
`CrashOnlyOnFailedDownload`, `AllChuncksRead`), nothing waits in a destroyed
condition variable (`MembersOutliveTasks`) or runs without the SDK
(`SdkOutlivesTasks`), and each invocation ends (`InvocationEnds`).

**SDK lifecycle** (`aws/sdk-init.cc`, the static state of
`aws/curl/HttpClientFactory.cpp` and `HttpClient.cpp`). State: `aws_initialized`,
`isInit`, and curl's own count of initialisations. Operations: `InitializeAwsSdk`,
`FinalizeAwsSdk`. Hard: the shut-down does not look whether anything is in use;
that depends on the order in which the programs destroy their objects. Correct
when no request runs outside the life of the SDK and of curl (`SdkOutlivesTasks`,
`OrderlyShutdown`). The destructor of the static handle cache does call curl after
its shut-down, see [findings](#findings).

**query-bw-scheduler** (`playground/query-bw-scheduler.cc`). The second user of
the queue: workers invoke a Lambda function through the SDK and its handle
cache. State: what was invoked and counted, the attempts of each call, the
handle cache as a static object. Hard: a worker that is out of retries calls
`exit(1)` and never answers, so `main` waits for ever while the static
destructors run beside the other workers. Correct when: the process ends
(`ProgramEnds`), its exit code tells what happened (`ExitCodeTellsOutcome`), and a
normal end leaves no handle behind (`OrderlyShutdown`).

**HTTP client and handle cache** (`aws/curl/HttpClient.cpp`,
`HandleContainer.cpp`). State: per domain a stack of idle curl handles, static
for the whole process; per handle the options curl remembers; per request the
stack frame of `MakeRequest`. Hard: handles are shared over threads and clients,
options outlive requests, and a failure may be reported in four ways. Correct
when: a handle is in one place (`HandleInOnePlace`), no broken connection is
reused (`NoBrokenHandleCached`), a transfer runs with its own options
(`OwnOptions`), and the cache stays within the concurrency there was
(`PoolBounded`). Together with the Downloader:
warm-up leaves a connection per init (`OneConnectionPerInit`), and never more
than there are workers (`ConnectionsWithinPool`).

**CustomMemoryPool** (`util/cust_memory_pool.h`, `.cc`). State: the map of large
allocations, the runways (1 GiB mappings), the preallocated blocks, the inner
Arrow pool. Operations: `Allocate`, `Reallocate`, `Free`, in two builds. Hard:
the owner of a buffer is decided anew by each call, from sizes that change.
Correct when: buffers keep apart (`BuffersApart`), `Free` asks the allocator that
has the buffer (`FreeReleases`, which buffers between the two thresholds do not
meet), the inner pool is given its own allocations only (`InnerFreesItsOwn`), no
block is lost (`BlocksConserved`).

**PartialFile and range requests** (`util/partial-file.cc`, `GetObjectRange` of
the Downloader). State: chunks of a file, a position. Hard: four conversions
between length, inclusive end, suffix and position. Correct when: what is read
is the right part of the object, and what was downloaded can be read.

**MetricsManager** (`util/metrics.h`, `.cc`). State: three collections of
time-stamped records, the durations of phases. Operations: the recorders,
`EnterPhase`, `ExitPhase`, `Reset`.

**Everything else**: logging and helpers, benchmarks without shared state, a stub
of a Flight server, build files and infrastructure. See
[what is not modelled](#what-is-not-modelled).

`PROJECT.json` lists the components with their status, and the hazards of the
code, each at its line with the properties that watch it.

## The plan

The most important behaviour first; each step builds on the modules before it.

1. `Synchronizer`, `AsyncQueue`: everything runs on them. **Done**, with proofs.
2. `TaskPool`, the abstract specification of one queue, and the refinement.
   **Done**: the whole for TLC, the safety part with a proof.
3. `Downloader` over `TaskPool`. **Done**, with proofs.
4. `SdkLifecycle`, and `Handlers` over it and `Downloader`: the programs from
   start-up to shut-down, invocation after invocation. **Done**, with proofs.
5. `HandleContainer`, `HttpClient`, and `WarmConnections`, which composes them
   with the Downloader. **Done**, with proofs.
6. `CustMemoryPool`, `PartialFile`, `MetricsManager`. **Done**, the first two
   with proofs.
7. `QueryBwScheduler`, which composes `TaskPool`, `HandleContainer` and
   `SdkLifecycle`, with retries and `exit`. **Done**, with proofs.

Left for later:

8. Action properties beside `HeldUntilAllCame`, above all that a connection which
   was warmed is not lost except by a failed transfer, as a statement about steps.
9. What the abstract pool owes the progress of its users, stated without
   `ENABLED`, so that more than its safety part can be proved of `AsyncQueue`.
10. The memory pool over an inner pool that fails: how much of `FreeReleases`
    survives in the runway build.

## Modules and code

Each module is named after the class or file it models; `PROJECT.json` maps each
definition to its lines. Definitions marked as mutants are deliberately wrong
variants of the definition they precede; nothing uses them. They show that each
property can be violated by a plausible bug.

| module | models | variables and what they are in the code |
|---|---|---|
| `Synchronizer` | the class | `work` = `work_`; `asleep` = threads in `cv_.wait` |
| `AsyncQueue` | any number of queues on one Synchronizer | `requests`, `responses`, `stop` as named; `gone` = destroyed queues; `pc`/`task` and `cpc`/`target`/`taken` = program counter and locals of workers and callers; `fresh`, `refused`, `collected` record the history of requests |
| `TaskPool` | what a queue promises, no threads or mutexes | `queued`, `running`, `answered`, `collected`, `state` |
| `Downloader` | the class over a `TaskPool` | `init_counter` as named; `dpc`/`pending` = inside which call the dispatcher is; `step`/`result` = where each task's lambda is and what it returned; `batch`, `interrupted` record the last `InitConnections`; `alive` = members not destroyed |
| `SdkLifecycle` | start-up and shut-down of the SDK and of curl | `aws_initialized`, `isInit` as named; `curl_inits` = curl's count of `curl_global_init` |
| `Handlers` | `main`, the handlers and the invocation loop, over a `Downloader` | `program` = which of them runs; `hpc` = where it is; `chuncks` = what it is to download; `inits_completed`, `downloaded_chuncks` as named |
| `QueryBwScheduler` | the program, over a `TaskPool` and the handle cache | `mpc` = where `main` is; `invokes_...` as named; `step`/`attempted`/`held` = each lambda's position, `attempted_retries` and handle; `statics`/`status` = whether the handle cache is destroyed, how the process ended; `delivered` records accepted invocations |
| `HandleContainer` | the static handle cache | `cache` = stacks of idle handles; `shareOf` = the domain of a live handle; `options` = what curl remembers |
| `HttpClient` | `MakeRequest` and curl's callbacks | `tpc`/`frame` = program counter and locals per thread; `disabled` = clients shut down; `broken` = handles whose last transfer failed |
| `WarmConnections` | Downloader and handle cache together | `held` = the handle of each task; `warm` = handles with a live connection |
| `CustMemoryPool` | the class, both builds | `heap` = inner pool, `large_allocs_`, mapped runways, `pool_allocs_`; `buffer` = what the callers hold; `build` = which `#define` is active |
| `PartialFile` | range requests and the class | `chuncks`, `size_`, `position_` as named; `last` = the last call and its result |
| `MetricsManager` | the class | `records`, `phases`, `ref_time` as named; `stamped` = a record built and not pushed |
| `AsyncQueueProofs` | theorems about `AsyncQueue`, and the refinement of `TaskPool` | |
| `TaskPoolProofs` | what every user of a `TaskPool` may rely on | |
| `DownloaderProofs` | theorems about `Downloader` | |
| `CompositionProofs` | theorems about what is built on a Downloader: `Handlers`, `WarmConnections` | |
| `HttpClientProofs` | theorems about `HttpClient` and the handle cache | |
| `QueryBwSchedulerProofs` | theorems about `QueryBwScheduler` | |
| `CustMemoryPoolProofs` | theorems about `CustMemoryPool` | |
| `PartialFileProofs` | theorems about `PartialFile` | |

Modules `MC...` give the constants their values.

**Grain.** In `AsyncQueue` and `Downloader` a step is one critical section or one
notification, so all orders in which threads can pass the mutexes are
behaviours. The notification halves of `PushRequest`, `Synchronizer::notify`, the
destructor and the barrier are steps of their own because the code unlocks
first. `resp_queue_mutex_` is held while `consume()` takes the other mutex, so
`PopResponses` is two steps and a worker's `Answer` waits for the second.

**Composition.** `AsyncQueue` EXTENDS `Synchronizer`. `MCAsyncQueue` instantiates
`TaskPool` with a refinement mapping (`Pool`), and `Downloader` EXTENDS
`TaskPool` instead of `AsyncQueue`: what the queue promises is checked once, and
used from then on. `Handlers` and `WarmConnections` EXTEND `Downloader` and
conjoin their step with the Downloader's. `HttpClient`, `WarmConnections` and
`QueryBwScheduler` EXTEND `HandleContainer`; `QueryBwScheduler` joins it with
`TaskPool`, and both programs' modules with `SdkLifecycle`.

**Abstractions worth knowing.**
- A request function is opaque, returns, and does not throw.
- `responses` is a set: no caller depends on its order.
- A caller calls `wait()` only while it is owed a response (`Owed`), as each loop
  in the repository does.
- The loops `wait(); ProcessResponses()` of the handlers are one `Collect`, which
  needs a response to be there; `WaitReturns` and `WaitFindsResponse` justify it.
- A second `InitConnections` before the first is complete is undefined according
  to `aws/downloader.h:69`, and is not made.
- `init_counter_` has no initialiser; its first value is a choice between 0 and
  the pool size.
- A row group and its byte range are one thing: a file is the set of the chunks
  it has. What a task does to a destroyed member is undefined; in `Handlers` it goes
  on as if the memory were intact.
- `Aws::InitAPI` and `ShutdownAPI` are external and call the factory's static
  functions. `exit` in two workers at once ends the process once. A worker that
  meets the destroyed handle cache goes on or crashes the process.
- curl and the network are external: a transfer delivers data, succeeds or fails
  at any time. The three retries of the download client, after a failed transfer
  or a service error, are an unbounded number in `WarmConnections`.
- A call to the memory pool is one step, for its critical sections concern a
  buffer that only the caller uses. Sizes are scaled down: a page is 4, the small
  threshold 4, the huge one 8. `mmap` succeeds, and no buffer outgrows a runway.
- The clock of `MetricsManager` is taken to be monotonic; the code's is
  `high_resolution_clock`.

## Runs

| run | shows | distinct states |
|---|---|---|
| `queues` | Two queues, three workers, two threads that use and destroy them: nothing lost or answered twice, exact counter, enough workers awake, a destroyed queue is drained. | 105 773 |
| `queue_progress` | One dispatcher, fair threads: no lost wake-up of the dispatcher, answers, termination of `wait()` and of the destructor; refinement of `TaskPool` with its fairness. | 6 979 |
| `downloader` | Two `InitConnections` calls of different size, a download, time-outs: the barrier's counter, no early release, no stranded init, progress of every task. | 132 595 |
| `handlers` | Both handlers, any number of invocations: inits race the footer and the chunks without being taken for either, phases do not mix, no init blocks in a destroyed condition variable, each invocation ends, no request outlives the SDK. | 106 646 |
| `bw_scheduler` | The scheduler with two retries per call: workers that give up at any moment, exit code, orderly shut-down, end of the process. | 52 769 |
| `http_client` | Two threads, two clients, two domains, four kinds of request: one place, own options, no broken handle, no more handles than threads. | 943 260 |
| `warm_connections` | What the barrier is for, end to end. | 211 570 |
| `memory_pool` | Every sequence of calls in both builds: buffers apart, `Free` finds the owner, no block lost, nothing foreign given to the inner pool. | 845 |
| `partial_file` | Every object of up to four bytes, each range, each read. | 35 175 |
| `memory_leak`, `memory_shrink`, `metrics_reset` | Violations, see [findings](#findings). | |

Deadlock is checked except in `queues`: there two threads may both wait for the
last response, and the one that comes second sleeps for ever. No program of the
repository does that; with one dispatcher (`queue_progress`) there is no
deadlock. The last act of each other program is a stuttering step
(`Terminated`, `Ended`, `Finished`, `~Running`), so a premature stop is an error.

## Bounds

- *Queues.* Three requests on two workers and a third on a queue of its own. A
  lost wake-up takes one sleeping worker, one awake and a request between them;
  a drifting counter takes a response, a worker between `Answer` and `Notify`, and
  a `PopResponses`; both callers are needed for pushes that race the destructor.
  Each of these occurs within the bounds, as the mutants show.
- *Downloader.* Three inits fill the pool; one more in a second batch reuses the
  counter and runs beside idle workers; one download interrupts at any point
  before, between or after. Two downloads differ from one in their order only,
  and the run `handlers` has four.
- *Handlers.* Two workers, two inits, a footer and up to three chunks: more tasks
  than workers, so that they queue, and inits still about when the last chunk has
  come. The chunks are alike, so files need one set per number of row groups,
  zero included. Each invocation starts from any first value of the counter and
  with any file.
- *Scheduler.* Three invocations on two workers: one queued while two run, and
  one that gives up while another is at each of its steps. An interval that fits
  twice into the duration (the values of the code, 200 and 6000 ms, differ in
  the number of rounds only). Three handles: one more than the workers can hold,
  so the cache could grow if a handle were lost.
- *HTTP.* Two threads are what it takes to share a handle; four handles are
  as many as two threads can leave behind in two domains. Bodies have at most one
  byte: what matters is announced less, equal or greater than received.
- *Memory.* Three buffers, five addresses, two blocks: exhaustion of the blocks
  and reuse of an address both happen. The runway build has sizes below, between and
  above the thresholds, two of them within one page so that a shrink may fail, and
  an inner pool that never fails: its status is ignored in one place (see
  [findings](#findings)). The block build never reallocates to size 0: the code
  then passes a block to the inner pool.
- *PartialFile.* Objects of up to four bytes, up to two chunks: overlapping,
  adjacent, nested, empty and past the end.

Permutation symmetry is used where no liveness is checked. No bound is in a
guard except `MaxLength`, `MaxSize`, `MaxChuncks` and `MaxTime`; all else is
finite because requests and tasks are.

## Fairness

Threads are scheduled (weak fairness of each thread's steps), request functions
return, attempts on the network end or time out (the clients have time-outs),
and a call that has begun goes on. A process in which `exit` was called ends
(`ExitStep`). No caller owes anybody a call: callers have
fairness for `CallerStep` and none for `CallerCall`. One strong assumption:
`Answer` has strong fairness, because a worker competes for `resp_queue_mutex_`
with a caller that may poll `PopResponses` for ever; the mutex is free infinitely
often, and a mutex that starves its waiter for ever is not one a program could
be written for. Spurious wake-ups are possible and never fair.

## Proofs

Each safety invariant of a passing run is also a theorem, for every value of the
constants: any number of workers, tasks, batches, handles, threads, buffers. So
is the one action property, `HeldUntilAllCame`. The proofs use the named
assumptions of the modules and, where stated below, a hypothesis of the theorem.
The assumptions say that the sets are finite, that null values lie outside the
sets they are added to (`VerbAssumption` and the like), that a batch fits the
pool (the assert at `aws/downloader.cc:157`), and how the thresholds of the memory
pool are ordered. TLC evaluates them in each run.

Every proof has the same shape. The property is not inductive; a strengthening
is, and TLC finds it invariant on the instance of the run. Init implies it, each
action keeps it (one lemma per action or group of actions), and it implies the
property.

**`AsyncQueueProofs`** proves all six invariants of the run `queues` and
`SleeperHasWaker` of `queue_progress`, and a refinement.

- `TypeCorrect`: `TypeOK` is not inductive, since a worker pushes its local `task`
  as a response. `Locals` ties the locals to the program counters, and
  `TypeInv == TypeOK /\ Locals` is inductive.
- `Drained`: `DrainInv` says that a worker that has left its loop belongs to a queue
  that is stopped and empty; nothing is pushed to a stopped queue.
- `NoLostWakeup`: `EnoughAwake` is inductive relative to the types: a push adds a
  request and a signaller; a signal turns a signaller into a worker on its way,
  or finds nobody asleep; a worker falls asleep only at an empty queue.
- `NeverLost`: `InOnePlace` counts places. The induction is over `Placed`: of every
  request there is one place it is at, and it is at no other.
- `WorkAccounted`: the counter and the workers about to notify add up to the
  unconsumed responses. Cardinalities add up only if a response is in one place:
  `Apart`. `WaitFindsResponses` follows.
- `WakerIsComing`: the hypothesis is that there is one caller, as in each program of
  the repository. It is not true of
  several callers that sleep on the same counter.
- `QueueIsPool`: under the mapping that the run `queue_progress` uses, each queue
  implements `PoolSpec`, whatever the other queues on the Synchronizer do. Each
  action is mapped to a step of the pool or a stutter. The two critical sections
  of `PopResponses` make one `Collect`; an `Answer` or `Consume` of another queue is
  invisible; the end of `Join` is the pool's `EndClose`, for which `OwnerInv` is
  needed: a queue is destroyed by one caller, once.

**`TaskPoolProofs`**: `PoolCorrect` (a task is in one place, a closed pool is drained)
and `PoolSizeRespected`, from lemmas about single steps of the pool that the next
modules cite, as they conjoin these steps with their own.

**`DownloaderProofs`**. The invariant `DlInv` has four parts beside the types:
`PoolInv`; `TaskInv`, the position of a lambda against the place of its task in the
pool; `BatchInv`, only inits of the last batch are queued or under way, and none
aborts without a download; `BarrierInv`, the counter is the number of arrivals of
the batch and has reached the maximum when somebody is about to notify. The
delicate point is the reuse of `init_counter_`: `BatchInv` says that nobody of an
earlier batch is still about to increment it. `TypeCorrect`, `CounterIsExact`,
`NobodyStranded` and `DownloadsGetThrough` follow, and `BarrierHolds` is the action
property: an init leaves the barrier only by a step that finds the counter full.

**`CompositionProofs`**, about what is built on a Downloader. The Downloader takes its
own steps there, so `DlInv` holds. The assumptions of `Handlers` and of
`WarmConnections` concern different constants, and neither half uses the other's.

- *Handlers.* `HandlerInv` adds what the handler has asked for, and has surely
  seen, at each of its places (`PhaseInv`), what it has counted (`ReadInv`), and how
  long the Downloader and the SDK live. `InitsAreComplete` (the first loop of
  query-bandwidth counts inits that were not aborted, and leaves none of them to the
  second), `CrashesAreFailures`,
  `EveryChunckIsRead`, `MembersAreNotMissed` and `SdkIsThere` follow, through any
  number of invocations.
- *Connections.* `WarmInv` adds where each handle is, and that an init whose
  transfer succeeded went through an open barrier. `InitsWarmTheCache` counts: an
  init that succeeds leaves the connection it held at the barrier, and once the
  barrier is open no init of the batch takes one that another has put back. `FewConnections`:
  a handle is created only when none is idle; all others are then with other
  running tasks, of which there are fewer than workers.

**`HttpClientProofs`**. `HttpInv`: a handle is on one stack frame or once in the stack
of its domain (`PlaceInv`), an idle handle has the default options and one in a
transfer exactly those that `SetOptions` makes for its request (`OptionsInv`), and no
handle about to be put back is broken (`BrokenInv`). Theorems: `OneOwner`,
`NothingLeftBehind`, `BrokenAreDestroyed`, `CacheBounded`.

**`QueryBwSchedulerProofs`**. `SchedulerInv` relates the lambda of each invocation to
its task, main's counters to the collected responses, and the end of the process
to its cause. `ExitCodeIsTruthful` and `ShutdownIsOrderly` follow, for any retry
strategy and any number of workers inside `exit`. The latter is about the workers'
transfers and about where the handles are when `main` has returned; the destructor
of the cache itself runs after the shut-down of curl.

**`CustMemoryPoolProofs`**. `MemInv` says of each build which allocator a buffer's
address and size point to; its part for the runway build is conditional on an inner
pool that does not fail. The allocators have defects (see [findings](#findings) and
[bounds](#bounds)), so three theorems name, as hypotheses, the calls that do not meet
them: `NoSharing` needs `InnerNeverFails` (the inner pool has memory when a runway is
given up); `FreeFindsTheOwner` and `InnerPoolIsSafe` need also `BlocksStayBlocks` (no
block is reallocated to size 0). The run `memory_pool` satisfies both. `NoBlockIsLost`
has no hypothesis. `FreeFindsTheOwner` (`FreeReleases`) says that a buffer is freed by
the allocator it came from, whatever reallocations it went through and whichever of
them failed. Its one exception (`Medium`) is the defect of `memory_leak`: a buffer of
the inner pool whose size is between the two thresholds is kept.

**`PartialFileProofs`**. `ReadInv`: each chunk of the file is the answer to a range
request, at its place in the object. `ReadsReturnTheObject`, `NoByteIsLost` and
`OneChunckSuffices` follow, for objects and ranges of every length.

### What stays with TLC

- *Liveness*: `EveryRequestAnswered`, `WaitReturns`, `DestructorReturns`,
  `EveryTaskFinishes`, `InvocationEnds`, `ProgramEnds`. They need fairness, and so
  `ENABLED`, which this prover does not handle.
- *`ImplementsPool`* in full: it asserts the fairness of the abstract pool. Its safety
  part is `QueueIsPool`.
- *The three violations*, which are counterexamples.

Where a definition is a union of set comprehensions over several sets (`Places`), it
is characterised by a lemma (`PlacesAre`), and the proofs use only that.


## Findings

**`memory_leak`.** With the runway build, a buffer whose size is between
`SMALL_ALLOC_THRESHOLD_BYTES` and `HUGE_ALLOC_THRESHOLD_BYTES` comes from the inner
pool (`Allocate` compares with the huge threshold), but `Free` compares with the
small one and asks the runways to free it, which do not know it and do nothing.
`cust_memory_pool_test.cc:79` asserts that nothing stays allocated.

**`memory_shrink`.** When a runway buffer shrinks within its last page, `old_size -
new_wps` is negative; as an unsigned number it is a huge length, `madvise` fails,
and so does `Reallocate` (`cust_memory_pool.cc:313`).

**`metrics_reset`.** `Reset` is to "empty the manager" (`metrics.h:54`), and leaves
the phases. The calls of `Reset` in the handlers are commented out.

Observations that contradict no text of the repository and so are no findings:

- `~Downloader` destroys clients, metrics, mutex and condition variable before the
  queue's destructor joins the workers (`downloader.h:81`). `MembersOutliveTasks`
  says what is left of it: the bandwidth handler has no task by then; the parquet
  readers may have inits in flight, though none is blocked in the condition
  variable if the file has a row group.
- The handle cache is static: its destructor calls `curl_easy_cleanup` after
  `FinalizeAwsSdk` has called `curl_global_cleanup`, and, when a worker calls
  `exit(1)` (`query-bw-scheduler.cc:72`), beside workers that use the cache. The
  exit code is still not that of a success.
- Nothing resets `isInit` (`HttpClient.cpp:238`): a second `InitializeAwsSdk` after a
  `FinalizeAwsSdk` leaves curl without global initialisation. No program does that.
- Responses left in a queue that is destroyed keep their work units: `wait()` of
  the other queues on that Synchronizer then returns with nothing to pop. The
  precondition of `WaitFindsResponse` is there for this.
- When the inner pool is out of memory, shrinking a runway buffer below the small
  threshold returns OK and leaves the buffer on an unmapped runway
  (`cust_memory_pool.cc:304`).
- `PartialFile::ReadAt` serves a read from the first chunk that contains its position
  and fails if that chunk is too short, even if a later chunk, or two adjacent ones,
  have the bytes. `ReadsAreTrue` permits failures, and `OneChunckReads` is about files
  of one chunk.
- The assert that a batch of inits fits the pool (`downloader.cc:157`) is compiled out
  of release builds; more inits than workers could then hold all workers at a barrier
  that not even a download opens, since it sets the counter to the pool size.
  `InitCountAssumption` excludes such calls.
- `HandleContainer.h:20` speaks of a maximum of connections that no code reads;
  `HttpClientFactory.cpp:32` says so.

## What is not modelled

- *`rg_start_map`* (`parquet-helpers.h:53`), a global that maps the range of a chunk
  back to its row group and outlives an invocation: the model identifies the two.
  It would matter only for an object replaced, between two invocations, by one
  that has another row group at the same bytes.
- *Decoding of parquet files*, TLS and proxy options, headers, the options of
  the SDK, JSON logging, printing of metrics, clock and environment helpers: pure
  data or third-party code.
- *Constructors of the HTTP client factory*: they build objects that no other
  thread sees yet.
- *Benchmarks* (`raw-alloc.cc`, `simd-support.cc`, `mem-bandwidth.cc`,
  `core-affinity.cc`, ...), the Flight stub, build files and infrastructure:
  straight-line code that times memory and arithmetic; threads, where there are
  any, only read what they share and are joined at once. A model would have one behaviour.
- *Memory order.* All shared fields are accessed under their mutexes; the models
  are sequentially consistent.
- *Concurrent `PopResponses` and destructor of one queue* is undefined in C++ and
  excluded: the destructor is called by the only thread inside the queue
  (`SoleUser`), while pushes that come later are refused.
