-------------------------- MODULE WarmConnections --------------------------
(***************************************************************************)
(* What InitConnections is for: the Downloader over the handle cache of    *)
(* the HTTP client.  Each init takes a handle in MakeRequest, keeps it     *)
(* while it blocks in the data-received callback, and puts it back with a  *)
(* live connection; a download takes whatever handle is there.  This       *)
(* module adds to each step of the Downloader what it does to the cache.   *)
(*                                                                         *)
(* All requests go to one bucket, that is to one domain.  The two clients  *)
(* share the cache.  curl_easy_init does not fail.                         *)
(***************************************************************************)
EXTENDS Downloader, HandleContainer

CONSTANT Bucket

ASSUME BucketAssumption == Domains = {Bucket}

VARIABLES
    held,    \* each task: the handle its MakeRequest uses
    warm,    \* handles whose connection is established
    transfer,\* each task: how its (last) transfer ended
    failing  \* the downloads of which some attempt failed

connVars == <<containerVars, held, warm, transfer, failing>>
warmVars == <<dlVars, connVars>>

WarmInit ==
    /\ DownloaderInit
    /\ ContainerInit
    /\ held = [t \in Tasks |-> None]
    /\ warm = {}
    /\ transfer = [t \in Tasks |-> "none"]
    /\ failing = {}

\* MakeRequest begins: a new handle has no connection yet.
StartTransfer(t, client) ==
    /\ \E h \in Handles :
          /\ AcquireCurlHandle(Bucket, client, h)
          /\ held' = [held EXCEPT ![t] = h]
          /\ warm' = IF h \in Live THEN warm ELSE warm \ {h}
    /\ UNCHANGED <<transfer, failing>>

\* MakeRequest ends: the handle is released with its connection ...
EndTransfer(t) ==
    /\ ReleaseCurlHandle(Bucket, held[t])
    /\ held' = [held EXCEPT ![t] = None]
    /\ warm' = warm \cup {held[t]}
    /\ transfer' = [transfer EXCEPT ![t] = "ok"]
    /\ UNCHANGED failing

\* ... or destroyed with it.
FailTransfer(t) ==
    /\ DestroyCurlHandle(held[t])
    /\ held' = [held EXCEPT ![t] = None]
    /\ warm' = warm \ {held[t]}
    /\ transfer' = [transfer EXCEPT ![t] = "failed"]
    /\ failing' = failing \cup ({t} \cap Downloads)

ConnectInit(t) == Connect(t) /\ StartTransfer(t, "init")

\* The first header has come: the connection is there.
ArriveInit(t) ==
    /\ Arrive(t)
    /\ warm' = warm \cup {held[t]}
    /\ UNCHANGED <<containerVars, held, transfer, failing>>

\* DeleteObject has already returned when it turns out that no data came.
MissInit(t) == Miss(t) /\ FailTransfer(t)

\* DeleteObject returns after the barrier; 500 ms in the callback are enough
\* for curl to call it a time-out.
ReturnInit(t) ==
    /\ step[t] = "reply" /\ held[t] # None
    /\ EndTransfer(t) \/ FailTransfer(t)
    /\ UNCHANGED dlVars

FinishInit(t) == EndInit(t) /\ held[t] = None /\ UNCHANGED connVars

StartGet(t) ==
    /\ step[t] = "get" /\ held[t] = None /\ transfer[t] = "none"
    /\ StartTransfer(t, "download")
    /\ UNCHANGED dlVars

\* A retry of the download client is a new MakeRequest: after a transfer that
\* failed, and after one that brought a service error worth a retry.
RetryGet(t) ==
    /\ step[t] = "get" /\ transfer[t] \in {"ok", "failed"}
    /\ transfer' = [transfer EXCEPT ![t] = "none"]
    /\ UNCHANGED <<dlVars, containerVars, held, warm, failing>>

ReturnGet(t) ==
    /\ step[t] = "get" /\ held[t] # None
    /\ EndTransfer(t) \/ FailTransfer(t)
    /\ UNCHANGED dlVars

FinishGet(t) ==
    /\ Get(t)
    /\ transfer[t] \in {"ok", "failed"}
    /\ transfer[t] = "failed" => result'[t] = "error"
    /\ UNCHANGED connVars

\* The steps of the Downloader that concern no handle.
OtherStep ==
    /\ \/ \E B \in Batches : InitConnections(B)
       \/ \E d \in Downloads : ScheduleDownload(d)
       \/ ProcessResponses \/ Destroy \/ DispatcherStep \/ BeginTask \/ Terminated
       \/ \E t \in Inits : Abort(t) \/ Recheck(t) \/ Release(t) \/ SpuriousWakeup(t)
       \/ \E t \in Tasks : FinishTask(t)
    /\ UNCHANGED connVars

WarmNext ==
    \/ OtherStep
    \/ \E t \in Inits : ConnectInit(t) \/ ArriveInit(t) \/ MissInit(t)
                          \/ ReturnInit(t) \/ FinishInit(t)
    \/ \E t \in Downloads : StartGet(t) \/ RetryGet(t) \/ ReturnGet(t) \/ FinishGet(t)

WarmSpec == WarmInit /\ [][WarmNext]_warmVars

-----------------------------------------------------------------------------
(* Properties.                                                             *)

\* The handles that the cache has, or has lent to a download.
Available ==
    {cache[Bucket][i] : i \in DOMAIN cache[Bucket]} \cup {held[t] : t \in Downloads}

\* "We block before releasing the connection to allow up to max_init_count
\* initializations" (downloader.cc:183-184): when no ScheduleDownload interrupts
\* the batch, every init whose DeleteObject succeeded leaves a connection of its
\* own behind, until a download breaks it.  Without the barrier a quick init
\* would pass its connection on to the next one.
OneConnectionPerInit ==
    ~interrupted /\ failing = {} =>
        Cardinality({t \in batch : transfer[t] = "ok"}) <= Cardinality(Available \cap warm)

\* There are never more connections than workers, over both clients.
ConnectionsWithinPool == Cardinality(Live) <= PoolSize

=============================================================================
