----------------------------- MODULE HttpClient -----------------------------
(***************************************************************************)
(* Buzz::Http::CurlHttpClient::MakeRequest (aws/curl/HttpClient.cpp), run  *)
(* by any number of threads over the one handle cache of the process.      *)
(*                                                                         *)
(* Curl keeps the options of a handle from one transfer to the next, and   *)
(* two of them point to the stack frame of MakeRequest: what one request   *)
(* leaves in a handle, the next would use.  The network and libcurl are    *)
(* external: a transfer delivers headers and data, or fails, at any time.  *)
(***************************************************************************)
EXTENDS HandleContainer

CONSTANTS
    Threads,   \* threads that may call MakeRequest
    Clients,   \* the CurlHttpClient objects: their time-outs differ
    Requests,  \* kinds of request: r.client, r.domain, r.method; r.length, what
               \* its headers say of its length ("some": a Content-Length other
               \* than 0, or a Transfer-Encoding); r.body, whether it has a body
    MaxLength  \* bound on the length of a response body

ASSUME ThreadsAssumption == IsFiniteSet(Threads) /\ None \notin Threads
ASSUME RequestsAssumption ==
    \A r \in Requests : /\ r.client \in Clients /\ r.domain \in Domains
                        /\ r.method \in {"GET", "HEAD", "POST", "PUT", "PATCH", "DELETE"}
                        /\ r.length \in {"none", "zero", "some"} /\ r.body \in BOOLEAN
ASSUME LengthAssumption == MaxLength \in Nat
\* CURLOPT_CUSTOMREQUEST is null or a verb.
ASSUME VerbAssumption == None \notin {"GET", "HEAD", "POST", "PUT", "PATCH", "DELETE"}

VARIABLES
    tpc,      \* each thread: where it is in MakeRequest
    frame,    \* each thread: the locals of MakeRequest
    disabled, \* clients whose request processing was disabled
    broken    \* handles whose last transfer failed

vars == <<containerVars, tpc, frame, disabled, broken>>

NoLength == -1

\* A stack frame: the request, connectionHandle, the content-length header of
\* the response, m_numBytesResponseReceived, curlResponseCode, the error type
\* of the response, and whether the continuation handler has said stop.
NoFrame == [request |-> None, handle |-> None, announced |-> NoLength, received |-> 0,
            code |-> "none", response |-> "none", cancelled |-> FALSE]

Init ==
    /\ ContainerInit
    /\ tpc = [t \in Threads |-> "idle"]
    /\ frame = [t \in Threads |-> NoFrame]
    /\ disabled = {}
    /\ broken = {}

At(t, at) == tpc[t] = at
GoTo(t, to) == tpc' = [tpc EXCEPT ![t] = to]

\* MakeRequest up to AcquireCurlHandle.  A handle that is new was never broken.
MakeRequest(t, r) ==
    /\ At(t, "idle")
    /\ \E h \in Handles :
          /\ AcquireCurlHandle(r.domain, r.client, h)
          /\ frame' = [frame EXCEPT ![t] = [NoFrame EXCEPT !.request = r, !.handle = h]]
          /\ broken' = IF h \in Live THEN broken ELSE broken \ {h}
    /\ GoTo(t, "configure")
    /\ UNCHANGED disabled

\* There is no handle: the empty response is returned.
NotMade(t, r) ==
    /\ At(t, "idle")
    /\ AcquireNull(r.domain)
    /\ frame' = [frame EXCEPT ![t] = [NoFrame EXCEPT !.request = r, !.response = "notMade"]]
    /\ GoTo(t, "return")
    /\ UNCHANGED <<disabled, broken>>

\* By its headers, a request sends data.
SendsData(r) == r.length = "some" \/ (r.method = "POST" /\ r.length = "none")

\* SetOptCodeForHttpMethod.  POST, PUT and PATCH that send nothing only rename
\* the verb of whatever transfer the handle is set to.
SetMethod(o, r) ==
    CASE r.method = "GET"  -> [o EXCEPT !.http = "GET", !.nobody = FALSE]
      [] r.method = "HEAD" -> [o EXCEPT !.http = "GET", !.nobody = TRUE]
      [] r.method = "PATCH" /\ SendsData(r) ->
            [o EXCEPT !.http = "POST", !.nobody = FALSE, !.custom = "PATCH"]
      [] r.method \in {"POST", "PUT"} /\ SendsData(r) ->
            [o EXCEPT !.http = r.method, !.nobody = FALSE]
      [] OTHER -> [o EXCEPT !.custom = r.method]

\* The options of MakeRequest.  READDATA is set for a request with a body
\* only, even an empty one.  Headers, URL, TLS and proxy options are set on every path.
SetOptions(o, t, r) ==
    [SetMethod(o, r) EXCEPT !.write = t, !.read = IF r.body THEN t ELSE @]

Configure(t) ==
    /\ At(t, "configure")
    /\ LET h == frame[t].handle IN
       options' = [options EXCEPT ![h] = SetOptions(@, t, frame[t].request)]
    /\ GoTo(t, "perform")
    /\ UNCHANGED <<cache, shareOf, frame, disabled, broken>>

-----------------------------------------------------------------------------
(* curl_easy_perform.                                                      *)

\* WriteHeader parses a content-length, before there is a body.
WriteHeader(t) ==
    /\ At(t, "perform")
    /\ frame[t].announced = NoLength /\ frame[t].received = 0
    /\ \E n \in 0..MaxLength : frame' = [frame EXCEPT ![t].announced = n]
    /\ UNCHANGED <<containerVars, tpc, disabled, broken>>

Continues(t) == ~frame[t].cancelled
Enabled(t) == frame[t].request.client \notin disabled

\* WriteData: consume a piece of the body ...
WriteData(t) ==
    /\ At(t, "perform")
    /\ Continues(t) /\ Enabled(t)
    /\ frame[t].received < MaxLength
    /\ frame' = [frame EXCEPT ![t].received = @ + 1]
    /\ UNCHANGED <<containerVars, tpc, disabled, broken>>

\* The transfer has ended with code c.
EndPerform(t, c) ==
    /\ At(t, "perform")
    /\ frame' = [frame EXCEPT ![t].code = c]
    /\ broken' = IF c = "ok" THEN broken \ {frame[t].handle} ELSE broken \cup {frame[t].handle}
    /\ GoTo(t, "classify")
    /\ UNCHANGED <<containerVars, disabled>>

\* WriteData, ReadBody or SeekBody make curl give up.
RefuseData(t) ==
    /\ At(t, "perform")
    /\ ~(Continues(t) /\ Enabled(t))
    /\ EndPerform(t, "error")

\* The transfer succeeds, or fails (time-outs included).
Transferred(t) == \E c \in {"ok", "error"} : EndPerform(t, c)

-----------------------------------------------------------------------------

\* Fewer or more bytes than the response announced.
WrongLength(t) ==
    /\ frame[t].request.method # "HEAD"
    /\ Enabled(t)
    /\ frame[t].announced \notin {NoLength, frame[t].received}

\* The error type of the response.
Classify(t) ==
    /\ At(t, "classify")
    /\ frame' = [frame EXCEPT ![t].response =
          IF ~Continues(t) THEN "cancelled"
          ELSE IF frame[t].code # "ok" \/ WrongLength(t) THEN "network"
          ELSE "success"]
    /\ GoTo(t, "return")
    /\ UNCHANGED <<containerVars, disabled, broken>>

\* Mutant of Return: the handle of a cancelled request is always reused.
ReturnByResponse(t) ==
    /\ At(t, "return")
    /\ CASE frame[t].handle = None -> UNCHANGED containerVars
         [] frame[t].response = "network" -> DestroyCurlHandle(frame[t].handle)
         [] OTHER -> ReleaseCurlHandle(frame[t].request.domain, frame[t].handle)
    /\ GoTo(t, "idle")
    /\ frame' = [frame EXCEPT ![t] = NoFrame]
    /\ UNCHANGED <<disabled, broken>>

\* A handle is destroyed if curl failed, and reused otherwise.
Return(t) ==
    /\ At(t, "return")
    /\ CASE frame[t].handle = None -> UNCHANGED containerVars
         [] frame[t].code = "error" -> DestroyCurlHandle(frame[t].handle)
         [] frame[t].code = "ok" ->
               ReleaseCurlHandle(frame[t].request.domain, frame[t].handle)
    /\ GoTo(t, "idle")
    /\ frame' = [frame EXCEPT ![t] = NoFrame]
    /\ UNCHANGED <<disabled, broken>>

-----------------------------------------------------------------------------
(* The owners of the requests and of the clients.                          *)

\* The continuation handler of t's request answers no from now on.
Cancel(t) ==
    /\ tpc[t] \in {"configure", "perform", "classify"}
    /\ frame' = [frame EXCEPT ![t].cancelled = TRUE]
    /\ UNCHANGED <<containerVars, tpc, disabled, broken>>

\* HttpClient::DisableRequestProcessing.
Disable(c) ==
    /\ disabled' = disabled \cup {c}
    /\ UNCHANGED <<containerVars, tpc, frame, broken>>

Step(t) ==
    \/ Configure(t)
    \/ WriteHeader(t) \/ WriteData(t) \/ RefuseData(t) \/ Transferred(t)
    \/ Classify(t) \/ Return(t)

Next ==
    \/ \E t \in Threads :
          \/ \E r \in Requests : MakeRequest(t, r) \/ NotMade(t, r)
          \/ Step(t)
          \/ Cancel(t)
    \/ \E c \in Clients : Disable(c)

Spec == Init /\ [][Next]_vars

-----------------------------------------------------------------------------
(* Properties.                                                             *)

Held == {frame[t].handle : t \in Threads} \ {None}
Cached(d) == {cache[d][i] : i \in DOMAIN cache[d]}

\* A handle is in one place at a time: libcurl forbids two threads to use the
\* same handle, and a handle that is neither held nor cached would be leaked.
HandleInOnePlace ==
    /\ \A t, u \in Threads : t # u /\ frame[t].handle # None =>
          frame[t].handle # frame[u].handle
    /\ \A d \in Domains : /\ Cached(d) \cap Held = {}
                          /\ Cardinality(Cached(d)) = Len(cache[d])
    /\ \A d, e \in Domains : d # e => Cached(d) \cap Cached(e) = {}
    /\ Live = Held \cup UNION {Cached(d) : d \in Domains}

\* The verb curl sends.
Verb(o) == IF o.custom # None THEN o.custom ELSE IF o.nobody THEN "HEAD" ELSE o.http

\* Whatever request used the handle before, of whichever client, a transfer
\* runs with its own request's options: its verb, its client's time-outs, its
\* contexts, and a body to read only if it has one.
OwnOptions ==
    \A t \in Threads :
        At(t, "perform") =>
            LET o == options[frame[t].handle]
                r == frame[t].request IN
            /\ Verb(o) = r.method
            /\ o.nobody => r.method = "HEAD"
            /\ o.client = r.client
            /\ o.write = t
            /\ o.read = IF r.body THEN t ELSE None

\* "When the handle has bad DNS entries, problematic live connections, we need
\* to destroy the handle from pool": no cached handle's last transfer failed,
\* however the failure was reported to the caller.
NoBrokenHandleCached == \A d \in Domains : Cached(d) \cap broken = {}

\* Handles are created on demand only: the cache never grows beyond the
\* number of threads that use a domain at the same time.
PoolBounded ==
    \A d \in Domains :
        Cardinality({h \in Handles : shareOf[h] = d}) <= Cardinality(Threads)

=============================================================================
