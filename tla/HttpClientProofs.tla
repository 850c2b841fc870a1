-------------------------- MODULE HttpClientProofs --------------------------
(***************************************************************************)
(* Theorems about HttpClient and the handle cache, for any number of       *)
(* threads, domains, handles and clients and any kinds of requests: what a *)
(* thread may assume of the CURL handle it gets from the cache.            *)
(***************************************************************************)
EXTENDS HttpClient, FiniteSetTheorems, TLAPS

-----------------------------------------------------------------------------
(* The invariant.                                                          *)

Verbs == {"GET", "HEAD", "POST", "PUT", "PATCH", "DELETE"}

CurlOptions ==
    [client : Clients \cup {None}, http : Verbs, custom : Verbs \cup {None}, nobody : BOOLEAN,
     write : Threads \cup {None}, read : Threads \cup {None}]

Frames ==
    [request : Requests \cup {None}, handle : Handles \cup {None}, announced : Int,
     received : Nat, code : {"none", "ok", "error"},
     response : {"none", "notMade", "cancelled", "network", "success"}, cancelled : BOOLEAN]

TypeOK ==
    /\ cache \in [Domains -> Seq(Handles)]
    /\ shareOf \in [Handles -> Domains \cup {None}]
    /\ options \in [Handles -> CurlOptions]
    /\ tpc \in [Threads -> {"idle", "configure", "perform", "classify", "return"}]
    /\ frame \in [Threads -> Frames]
    /\ disabled \subseteq Clients
    /\ broken \subseteq Handles

\* The locals of MakeRequest, at each place of the function.  A handle comes
\* with a request to the domain of its share.
FrameInv ==
    \A t \in Threads :
        /\ tpc[t] = "idle" => frame[t] = NoFrame
        /\ tpc[t] \in {"configure", "perform", "classify"} => frame[t].handle # None
        /\ frame[t].handle # None => /\ frame[t].request \in Requests
                                     /\ shareOf[frame[t].handle] = frame[t].request.domain
        /\ frame[t].handle = None => frame[t].code = "none"
        /\ tpc[t] \in {"classify", "return"} /\ frame[t].handle # None =>
              frame[t].code \in {"ok", "error"}

\* A handle is on one stack frame, or once in the stack of its domain.
PlaceInv ==
    /\ \A t, u \in Threads : t # u /\ frame[t].handle # None => frame[t].handle # frame[u].handle
    /\ \A d \in Domains :
          /\ \A i, j \in DOMAIN cache[d] : cache[d][i] = cache[d][j] => i = j
          /\ \A h \in Cached(d) : shareOf[h] = d /\ h \notin Held
    /\ \A h \in Live : h \in Held \cup Cached(shareOf[h])

\* What curl remembers for the transfer of a request.
Configured(t) ==
    SetOptions([Blank EXCEPT !.client = frame[t].request.client], t, frame[t].request)

\* Only the handles of requests under way have options.
OptionsInv ==
    /\ \A h \in Handles \ Held : options[h] = Blank
    /\ \A t \in Threads :
          /\ tpc[t] = "configure" =>
                options[frame[t].handle] = [Blank EXCEPT !.client = frame[t].request.client]
          /\ tpc[t] = "perform" => options[frame[t].handle] = Configured(t)

\* No idle handle, and none that is to become idle, is broken.
BrokenInv ==
    /\ NoBrokenHandleCached
    /\ \A t \in Threads : frame[t].code = "ok" => frame[t].handle \notin broken

HttpInv == TypeOK /\ FrameInv /\ PlaceInv /\ OptionsInv /\ BrokenInv /\ PoolBounded

-----------------------------------------------------------------------------
(* Operations of the cache.                                                *)

\* The stack of a domain after pop_back().
LEMMA ReuseCached ==
    ASSUME TypeOK, PlaceInv, NEW d \in Domains, NEW h \in Handles, Reuse(d, h)
    PROVE  /\ cache' \in [Domains -> Seq(Handles)] /\ UNCHANGED shareOf
           /\ h \in Cached(d)
           /\ \A e \in Domains : Cached(e)' = Cached(e) \ {h}
           /\ \A e \in Domains :
                 \A i, j \in DOMAIN cache'[e] : cache'[e][i] = cache'[e][j] => i = j
<1> DEFINE s == cache[d]
           n == Len(s)
<1>1. s \in Seq(Handles) /\ s # << >> /\ h = s[n] /\ UNCHANGED shareOf
  BY DEF TypeOK, Reuse
<1>2. cache' = [cache EXCEPT ![d] = SubSeq(s, 1, n - 1)]
  BY DEF Reuse
<1>3. n \in Nat /\ n # 0 /\ DOMAIN s = 1..n
  BY <1>1
<1>4. \A i, j \in 1..n : s[i] = s[j] => i = j
  BY <1>3 DEF PlaceInv
<1>5. /\ SubSeq(s, 1, n - 1) \in Seq(Handles) /\ DOMAIN SubSeq(s, 1, n - 1) = 1..(n - 1)
      /\ \A i \in 1..(n - 1) : SubSeq(s, 1, n - 1)[i] = s[i]
  BY <1>1, <1>3
<1>6. cache' \in [Domains -> Seq(Handles)] /\ cache'[d] = SubSeq(s, 1, n - 1)
      /\ \A e \in Domains \ {d} : cache'[e] = cache[e]
  BY <1>2, <1>5 DEF TypeOK
<1>7. h \in Cached(d)
  BY <1>1, <1>3 DEF Cached
<1>8. Cached(d) = {s[i] : i \in 1..n} /\ Cached(d)' = {s[i] : i \in 1..(n - 1)}
  BY <1>3, <1>5, <1>6 DEF Cached
<1> HIDE DEF s, n
<1>9. \A i \in 1..n : s[i] = h <=> i = n
  BY <1>1, <1>3, <1>4
<1>10. \A i \in 1..n : i \in 1..(n - 1) <=> s[i] # h
  BY <1>3, <1>9
<1>11. 1..(n - 1) \subseteq 1..n
  BY <1>3
<1>12. Cached(d)' = Cached(d) \ {h}
  BY <1>8, <1>10, <1>11
<1>13. \A e \in Domains \ {d} : Cached(e)' = Cached(e)
  BY <1>6 DEF Cached
<1>14. \A e \in Domains \ {d} : h \notin Cached(e)
  BY <1>7 DEF PlaceInv
<1>15. \A i, j \in DOMAIN cache'[d] : cache'[d][i] = cache'[d][j] => i = j
  BY <1>4, <1>5, <1>6, <1>11
<1>16. \A e \in Domains \ {d} :
          \A i, j \in DOMAIN cache'[e] : cache'[e][i] = cache'[e][j] => i = j
  BY <1>6 DEF PlaceInv
<1> QED
  BY <1>1, <1>6, <1>7, <1>12, <1>13, <1>14, <1>15, <1>16

\* The stack of a domain after push_back().
LEMMA ReleaseCached ==
    ASSUME TypeOK, PlaceInv, NEW d \in Domains, NEW h \in Handles, h \notin Cached(d),
           ReleaseCurlHandle(d, h)
    PROVE  /\ cache' \in [Domains -> Seq(Handles)] /\ UNCHANGED shareOf
           /\ Cached(d)' = Cached(d) \cup {h}
           /\ \A e \in Domains \ {d} : Cached(e)' = Cached(e)
           /\ \A e \in Domains :
                 \A i, j \in DOMAIN cache'[e] : cache'[e][i] = cache'[e][j] => i = j
<1> DEFINE s == cache[d]
           n == Len(s)
           r == Append(s, h)
<1>1. s \in Seq(Handles) /\ n \in Nat /\ DOMAIN s = 1..n
  BY DEF TypeOK
<1>2. /\ r \in Seq(Handles) /\ DOMAIN r = 1..(n + 1)
      /\ \A i \in 1..n : r[i] = s[i]
      /\ r[n + 1] = h
  BY <1>1
<1>3. cache' \in [Domains -> Seq(Handles)] /\ cache'[d] = r
      /\ \A e \in Domains \ {d} : cache'[e] = cache[e]
  BY <1>2 DEF TypeOK, ReleaseCurlHandle
<1>4. Cached(d) = {s[i] : i \in 1..n} /\ Cached(d)' = {r[i] : i \in 1..(n + 1)}
  BY <1>1, <1>2, <1>3 DEF Cached
<1>5. \A i, j \in 1..n : s[i] = s[j] => i = j
  BY <1>1 DEF PlaceInv
<1> HIDE DEF s, n, r
<1>6. \A i \in 1..(n + 1) : i \in 1..n \/ i = n + 1
  BY <1>1
<1>7. 1..n \subseteq 1..(n + 1) /\ n + 1 \in 1..(n + 1)
  BY <1>1
<1>8. Cached(d)' = Cached(d) \cup {h}
  BY <1>2, <1>4, <1>6, <1>7
<1>9. \A i \in 1..n : s[i] # h
  BY <1>4
<1>10. \A i, j \in 1..(n + 1) : r[i] = r[j] => i = j
  BY <1>2, <1>5, <1>6, <1>9
<1>11. \A e \in Domains \ {d} : Cached(e)' = Cached(e)
  BY <1>3 DEF Cached
<1>12. UNCHANGED shareOf
  BY DEF ReleaseCurlHandle
<1>13. \A e \in Domains \ {d} :
          \A i, j \in DOMAIN cache'[e] : cache'[e][i] = cache'[e][j] => i = j
  BY <1>3 DEF PlaceInv
<1>14. \A i, j \in DOMAIN cache'[d] : cache'[d][i] = cache'[d][j] => i = j
  BY <1>2, <1>3, <1>10
<1> QED
  BY <1>3, <1>8, <1>11, <1>12, <1>13, <1>14

\* Where a handle may be, as the threads see it.
LEMMA PlaceFacts ==
    ASSUME TypeOK, FrameInv, PlaceInv
    PROVE  /\ \A t \in Threads : frame[t].handle # None =>
                 /\ frame[t].handle \in Handles /\ frame[t].handle \in Held
                 /\ frame[t].request \in Requests /\ frame[t].request.domain \in Domains
                 /\ \A d \in Domains : frame[t].handle \notin Cached(d)
           /\ Held \subseteq Live
           /\ \A d \in Domains : Cached(d) \subseteq Live /\ Cached(d) \cap Held = {}
<1>1. \A t \in Threads : frame[t] \in Frames
  BY DEF TypeOK
<1>2. \A t \in Threads : frame[t].handle # None =>
         /\ frame[t].handle \in Handles /\ frame[t].handle \in Held
         /\ frame[t].request \in Requests /\ frame[t].request.domain \in Domains
         /\ shareOf[frame[t].handle] # None
  BY <1>1, RequestsAssumption, DomainsAssumption DEF Frames, FrameInv, Held
<1>3. \A d \in Domains : Cached(d) \subseteq Handles
  BY DEF TypeOK, Cached
<1>4. \A d \in Domains : Cached(d) \subseteq Live /\ Cached(d) \cap Held = {}
  BY <1>3, DomainsAssumption DEF PlaceInv, Live
<1> QED
  BY <1>2, <1>4 DEF Held, Live

\* A handle from the cache is blank, but for what AcquireCurlHandle sets.
LEMMA OptionsOfAcquired ==
    ASSUME TypeOK, OptionsInv, NEW d \in Domains, NEW c \in Clients,
           NEW h \in Handles, h \notin Held, AcquireCurlHandle(d, c, h)
    PROVE  /\ options' \in [Handles -> CurlOptions]
           /\ \A g \in Handles \ {h} : options'[g] = options[g]
           /\ options'[h] = [Blank EXCEPT !.client = c]
<1>1. options[h] = Blank /\ options' = [options EXCEPT ![h].client = c]
  BY DEF OptionsInv, AcquireCurlHandle
<1>2. [Blank EXCEPT !.client = c] \in CurlOptions
  BY DEF Blank, CurlOptions, Verbs
<1> QED
  BY <1>1, <1>2 DEF TypeOK

\* A handle that a thread gets is nobody else's, has its domain's share and no
\* options but its client's.
LEMMA AcquireFacts ==
    ASSUME TypeOK, FrameInv, PlaceInv, OptionsInv,
           NEW d \in Domains, NEW c \in Clients, NEW h \in Handles, AcquireCurlHandle(d, c, h)
    PROVE  /\ cache' \in [Domains -> Seq(Handles)]
           /\ shareOf' \in [Handles -> Domains \cup {None}]
           /\ options' \in [Handles -> CurlOptions]
           /\ h \notin Held /\ shareOf'[h] = d
           /\ shareOf' = shareOf \/ (h \notin Live /\ Cached(d) = {})
           /\ \A g \in Handles \ {h} : shareOf'[g] = shareOf[g] /\ options'[g] = options[g]
           /\ options'[h] = [Blank EXCEPT !.client = c]
           /\ \A e \in Domains : Cached(e)' = Cached(e) \ {h}
           /\ \A e \in Domains :
                 \A i, j \in DOMAIN cache'[e] : cache'[e][i] = cache'[e][j] => i = j
<1>1. CASE Reuse(d, h)
  <2>1. h \notin Held /\ shareOf[h] = d
    BY <1>1, ReuseCached DEF PlaceInv
  <2>2. shareOf \in [Handles -> Domains \cup {None}] /\ UNCHANGED shareOf
    BY <1>1 DEF TypeOK, Reuse
  <2>3. /\ cache' \in [Domains -> Seq(Handles)]
        /\ \A e \in Domains : Cached(e)' = Cached(e) \ {h}
        /\ \A e \in Domains :
              \A i, j \in DOMAIN cache'[e] : cache'[e][i] = cache'[e][j] => i = j
    BY <1>1, ReuseCached
  <2>4. /\ options' \in [Handles -> CurlOptions]
        /\ \A g \in Handles \ {h} : options'[g] = options[g]
        /\ options'[h] = [Blank EXCEPT !.client = c]
    BY <2>1, OptionsOfAcquired
  <2>5. /\ shareOf'[h] = d /\ shareOf' = shareOf
        /\ \A g \in Handles \ {h} : shareOf'[g] = shareOf[g]
        /\ shareOf' \in [Handles -> Domains \cup {None}]
    BY <2>1, <2>2
  <2> QED
    BY <2>1, <2>3, <2>4, <2>5
<1>2. CASE Create(d, h)
  <2>1. h \notin Live /\ h \notin Held /\ \A e \in Domains : h \notin Cached(e)
    BY <1>2, PlaceFacts DEF Create
  <2>2. UNCHANGED cache /\ \A e \in Domains : Cached(e)' = Cached(e)
    BY <1>2 DEF Create, Cached
  <2>3. Cached(d) = {}
    BY <1>2 DEF Create, Cached
  <2>4. /\ shareOf' \in [Handles -> Domains \cup {None}] /\ shareOf'[h] = d
        /\ \A g \in Handles \ {h} : shareOf'[g] = shareOf[g]
    BY <1>2 DEF Create, TypeOK
  <2>5. \A e \in Domains :
           \A i, j \in DOMAIN cache'[e] : cache'[e][i] = cache'[e][j] => i = j
    BY <2>2 DEF PlaceInv
  <2>6. cache \in [Domains -> Seq(Handles)]
    BY DEF TypeOK
  <2> QED
    BY <2>1, <2>2, <2>3, <2>4, <2>5, <2>6, OptionsOfAcquired
<1> QED
  BY <1>1, <1>2 DEF AcquireCurlHandle

-----------------------------------------------------------------------------
(* Steps that leave the cache and the owners of the handles alone.         *)

\* A new stack frame has no handle and no result.
LEMMA BlankFrame ==
    /\ NoFrame \in Frames /\ NoFrame.handle = None /\ NoFrame.code = "none"
    /\ NoFrame.response = "none"
<1>1. NoLength \in Int /\ 0 \in Nat
  BY DEF NoLength
<1> QED
  BY <1>1 DEF NoFrame, Frames

\* Whoever leaves the cache and the handles of the frames alone moves no handle.
LEMMA SamePlaces ==
    ASSUME PlaceInv, PoolBounded, UNCHANGED containerVars,
           \A u \in Threads : frame'[u].handle = frame[u].handle
    PROVE  /\ Held' = Held /\ Live' = Live /\ \A d \in Domains : Cached(d)' = Cached(d)
           /\ PlaceInv' /\ PoolBounded'
<1>1. UNCHANGED <<cache, shareOf, options>>
  BY DEF containerVars
<1>2. Held' = Held
  BY DEF Held
<1>3. Live' = Live /\ \A d : Cached(d)' = Cached(d)
  BY <1>1 DEF Live, Cached
<1>4. PlaceInv'
  BY <1>1, <1>2, <1>3 DEF PlaceInv
<1>5. PoolBounded'
  BY <1>1 DEF PoolBounded
<1> QED
  BY <1>2, <1>3, <1>4, <1>5

\* A step of a thread inside MakeRequest that changes only its own frame and
\* keeps its request and its handle.
LEMMA LocalStep ==
    ASSUME HttpInv, NEW t \in Threads, UNCHANGED containerVars, frame' \in [Threads -> Frames],
           \A u \in Threads \ {t} : tpc'[u] = tpc[u] /\ frame'[u] = frame[u],
           frame'[t].handle = frame[t].handle, frame'[t].request = frame[t].request,
           tpc' \in [Threads -> {"idle", "configure", "perform", "classify", "return"}],
           tpc[t] \in {"configure", "perform", "classify"},
           tpc'[t] = tpc[t] \/ tpc'[t] \in {"classify", "return"},
           \/ frame'[t].code = frame[t].code /\ (tpc'[t] = tpc[t] \/ tpc[t] = "classify")
           \/ frame'[t].code \in {"ok", "error"}
    PROVE  /\ FrameInv' /\ PlaceInv' /\ PoolBounded' /\ OptionsInv'
           /\ \A d \in Domains : Cached(d)' = Cached(d)
<1> USE DEF HttpInv
<1>1. \A u \in Threads : frame'[u].handle = frame[u].handle /\ frame'[u].request = frame[u].request
  OBVIOUS
<1>2. /\ Held' = Held /\ PlaceInv' /\ PoolBounded'
      /\ \A d \in Domains : Cached(d)' = Cached(d)
  BY <1>1, SamePlaces
<1>3. FrameInv'
  BY DEF FrameInv, containerVars
<1>4. OptionsInv'
  <2>1. \A u \in Threads : Configured(u)' = Configured(u)
    BY <1>1 DEF Configured
  <2> QED
    BY <1>1, <1>2, <2>1 DEF OptionsInv, containerVars
<1> QED
  BY <1>2, <1>3, <1>4

\* The callbacks of curl count what arrives, in the frame of their thread.
LEMMA HeaderStep ==
    ASSUME HttpInv, NEW t \in Threads, WriteHeader(t) \/ WriteData(t) \/ Cancel(t)
    PROVE  HttpInv'
<1> USE DEF HttpInv
<1>1. /\ UNCHANGED <<containerVars, tpc, disabled, broken>>
      /\ tpc[t] \in {"configure", "perform", "classify"}
  BY DEF WriteHeader, WriteData, Cancel, At
<1>2. frame[t] \in Frames /\ frame \in [Threads -> Frames]
  BY DEF TypeOK
<1> DEFINE OwnFrameOnly ==
              /\ frame' \in [Threads -> Frames]
              /\ \A u \in Threads \ {t} : frame'[u] = frame[u]
              /\ frame'[t].handle = frame[t].handle /\ frame'[t].request = frame[t].request
              /\ frame'[t].code = frame[t].code
<1>3. OwnFrameOnly
  <2>1. ASSUME NEW n \in Int, frame' = [frame EXCEPT ![t].announced = n]
        PROVE  OwnFrameOnly
    BY <1>2, <2>1 DEF Frames
  <2>2. CASE WriteData(t)
    BY <1>2, <2>2 DEF WriteData, Frames
  <2>3. CASE Cancel(t)
    BY <1>2, <2>3 DEF Cancel, Frames
  <2>4. CASE WriteHeader(t)
    <3>1. PICK n \in 0..MaxLength : frame' = [frame EXCEPT ![t].announced = n]
      BY <2>4 DEF WriteHeader
    <3>2. n \in Int
      BY LengthAssumption
    <3> QED
      BY <2>1, <3>1, <3>2
  <2> QED
    BY <2>2, <2>3, <2>4
<1>4. /\ FrameInv' /\ PlaceInv' /\ PoolBounded' /\ OptionsInv'
      /\ \A d \in Domains : Cached(d)' = Cached(d)
  BY <1>1, <1>3, LocalStep DEF TypeOK
<1>5. TypeOK'
  BY <1>1, <1>3 DEF TypeOK, containerVars
<1>6. BrokenInv'
  BY <1>1, <1>3, <1>4 DEF BrokenInv, NoBrokenHandleCached
<1> QED
  BY <1>4, <1>5, <1>6

\* The handle of a transfer that ends is the thread's own.
LEMMA PerformStep ==
    ASSUME HttpInv, NEW t \in Threads, NEW c \in {"ok", "error"}, EndPerform(t, c)
    PROVE  HttpInv'
<1> USE DEF HttpInv
<1>1. /\ UNCHANGED <<containerVars, disabled>> /\ tpc[t] = "perform"
      /\ frame' = [frame EXCEPT ![t].code = c] /\ tpc' = [tpc EXCEPT ![t] = "classify"]
  BY DEF EndPerform, At, GoTo
<1>2. frame[t] \in Frames /\ frame \in [Threads -> Frames]
      /\ tpc \in [Threads -> {"idle", "configure", "perform", "classify", "return"}]
  BY DEF TypeOK
<1>3. /\ frame' \in [Threads -> Frames]
      /\ tpc' \in [Threads -> {"idle", "configure", "perform", "classify", "return"}]
      /\ \A u \in Threads \ {t} : frame'[u] = frame[u] /\ tpc'[u] = tpc[u]
      /\ frame'[t].handle = frame[t].handle /\ frame'[t].request = frame[t].request
      /\ frame'[t].code = c /\ tpc'[t] = "classify"
  BY <1>1, <1>2 DEF Frames
<1>4. /\ FrameInv' /\ PlaceInv' /\ PoolBounded' /\ OptionsInv'
      /\ \A d \in Domains : Cached(d)' = Cached(d)
  BY <1>1, <1>3, LocalStep
<1>5. frame[t].handle # None
  BY <1>1 DEF FrameInv
<1>6. /\ frame[t].handle \in Handles
      /\ \A d \in Domains : frame[t].handle \notin Cached(d)
      /\ \A u \in Threads \ {t} : frame[u].handle # frame[t].handle
  BY <1>5, PlaceFacts DEF PlaceInv
<1>7. broken' = IF c = "ok" THEN broken \ {frame[t].handle} ELSE broken \cup {frame[t].handle}
  BY DEF EndPerform
<1>8. TypeOK'
  BY <1>1, <1>3, <1>6, <1>7 DEF TypeOK, containerVars
<1>9. BrokenInv'
  <2>1. NoBrokenHandleCached'
    BY <1>4, <1>6, <1>7 DEF BrokenInv, NoBrokenHandleCached
  <2>2. \A u \in Threads \ {t} : frame[u].code = "ok" => frame[u].handle \notin broken'
    BY <1>6, <1>7 DEF BrokenInv
  <2>3. c = "ok" => frame[t].handle \notin broken'
    BY <1>7
  <2> QED
    BY <1>3, <2>1, <2>2, <2>3 DEF BrokenInv
<1> QED
  BY <1>4, <1>8, <1>9

\* The response is decided upon after the transfer.
LEMMA ClassifyStep ==
    ASSUME HttpInv, NEW t \in Threads, Classify(t)
    PROVE  HttpInv'
<1> USE DEF HttpInv
<1> DEFINE r == IF ~Continues(t) THEN "cancelled"
                ELSE IF frame[t].code # "ok" \/ WrongLength(t) THEN "network" ELSE "success"
<1>1. /\ UNCHANGED <<containerVars, disabled, broken>> /\ tpc[t] = "classify"
      /\ frame' = [frame EXCEPT ![t].response = r] /\ tpc' = [tpc EXCEPT ![t] = "return"]
  BY DEF Classify, At, GoTo
<1>2. frame[t] \in Frames /\ frame \in [Threads -> Frames]
      /\ tpc \in [Threads -> {"idle", "configure", "perform", "classify", "return"}]
  BY DEF TypeOK
<1>3. r \in {"cancelled", "network", "success"} /\ (r = "success" => ~WrongLength(t))
  OBVIOUS
<1> HIDE DEF r
<1>4. /\ frame' \in [Threads -> Frames]
      /\ tpc' \in [Threads -> {"idle", "configure", "perform", "classify", "return"}]
      /\ \A u \in Threads \ {t} : frame'[u] = frame[u] /\ tpc'[u] = tpc[u]
      /\ frame'[t] = [frame[t] EXCEPT !.response = r] /\ tpc'[t] = "return"
  BY <1>1, <1>2, <1>3 DEF Frames
<1>5. /\ frame'[t].handle = frame[t].handle /\ frame'[t].request = frame[t].request
      /\ frame'[t].code = frame[t].code /\ frame'[t].response = r
      /\ frame'[t].announced = frame[t].announced /\ frame'[t].received = frame[t].received
  BY <1>2, <1>4 DEF Frames
<1>6. /\ FrameInv' /\ PlaceInv' /\ PoolBounded' /\ OptionsInv'
      /\ \A d \in Domains : Cached(d)' = Cached(d)
  BY <1>1, <1>4, <1>5, LocalStep
<1>7. TypeOK'
  BY <1>1, <1>4 DEF TypeOK, containerVars
<1>8. BrokenInv'
  BY <1>1, <1>4, <1>5, <1>6 DEF BrokenInv, NoBrokenHandleCached
<1> QED
  BY <1>6, <1>7, <1>8

\* A client may be disabled at any time; requests under way go on.
LEMMA DisableStep ==
    ASSUME HttpInv, (\E c \in Clients : Disable(c)) \/ UNCHANGED vars
    PROVE  HttpInv'
<1> USE DEF HttpInv
<1>1. /\ UNCHANGED <<cache, shareOf, options, tpc, frame, broken>>
      /\ disabled \subseteq disabled' /\ disabled' \subseteq Clients
  BY DEF Disable, vars, containerVars, TypeOK
<1>2. /\ Held' = Held /\ PlaceInv' /\ PoolBounded'
      /\ \A d \in Domains : Cached(d)' = Cached(d)
  BY <1>1, SamePlaces DEF containerVars
<1>3. TypeOK' /\ FrameInv'
  BY <1>1 DEF TypeOK, FrameInv
<1>4. OptionsInv' /\ BrokenInv'
  BY <1>1, <1>2 DEF OptionsInv, Configured, BrokenInv, NoBrokenHandleCached
<1> QED
  BY <1>2, <1>3, <1>4

\* No handle: the frame has none, before and after.
LEMMA NotMadeStep ==
    ASSUME HttpInv, NEW t \in Threads, NEW r \in Requests, NotMade(t, r)
    PROVE  HttpInv'
<1> USE DEF HttpInv
<1> DEFINE f == [NoFrame EXCEPT !.request = r, !.response = "notMade"]
<1>1. /\ UNCHANGED <<containerVars, disabled, broken>> /\ frame[t] = NoFrame
      /\ frame' = [frame EXCEPT ![t] = f] /\ tpc' = [tpc EXCEPT ![t] = "return"]
  BY DEF NotMade, At, GoTo, AcquireNull, FrameInv
<1>2. f \in Frames /\ f.handle = None /\ f.code = "none" /\ f.response = "notMade"
      /\ NoFrame.handle = None
  BY BlankFrame DEF Frames
<1> HIDE DEF f
<1>3. /\ frame' \in [Threads -> Frames]
      /\ tpc' \in [Threads -> {"idle", "configure", "perform", "classify", "return"}]
      /\ \A u \in Threads \ {t} : frame'[u] = frame[u] /\ tpc'[u] = tpc[u]
      /\ frame'[t] = f /\ tpc'[t] = "return"
  BY <1>1, <1>2 DEF TypeOK
<1>4. /\ Held' = Held /\ PlaceInv' /\ PoolBounded'
      /\ \A d \in Domains : Cached(d)' = Cached(d)
  BY <1>1, <1>2, <1>3, SamePlaces
<1>5. TypeOK' /\ FrameInv'
  BY <1>1, <1>2, <1>3 DEF TypeOK, FrameInv, containerVars
<1>6. OptionsInv'
  BY <1>1, <1>3, <1>4 DEF OptionsInv, Configured, containerVars
<1>7. BrokenInv'
  BY <1>1, <1>2, <1>3, <1>4 DEF BrokenInv, NoBrokenHandleCached
<1> QED
  BY <1>4, <1>5, <1>6, <1>7

-----------------------------------------------------------------------------
(* Steps that move a handle, or set its options.                           *)

\* The handles that threads hold are no more than the threads.
LEMMA HeldCount ==
    ASSUME NEW f \in [Threads -> Handles \cup {None}], NEW H,
           \A h \in H : \E t \in Threads : f[t] = h
    PROVE  Cardinality(H) <= Cardinality(Threads)
<1> DEFINE g == [h \in H |-> CHOOSE t \in Threads : f[t] = h]
<1>1. \A h \in H : g[h] \in Threads /\ f[g[h]] = h
  OBVIOUS
<1>2. g \in [H -> Threads]
  BY <1>1
<1> HIDE DEF g
<1>3. g \in Injection(H, Threads)
  BY <1>1, <1>2 DEF Injection, IsInjective
<1> QED
  BY <1>3, ThreadsAssumption, FS_Injection

\* MakeRequest sets options to what curl knows.
LEMMA OptionTypes ==
    ASSUME NEW o \in CurlOptions, NEW r \in Requests, NEW t \in Threads
    PROVE  SetOptions(o, t, r) \in CurlOptions
<1>1. r.method \in Verbs
  BY RequestsAssumption DEF Verbs
<1>2. SetMethod(o, r) \in CurlOptions
  BY <1>1 DEF SetMethod, CurlOptions, Verbs
<1> QED
  BY <1>2 DEF SetOptions, CurlOptions

\* MakeRequest sets the options of its handle, over those of a reset one.
LEMMA ConfigureStep ==
    ASSUME HttpInv, NEW t \in Threads, Configure(t)
    PROVE  HttpInv'
<1> USE DEF HttpInv
<1> DEFINE h == frame[t].handle
           r == frame[t].request
           o == [Blank EXCEPT !.client = r.client]
<1>1. /\ UNCHANGED <<cache, shareOf, frame, disabled, broken>> /\ tpc[t] = "configure"
      /\ tpc' = [tpc EXCEPT ![t] = "perform"]
      /\ options' = [options EXCEPT ![h] = SetOptions(options[h], t, r)]
  BY DEF Configure, At, GoTo
<1>2. h # None /\ h \in Handles /\ r \in Requests /\ options[h] = o
      /\ \A u \in Threads \ {t} : frame[u].handle # h
  BY <1>1, PlaceFacts DEF FrameInv, OptionsInv, PlaceInv
<1>3. o \in CurlOptions
  BY <1>2, RequestsAssumption DEF Blank, CurlOptions, Verbs
<1>4. Configured(t) = SetOptions(o, t, r)
  BY DEF Configured
<1> HIDE DEF h, r, o
<1>5. Configured(t) \in CurlOptions
  BY <1>2, <1>3, <1>4, OptionTypes
<1>6. options' = [options EXCEPT ![h] = Configured(t)]
  BY <1>1, <1>2, <1>4
<1>7. /\ options' \in [Handles -> CurlOptions] /\ options'[h] = Configured(t)
      /\ \A g \in Handles \ {h} : options'[g] = options[g]
  BY <1>2, <1>5, <1>6 DEF TypeOK
<1>8. /\ tpc' \in [Threads -> {"idle", "configure", "perform", "classify", "return"}]
      /\ tpc'[t] = "perform" /\ \A u \in Threads \ {t} : tpc'[u] = tpc[u]
  BY <1>1 DEF TypeOK
<1>9. Held' = Held /\ Live' = Live /\ (\A d : Cached(d)' = Cached(d))
       /\ \A u \in Threads : Configured(u)' = Configured(u)
  BY <1>1 DEF Held, Live, Cached, Configured
<1>10. TypeOK' /\ FrameInv'
  BY <1>1, <1>7, <1>8 DEF TypeOK, FrameInv
<1>11. PlaceInv' /\ PoolBounded'
  BY <1>1, <1>9 DEF PlaceInv, PoolBounded
<1>12. OptionsInv'
  <2>1. h \in Held /\ frame[t].handle = h
    BY <1>2 DEF Held, h
  <2>2. \A u \in Threads \ {t} : frame[u].handle \in Handles \ {h} \/ tpc[u] \notin {"configure", "perform"}
    BY <1>2, PlaceFacts DEF FrameInv
  <2> QED
    BY <1>1, <1>7, <1>8, <1>9, <2>1, <2>2 DEF OptionsInv
<1>13. BrokenInv'
  BY <1>1, <1>9 DEF BrokenInv, NoBrokenHandleCached
<1> QED
  BY <1>10, <1>11, <1>12, <1>13

\* MakeRequest gets a handle, cached or new.
LEMMA MakeRequestStep ==
    ASSUME HttpInv, NEW t \in Threads, NEW r \in Requests, MakeRequest(t, r)
    PROVE  HttpInv'
<1> USE DEF HttpInv
<1>1. PICK h \in Handles :
         /\ AcquireCurlHandle(r.domain, r.client, h)
         /\ frame' = [frame EXCEPT ![t] = [NoFrame EXCEPT !.request = r, !.handle = h]]
         /\ broken' = IF h \in Live THEN broken ELSE broken \ {h}
  BY DEF MakeRequest
<1> DEFINE d == r.domain
           f == [NoFrame EXCEPT !.request = r, !.handle = h]
<1>2. /\ UNCHANGED disabled /\ frame[t] = NoFrame /\ tpc[t] = "idle"
      /\ tpc' = [tpc EXCEPT ![t] = "configure"] /\ d \in Domains /\ r.client \in Clients
  BY RequestsAssumption DEF MakeRequest, At, GoTo, FrameInv
<1>3. /\ f \in Frames /\ f.handle = h /\ f.request = r /\ f.code = "none"
      /\ NoFrame.handle = None /\ h # None
  BY BlankFrame, HandlesAssumption DEF Frames, NoFrame
<1>4. /\ cache' \in [Domains -> Seq(Handles)]
      /\ shareOf' \in [Handles -> Domains \cup {None}]
      /\ options' \in [Handles -> CurlOptions]
      /\ h \notin Held /\ shareOf'[h] = d
      /\ shareOf' = shareOf \/ (h \notin Live /\ Cached(d) = {})
      /\ \A g \in Handles \ {h} : shareOf'[g] = shareOf[g] /\ options'[g] = options[g]
      /\ options'[h] = [Blank EXCEPT !.client = r.client]
      /\ \A e \in Domains : Cached(e)' = Cached(e) \ {h}
      /\ \A e \in Domains :
            \A i, j \in DOMAIN cache'[e] : cache'[e][i] = cache'[e][j] => i = j
  BY <1>1, <1>2, AcquireFacts
<1>5. frame' = [frame EXCEPT ![t] = f]
  BY <1>1
<1> HIDE DEF d, f
<1>6. /\ frame' \in [Threads -> Frames] /\ frame'[t] = f
      /\ tpc' \in [Threads -> {"idle", "configure", "perform", "classify", "return"}]
      /\ tpc'[t] = "configure"
      /\ \A u \in Threads \ {t} : frame'[u] = frame[u] /\ tpc'[u] = tpc[u]
  BY <1>2, <1>3, <1>5 DEF TypeOK
<1>7. Held' = Held \cup {h}
  BY <1>2, <1>3, <1>6 DEF Held
<1>8. \A u \in Threads \ {t} : frame[u].handle # h
  BY <1>3, <1>4 DEF Held
<1>9. TypeOK'
  BY <1>1, <1>2, <1>4, <1>6 DEF TypeOK
<1>10. FrameInv'
  <2>1. \A u \in Threads \ {t} : frame[u].handle # None => frame[u].handle \in Handles \ {h}
    BY <1>8, PlaceFacts
  <2> QED
    BY <1>3, <1>4, <1>6, <2>1 DEF FrameInv, d
<1>11. PlaceInv'
  <2>1. \A u, v \in Threads : u # v /\ frame'[u].handle # None => frame'[u].handle # frame'[v].handle
    BY <1>3, <1>6, <1>8 DEF PlaceInv
  <2>2. \A e \in Domains : \A g \in Cached(e)' : shareOf'[g] = e /\ g \notin Held'
    BY <1>4, <1>7, PlaceFacts DEF PlaceInv, Live
  <2>3. ASSUME NEW g \in Live'
        PROVE  g \in (Held \cup Cached(shareOf[g]))'
    <3>1. CASE g = h
      BY <1>7, <3>1
    <3>2. CASE g # h
      <4>1. g \in Handles /\ shareOf'[g] = shareOf[g] /\ shareOf[g] \in Domains
        BY <1>4, <3>2, <2>3 DEF Live, TypeOK
      <4>2. g \in Live
        BY <4>1, <2>3 DEF Live
      <4>3. g \in Held \cup Cached(shareOf[g])
        BY <4>2 DEF PlaceInv
      <4>4. \A e \in Domains : e = shareOf'[g] => Cached(shareOf[g])' = Cached(e)'
        BY DEF Cached
      <4> QED
        BY <1>4, <1>7, <3>2, <4>1, <4>3, <4>4
    <3> QED
      BY <3>1, <3>2
  <2> QED
    BY <1>4, <2>1, <2>2, <2>3 DEF PlaceInv
<1>12. OptionsInv'
  <2>1. \A u \in Threads \ {t} : Configured(u)' = Configured(u)
    BY <1>6 DEF Configured
  <2>2. \A u \in Threads \ {t} : frame[u].handle \in Handles \ {h} \/ tpc[u] \notin {"configure", "perform"}
    BY <1>8, PlaceFacts DEF FrameInv
  <2>3. \A g \in Handles \ Held' : options'[g] = Blank
    BY <1>4, <1>7 DEF OptionsInv
  <2>4. options'[frame'[t].handle] = [Blank EXCEPT !.client = frame'[t].request.client]
    BY <1>3, <1>4, <1>6
  <2>5. ASSUME NEW u \in Threads \ {t}
        PROVE  /\ tpc'[u] = "configure" => options'[frame'[u].handle]
                                             = [Blank EXCEPT !.client = frame'[u].request.client]
               /\ tpc'[u] = "perform" => options'[frame'[u].handle] = Configured(u)'
    BY <1>4, <1>6, <2>1, <2>2 DEF OptionsInv
  <2> QED
    BY <1>6, <2>3, <2>4, <2>5 DEF OptionsInv
<1>13. BrokenInv'
  BY <1>1, <1>3, <1>4, <1>6 DEF BrokenInv, NoBrokenHandleCached
<1>14. PoolBounded'
  <2>1. CASE shareOf' = shareOf
    BY <2>1 DEF PoolBounded
  <2>2. CASE h \notin Live /\ Cached(d) = {}
    <3> SUFFICES ASSUME NEW e \in Domains
                 PROVE  Cardinality({g \in Handles : shareOf'[g] = e}) <= Cardinality(Threads)
      BY DEF PoolBounded
    <3>1. CASE e # d
      <4>1. \A g \in Handles : shareOf'[g] = e <=> shareOf[g] = e
        BY <1>4, <2>2, <3>1, DomainsAssumption DEF Live
      <4>2. {g \in Handles : shareOf'[g] = e} = {g \in Handles : shareOf[g] = e}
        BY <4>1
      <4> QED
        BY <4>2 DEF PoolBounded
    <3>2. CASE e = d
      <4>1. \A g \in Handles : shareOf'[g] = d => g \in Held'
        <5>1. \A g \in Handles \ {h} : shareOf'[g] = d => g \in Live /\ shareOf[g] = d
          BY <1>2, <1>4, DomainsAssumption DEF Live
        <5>2. \A g \in Live : shareOf[g] = d => g \in Held
          BY <2>2 DEF PlaceInv
        <5> QED
          BY <1>7, <5>1, <5>2
      <4> DEFINE k == [u \in Threads |-> frame'[u].handle]
      <4>2. k \in [Threads -> Handles \cup {None}]
        BY <1>6 DEF Frames
      <4>3. \A g \in {x \in Handles : shareOf'[x] = e} : \E u \in Threads : k[u] = g
        BY <3>2, <4>1 DEF Held
      <4> HIDE DEF k
      <4> QED
        BY <4>2, <4>3, HeldCount
    <3> QED
      BY <3>1, <3>2
  <2> QED
    BY <1>4, <2>1, <2>2
<1> QED
  BY <1>9, <1>10, <1>11, <1>12, <1>13, <1>14

\* MakeRequest gives up its frame, and with it the handle.
LEMMA LeaveFrame ==
    ASSUME TypeOK, FrameInv, PlaceInv, NEW t \in Threads, Return(t)
    PROVE  /\ frame' \in [Threads -> Frames] /\ frame'[t] = NoFrame
           /\ tpc' \in [Threads -> {"idle", "configure", "perform", "classify", "return"}]
           /\ tpc'[t] = "idle"
           /\ \A u \in Threads \ {t} : frame'[u] = frame[u] /\ tpc'[u] = tpc[u]
           /\ Held' = Held \ {frame[t].handle}
           /\ UNCHANGED <<disabled, broken>> /\ tpc[t] = "return"
<1>1. /\ frame' = [frame EXCEPT ![t] = NoFrame] /\ tpc' = [tpc EXCEPT ![t] = "idle"]
      /\ UNCHANGED <<disabled, broken>> /\ tpc[t] = "return"
  BY DEF Return, At, GoTo
<1>2. /\ frame' \in [Threads -> Frames] /\ frame'[t] = NoFrame
      /\ tpc' \in [Threads -> {"idle", "configure", "perform", "classify", "return"}]
      /\ tpc'[t] = "idle"
      /\ \A u \in Threads \ {t} : frame'[u] = frame[u] /\ tpc'[u] = tpc[u]
  BY <1>1, BlankFrame DEF TypeOK
<1>3. \A u \in Threads \ {t} : frame[u].handle # None => frame[u].handle # frame[t].handle
  BY DEF PlaceInv
<1>4. Held' = Held \ {frame[t].handle}
  BY <1>2, <1>3, BlankFrame DEF Held
<1> QED
  BY <1>1, <1>2, <1>4

\* curl_easy_cleanup of the thread's handle.
LEMMA DestroyStep ==
    ASSUME HttpInv, NEW t \in Threads, Return(t), frame[t].handle # None,
           DestroyCurlHandle(frame[t].handle)
    PROVE  TypeOK' /\ PlaceInv' /\ OptionsInv' /\ NoBrokenHandleCached' /\ PoolBounded'
           /\ \A u \in Threads \ {t} : frame[u].handle # None =>
                 shareOf'[frame[u].handle] = shareOf[frame[u].handle]
<1> USE DEF HttpInv
<1> DEFINE h == frame[t].handle
<1>1. /\ h \in Handles /\ h \in Held /\ \A d \in Domains : h \notin Cached(d)
      /\ \A u \in Threads \ {t} : frame[u].handle # None =>
            frame[u].handle \in Handles /\ frame[u].handle # h
  BY PlaceFacts DEF PlaceInv
<1>2. /\ options' = [options EXCEPT ![h] = Blank] /\ shareOf' = [shareOf EXCEPT ![h] = None]
      /\ UNCHANGED cache
  BY DEF DestroyCurlHandle
<1>3. Held' = Held \ {h}
  BY LeaveFrame
<1> HIDE DEF h
<1>4. Blank \in CurlOptions
  BY DEF Blank, CurlOptions, Verbs
<1>5. /\ options' \in [Handles -> CurlOptions] /\ shareOf' \in [Handles -> Domains \cup {None}]
      /\ options'[h] = Blank /\ shareOf'[h] = None
      /\ \A g \in Handles \ {h} : options'[g] = options[g] /\ shareOf'[g] = shareOf[g]
  BY <1>1, <1>2, <1>4 DEF TypeOK
<1>6. \A d : Cached(d)' = Cached(d)
  BY <1>2 DEF Cached
<1>7. Live' = Live \ {h}
  BY <1>1, <1>5 DEF Live
<1>8. TypeOK'
  BY <1>2, <1>5, LeaveFrame DEF TypeOK
<1>9. PlaceInv'
  <2>1. \A u, v \in Threads : u # v /\ frame'[u].handle # None => frame'[u].handle # frame'[v].handle
    BY LeaveFrame, BlankFrame DEF PlaceInv
  <2>2. \A d \in Domains : \A g \in Cached(d)' : shareOf'[g] = d /\ g \notin Held'
    BY <1>1, <1>3, <1>5, <1>6, PlaceFacts DEF PlaceInv, Live
  <2>3. ASSUME NEW g \in Live'
        PROVE  g \in (Held \cup Cached(shareOf[g]))'
    <3>1. g \in Live /\ g # h /\ shareOf'[g] = shareOf[g]
      BY <1>5, <1>7, <2>3 DEF Live
    <3>2. g \in Held \cup Cached(shareOf[g])
      BY <3>1 DEF PlaceInv
    <3>3. Cached(shareOf[g])' = Cached(shareOf[g])
      BY <1>2, <3>1 DEF Cached
    <3> QED
      BY <1>3, <3>1, <3>2, <3>3
  <2> QED
    BY <1>2, <2>1, <2>2, <2>3 DEF PlaceInv
<1>10. OptionsInv'
  <2>1. \A u \in Threads \ {t} : Configured(u)' = Configured(u)
    BY LeaveFrame DEF Configured
  <2>2. \A g \in Handles \ Held' : options'[g] = Blank
    BY <1>3, <1>5 DEF OptionsInv
  <2>3. \A u \in Threads \ {t} :
           frame[u].handle \in Handles \ {h} \/ tpc[u] \notin {"configure", "perform"}
    BY <1>1 DEF FrameInv
  <2>4. ASSUME NEW u \in Threads \ {t}
        PROVE  /\ tpc'[u] = "configure" => options'[frame'[u].handle]
                                             = [Blank EXCEPT !.client = frame'[u].request.client]
               /\ tpc'[u] = "perform" => options'[frame'[u].handle] = Configured(u)'
    BY <1>5, <2>1, <2>3, LeaveFrame DEF OptionsInv
  <2> QED
    BY <2>2, <2>4, LeaveFrame DEF OptionsInv
<1>11. NoBrokenHandleCached'
  BY <1>6, LeaveFrame DEF BrokenInv, NoBrokenHandleCached
<1>12. PoolBounded'
  <2> SUFFICES ASSUME NEW d \in Domains
               PROVE  Cardinality({g \in Handles : shareOf'[g] = d}) <= Cardinality(Threads)
    BY DEF PoolBounded
  <2> DEFINE S == {g \in Handles : shareOf[g] = d}
             T == {g \in Handles : shareOf'[g] = d}
  <2>1. T \in SUBSET S /\ S \in SUBSET Handles
    BY <1>1, <1>5, DomainsAssumption
  <2>2. Cardinality(S) <= Cardinality(Threads)
    BY DEF PoolBounded
  <2> HIDE DEF S, T
  <2>3. IsFiniteSet(S)
    BY <2>1, HandlesAssumption, FS_Subset
  <2>4. Cardinality(T) <= Cardinality(S)
    BY <2>1, <2>3, FS_Subset
  <2>5. Cardinality(T) \in Nat /\ Cardinality(S) \in Nat /\ Cardinality(Threads) \in Nat
    BY <2>1, <2>3, ThreadsAssumption, FS_Subset, FS_CardinalityType
  <2>6. Cardinality(T) <= Cardinality(Threads)
    BY <2>2, <2>4, <2>5
  <2> QED
    BY <2>6 DEF T
<1> QED
  BY <1>1, <1>5, <1>8, <1>9, <1>10, <1>11, <1>12

\* The handle goes back, with its connection, to the stack of its domain.
LEMMA ReleaseStep ==
    ASSUME HttpInv, NEW t \in Threads, Return(t), frame[t].handle # None, frame[t].code = "ok",
           ReleaseCurlHandle(frame[t].request.domain, frame[t].handle)
    PROVE  TypeOK' /\ PlaceInv' /\ OptionsInv' /\ NoBrokenHandleCached' /\ PoolBounded'
           /\ UNCHANGED shareOf
<1> USE DEF HttpInv
<1> PICK h \in Handles, d \in Domains : h = frame[t].handle /\ d = frame[t].request.domain
  BY PlaceFacts
<1>1. /\ h \in Handles /\ h \in Held /\ d \in Domains /\ shareOf[h] = d /\ h \notin broken
      /\ \A e \in Domains : h \notin Cached(e)
      /\ \A u \in Threads \ {t} : frame[u].handle # None =>
            frame[u].handle \in Handles /\ frame[u].handle # h
  BY PlaceFacts DEF PlaceInv, FrameInv, BrokenInv
<1>2. ReleaseCurlHandle(d, h)
  OBVIOUS
<1>3. Held' = Held \ {h}
  BY LeaveFrame
<1>4. /\ cache' \in [Domains -> Seq(Handles)] /\ UNCHANGED shareOf
      /\ Cached(d)' = Cached(d) \cup {h}
      /\ \A e \in Domains \ {d} : Cached(e)' = Cached(e)
      /\ \A e \in Domains :
            \A i, j \in DOMAIN cache'[e] : cache'[e][i] = cache'[e][j] => i = j
  BY <1>1, <1>2, ReleaseCached
<1>5. \A e \in Domains : \A g : g \in Cached(e)' <=> g \in Cached(e) \/ (e = d /\ g = h)
  <2> TAKE e \in Domains
  <2>1. CASE e = d
    BY <1>4, <2>1
  <2>2. CASE e # d
    BY <1>4, <2>2
  <2> QED
    BY <2>1, <2>2
<1>6. Blank \in CurlOptions
  BY DEF Blank, CurlOptions, Verbs
<1>7. /\ options' \in [Handles -> CurlOptions] /\ options'[h] = Blank
      /\ \A g \in Handles \ {h} : options'[g] = options[g]
  BY <1>1, <1>2, <1>6 DEF TypeOK, ReleaseCurlHandle
<1>8. TypeOK'
  BY <1>4, <1>7, LeaveFrame DEF TypeOK
<1>9. PlaceInv'
  <2>1. \A u, v \in Threads : u # v /\ frame'[u].handle # None => frame'[u].handle # frame'[v].handle
    BY LeaveFrame, BlankFrame DEF PlaceInv
  <2>2. \A e \in Domains : \A g \in Cached(e)' : shareOf'[g] = e /\ g \notin Held'
    BY <1>1, <1>3, <1>4, <1>5 DEF PlaceInv
  <2>3. ASSUME NEW g \in Live'
        PROVE  g \in (Held \cup Cached(shareOf[g]))'
    <3>1. g \in Live /\ shareOf'[g] = shareOf[g] /\ shareOf[g] \in Domains
      BY <1>4, <2>3 DEF Live, TypeOK
    <3>2. g \in Held \cup Cached(shareOf[g])
      BY <3>1 DEF PlaceInv
    <3>3. \A e \in Domains : e = shareOf'[g] => Cached(shareOf[g])' = Cached(e)'
      BY DEF Cached
    <3> QED
      BY <1>1, <1>3, <1>5, <3>1, <3>2, <3>3
  <2> QED
    BY <1>4, <2>1, <2>2, <2>3 DEF PlaceInv
<1>10. OptionsInv'
  <2>1. \A u \in Threads \ {t} : Configured(u)' = Configured(u)
    BY LeaveFrame DEF Configured
  <2>2. \A g \in Handles \ Held' : options'[g] = Blank
    BY <1>3, <1>7 DEF OptionsInv
  <2>3. \A u \in Threads \ {t} :
           frame[u].handle \in Handles \ {h} \/ tpc[u] \notin {"configure", "perform"}
    BY <1>1 DEF FrameInv
  <2>4. ASSUME NEW u \in Threads \ {t}
        PROVE  /\ tpc'[u] = "configure" => options'[frame'[u].handle]
                                             = [Blank EXCEPT !.client = frame'[u].request.client]
               /\ tpc'[u] = "perform" => options'[frame'[u].handle] = Configured(u)'
    BY <1>7, <2>1, <2>3, LeaveFrame DEF OptionsInv
  <2> QED
    BY <2>2, <2>4, LeaveFrame DEF OptionsInv
<1>11. NoBrokenHandleCached'
  BY <1>1, <1>5, LeaveFrame DEF BrokenInv, NoBrokenHandleCached
<1>12. PoolBounded'
  BY <1>4 DEF PoolBounded
<1> QED
  BY <1>4, <1>8, <1>9, <1>10, <1>11, <1>12

\* A request that never got a handle.
LEMMA EmptyReturn ==
    ASSUME HttpInv, NEW t \in Threads, Return(t), frame[t].handle = None, UNCHANGED containerVars
    PROVE  TypeOK' /\ PlaceInv' /\ OptionsInv' /\ NoBrokenHandleCached' /\ PoolBounded'
           /\ UNCHANGED shareOf
<1> USE DEF HttpInv
<1>1. \A u \in Threads : frame'[u].handle = frame[u].handle
  BY LeaveFrame, BlankFrame
<1>2. /\ Held' = Held /\ PlaceInv' /\ PoolBounded'
      /\ \A d \in Domains : Cached(d)' = Cached(d)
  BY <1>1, SamePlaces
<1>3. TypeOK' /\ UNCHANGED shareOf
  BY LeaveFrame DEF TypeOK, containerVars
<1>4. OptionsInv'
  <2>1. \A u \in Threads \ {t} : Configured(u)' = Configured(u)
    BY LeaveFrame DEF Configured
  <2> QED
    BY <1>1, <1>2, <2>1, LeaveFrame DEF OptionsInv, containerVars
<1>5. NoBrokenHandleCached'
  BY <1>2, LeaveFrame DEF BrokenInv, NoBrokenHandleCached
<1> QED
  BY <1>2, <1>3, <1>4, <1>5

\* MakeRequest gives its handle up and returns.
LEMMA ReturnStep ==
    ASSUME HttpInv, NEW t \in Threads, Return(t)
    PROVE  HttpInv'
<1> USE DEF HttpInv
<1>1. tpc[t] = "return"
  BY LeaveFrame
<1>2. \/ frame[t].handle = None /\ UNCHANGED containerVars
      \/ frame[t].handle # None /\ DestroyCurlHandle(frame[t].handle)
      \/ /\ frame[t].handle # None /\ frame[t].code = "ok"
         /\ ReleaseCurlHandle(frame[t].request.domain, frame[t].handle)
  BY <1>1 DEF Return, FrameInv
<1>3. /\ TypeOK' /\ PlaceInv' /\ OptionsInv' /\ NoBrokenHandleCached' /\ PoolBounded'
      /\ \A u \in Threads \ {t} : frame[u].handle # None =>
            shareOf'[frame[u].handle] = shareOf[frame[u].handle]
  BY <1>2, EmptyReturn, DestroyStep, ReleaseStep
<1>4. FrameInv'
  BY <1>3, LeaveFrame, BlankFrame DEF FrameInv
<1>5. BrokenInv'
  BY <1>3, LeaveFrame, BlankFrame DEF BrokenInv
<1> QED
  BY <1>3, <1>4, <1>5

-----------------------------------------------------------------------------

\* The invariant holds before the first request.
LEMMA HttpInvInit == Init => HttpInv
<1> SUFFICES ASSUME Init
             PROVE  HttpInv
  OBVIOUS
<1>1. /\ cache = [d \in Domains |-> << >>] /\ shareOf = [h \in Handles |-> None]
      /\ options = [h \in Handles |-> Blank] /\ tpc = [t \in Threads |-> "idle"]
      /\ frame = [t \in Threads |-> NoFrame] /\ disabled = {} /\ broken = {}
  BY DEF Init, ContainerInit
<1>2. Blank \in CurlOptions
  BY DEF Blank, CurlOptions, Verbs
<1>3. Held = {} /\ Live = {} /\ \A d \in Domains : Cached(d) = {}
  BY <1>1, BlankFrame DEF Held, Live, Cached
<1>4. TypeOK /\ FrameInv
  BY <1>1, <1>2, BlankFrame DEF TypeOK, FrameInv
<1>5. PlaceInv /\ OptionsInv /\ BrokenInv
  BY <1>1, <1>3, BlankFrame DEF PlaceInv, OptionsInv, BrokenInv, NoBrokenHandleCached
<1>6. PoolBounded
  <2> SUFFICES ASSUME NEW d \in Domains
               PROVE  Cardinality({h \in Handles : shareOf[h] = d}) <= Cardinality(Threads)
    BY DEF PoolBounded
  <2>1. {h \in Handles : shareOf[h] = d} = {}
    BY <1>1, DomainsAssumption
  <2>2. Cardinality({h \in Handles : shareOf[h] = d}) = 0
    BY <2>1, FS_EmptySet
  <2> QED
    BY <2>2, ThreadsAssumption, FS_CardinalityType
<1> QED
  BY <1>4, <1>5, <1>6 DEF HttpInv

\* The invariant is inductive.
LEMMA HttpInvStep ==
    ASSUME HttpInv, [Next]_vars
    PROVE  HttpInv'
<1>1. ASSUME NEW t \in Threads, Step(t)
      PROVE  HttpInv'
  BY <1>1, HeaderStep, PerformStep, ClassifyStep, ConfigureStep, ReturnStep
     DEF Step, RefuseData, Transferred
<1> QED
  BY <1>1, MakeRequestStep, NotMadeStep, HeaderStep, DisableStep DEF Next

\* Two domains do not share a handle, since a handle has one share.
LEMMA PlacesApart ==
    ASSUME HttpInv
    PROVE  HandleInOnePlace
<1> USE DEF HttpInv
<1>1. \A d \in Domains : Cached(d) \cap Held = {}
  BY PlaceFacts
<1>2. \A d, e \in Domains : d # e => Cached(d) \cap Cached(e) = {}
  BY DEF PlaceInv
<1>3. ASSUME NEW d \in Domains
      PROVE  Cardinality(Cached(d)) = Len(cache[d])
  <2> DEFINE s == cache[d]
             n == Len(s)
  <2>1. s \in Seq(Handles) /\ n \in Nat /\ DOMAIN s = 1..n
    BY DEF TypeOK
  <2>2. \A i, j \in 1..n : s[i] = s[j] => i = j
    BY <2>1 DEF PlaceInv
  <2>3. Cached(d) = {s[i] : i \in 1..n}
    BY <2>1 DEF Cached
  <2> HIDE DEF s, n
  <2>4. [i \in 1..n |-> s[i]] \in Bijection(1..n, Cached(d))
    BY <2>2, <2>3 DEF Bijection, Injection, Surjection, IsInjective
  <2>5. ExistsBijection(1..n, Cached(d))
    BY <2>4 DEF ExistsBijection
  <2>6. Cardinality(Cached(d)) = n
    BY <2>1, <2>5, FS_CountingElements
  <2> QED
    BY <2>6 DEF n, s
<1>4. Live = Held \cup UNION {Cached(d) : d \in Domains}
  <2>1. \A h \in Live : shareOf[h] \in Domains
    BY DEF Live, TypeOK
  <2> QED
    BY <2>1, PlaceFacts DEF PlaceInv
<1>5. \A t, u \in Threads : t # u /\ frame[t].handle # None => frame[t].handle # frame[u].handle
  BY DEF PlaceInv
<1> QED
  BY <1>1, <1>2, <1>3, <1>4, <1>5 DEF HandleInOnePlace

\* The options that MakeRequest sets over those of a reset handle are enough.
LEMMA TransferOptions ==
    ASSUME HttpInv
    PROVE  OwnOptions
<1> USE DEF HttpInv
<1> SUFFICES ASSUME NEW t \in Threads, tpc[t] = "perform"
             PROVE  LET o == options[frame[t].handle]
                        r == frame[t].request IN
                    /\ Verb(o) = r.method
                    /\ o.nobody => r.method = "HEAD"
                    /\ o.client = r.client
                    /\ o.write = t
                    /\ o.read = IF r.body THEN t ELSE None
  BY DEF OwnOptions, At
<1> DEFINE o == options[frame[t].handle]
           r == frame[t].request
           b == [Blank EXCEPT !.client = r.client]
           m == SetMethod(b, r)
<1>1. r \in Requests /\ o = SetOptions(b, t, r)
  BY PlaceFacts DEF FrameInv, OptionsInv, Configured
<1>2. r.method \in Verbs /\ r.client \in Clients /\ r.body \in BOOLEAN
  BY <1>1, RequestsAssumption DEF Verbs
<1> HIDE DEF r, o
<1>3. /\ b \in CurlOptions /\ b.client = r.client /\ b.http = "GET" /\ b.custom = None
      /\ b.nobody = FALSE /\ b.read = None
  BY <1>2 DEF Blank, CurlOptions, Verbs
<1> HIDE DEF b
<1>4. /\ m.client = r.client /\ m.read = None /\ m \in CurlOptions
      /\ Verb(m) = r.method /\ (m.nobody => r.method = "HEAD")
  BY <1>2, <1>3, VerbAssumption DEF SetMethod, Verb, Verbs, CurlOptions
<1> HIDE DEF m
<1>5. o = [m EXCEPT !.write = t, !.read = IF r.body THEN t ELSE None]
  BY <1>1, <1>4 DEF SetOptions, m
<1>6. /\ Verb(o) = Verb(m) /\ o.nobody = m.nobody /\ o.client = m.client
      /\ o.write = t /\ o.read = IF r.body THEN t ELSE None
  BY <1>4, <1>5 DEF Verb, CurlOptions
<1> QED
  BY <1>4, <1>6 DEF o, r

\* The invariant holds for any number of threads, handles, domains and requests.
THEOREM HttpClientInvariant == Spec => []HttpInv
BY HttpInvInit, HttpInvStep, PTL DEF Spec

\* No two threads ever have the same CURL handle, and no handle is lost.
THEOREM OneOwner == Spec => []HandleInOnePlace
BY HttpClientInvariant, PlacesApart, PTL

\* curl_easy_reset and the options MakeRequest sets leave nothing to the next
\* request, in particular no pointer to a stack frame that is gone.
THEOREM NothingLeftBehind == Spec => []OwnOptions
BY HttpClientInvariant, TransferOptions, PTL

\* A handle whose transfer failed never gets back into the cache, whatever the
\* response says.
THEOREM BrokenAreDestroyed == Spec => []NoBrokenHandleCached
<1>1. HttpInv => NoBrokenHandleCached
  BY DEF HttpInv, BrokenInv
<1> QED
  BY <1>1, HttpClientInvariant, PTL

\* Whatever succeeds or fails, a domain never has more handles than there are
\* threads: one is created only when all others are in use.
THEOREM CacheBounded == Spec => []PoolBounded
<1>1. HttpInv => PoolBounded
  BY DEF HttpInv
<1> QED
  BY <1>1, HttpClientInvariant, PTL

=============================================================================
