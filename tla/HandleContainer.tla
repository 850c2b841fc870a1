-------------------------- MODULE HandleContainer --------------------------
(***************************************************************************)
(* Buzz::Http::CurlHandleContainer (aws/curl/HandleContainer.cpp) and the  *)
(* static DomainHandleCache behind every instance of it: for each domain a *)
(* stack of idle CURL handles, each with its own live connection.          *)
(*                                                                         *)
(* A member function touches the cache in one critical section; what it    *)
(* does before or after concerns a handle that its thread alone can see,   *)
(* and belongs to the same step.  The module that EXTENDS this one says    *)
(* who calls what.                                                         *)
(***************************************************************************)
EXTENDS Integers, Sequences, FiniteSets

CONSTANTS
    Domains,  \* the authorities requests go to
    Handles,  \* the addresses curl_easy_init may return
    None      \* no domain, no client, no thread, no handle

ASSUME DomainsAssumption == None \notin Domains
ASSUME HandlesAssumption == IsFiniteSet(Handles) /\ None \notin Handles

VARIABLES
    cache,   \* cache_[d].handles, the top of the stack last
    shareOf, \* each handle: the domain whose CURLSH it uses; None: no such handle
    options  \* each handle: the options curl remembers for it

containerVars == <<cache, shareOf, options>>

\* The options of a handle that is new, or was reset.
Blank == [client |-> None, http |-> "GET", custom |-> None, nobody |-> FALSE,
          write |-> None, read |-> None]

\* Handles that were created and not cleaned up.
Live == {h \in Handles : shareOf[h] # None}

ContainerInit ==
    /\ cache = [d \in Domains |-> << >>]
    /\ shareOf = [h \in Handles |-> None]
    /\ options = [h \in Handles |-> Blank]

\* Mutant of Reuse: back() without pop_back().
ReuseWithoutPop(d, h) ==
    /\ cache[d] # << >>
    /\ h = cache[d][Len(cache[d])]
    /\ UNCHANGED <<cache, shareOf>>

\* DomainHandleCache::acquire finds a handle ...
Reuse(d, h) ==
    /\ cache[d] # << >>
    /\ h = cache[d][Len(cache[d])]
    /\ cache' = [cache EXCEPT ![d] = SubSeq(@, 1, Len(@) - 1)]
    /\ UNCHANGED shareOf

\* Mutant of Create: a new handle although some are cached.
CreateAlways(d, h) ==
    /\ h \in Handles \ Live
    /\ shareOf' = [shareOf EXCEPT ![h] = d]
    /\ UNCHANGED cache

\* ... or creates one, however many there are already.
Create(d, h) ==
    /\ cache[d] = << >>
    /\ h \in Handles \ Live
    /\ shareOf' = [shareOf EXCEPT ![h] = d]
    /\ UNCHANGED cache

\* AcquireCurlHandle for client c, default options included.
AcquireCurlHandle(d, c, h) ==
    /\ Reuse(d, h) \/ Create(d, h)
    /\ options' = [options EXCEPT ![h].client = c]

\* curl_easy_init returns NULL, and so does AcquireCurlHandle.
AcquireNull(d) == cache[d] = << >> /\ UNCHANGED containerVars

\* Mutant of ReleaseCurlHandle: no curl_easy_reset.
ReleaseWithoutReset(d, h) ==
    /\ cache' = [cache EXCEPT ![d] = Append(@, h)]
    /\ UNCHANGED <<shareOf, options>>

\* curl_easy_reset, which keeps the share and the connection, and release.
ReleaseCurlHandle(d, h) ==
    /\ options' = [options EXCEPT ![h] = Blank]
    /\ cache' = [cache EXCEPT ![d] = Append(@, h)]
    /\ UNCHANGED shareOf

\* curl_easy_cleanup.
DestroyCurlHandle(h) ==
    /\ options' = [options EXCEPT ![h] = Blank]
    /\ shareOf' = [shareOf EXCEPT ![h] = None]
    /\ UNCHANGED cache

=============================================================================
