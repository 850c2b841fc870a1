---------------------------- MODULE MCHttpClient ----------------------------
(***************************************************************************)
(* Two threads; downloads and inits of two clients, to two domains.        *)
(***************************************************************************)
EXTENDS HttpClient, TLC

CONSTANTS s3, other, dl, init

Req(c, d, m, l, b) == [client |-> c, domain |-> d, method |-> m, length |-> l, body |-> b]

\* The requests of the Downloader to its bucket, and to another domain the
\* verbs that change most of what curl remembers.
MCRequests ==
    {Req(dl, s3, "GET", "none", FALSE), Req(init, s3, "DELETE", "none", FALSE),
     Req(dl, other, "HEAD", "none", FALSE), Req(dl, other, "PATCH", "some", TRUE)}

MCSymmetry == Permutations(Handles) \cup Permutations(Threads)

=============================================================================
