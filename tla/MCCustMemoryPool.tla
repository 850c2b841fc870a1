-------------------------- MODULE MCCustMemoryPool --------------------------
(***************************************************************************)
(* Thresholds of 4 and 8 on pages of 4: sizes 1 to 3 are small, 4 to 7     *)
(* medium, and the rest huge.                                              *)
(***************************************************************************)
EXTENDS CustMemoryPool

MCBuilds == {"runway", "pool"}
MCRunway == {"runway"}
MCPool == {"pool"}

\* In the runway build every class of size, 10 and 11 within one page.  In the
\* block build no reallocation to size 0.
MCReallocSizes == [runway |-> {0, 2, 4, 8, 10, 11}, pool |-> {2, 4, 8, 10}]
MCPositive == [runway |-> {2, 4, 8}]
MCWithinPage == [runway |-> {2, 8, 10, 11}]

MCSymmetry == Permutations(Buffers) \cup Permutations(Addresses)

=============================================================================
