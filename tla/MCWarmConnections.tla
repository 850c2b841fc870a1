------------------------- MODULE MCWarmConnections -------------------------
(***************************************************************************)
(* Two batches of inits, one download, one bucket.                         *)
(***************************************************************************)
EXTENDS WarmConnections, TLC

CONSTANTS i1, i2, j1, j2, bucket

MCBatches == {{i1, i2}, {j1, j2}}

MCSymmetry == Permutations(Handles) \cup Permutations({i1, i2}) \cup Permutations({j1, j2})

=============================================================================
