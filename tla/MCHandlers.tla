----------------------------- MODULE MCHandlers -----------------------------
(***************************************************************************)
(* Two workers, two inits, three chunks.  The chunks are alike, so a file  *)
(* needs only one set of each size.                                        *)
(***************************************************************************)
EXTENDS Handlers

CONSTANTS i1, i2, d1, d2, d3

MCBatches == {{i1, i2}}
MCFiles == {{}, {d1}, {d1, d2}, {d1, d2, d3}}

=============================================================================
