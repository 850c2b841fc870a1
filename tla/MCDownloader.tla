---------------------------- MODULE MCDownloader ----------------------------
(***************************************************************************)
(* Model values for the inits of one Downloader.                           *)
(***************************************************************************)
EXTENDS Downloader

CONSTANTS i1, i2, i3, j1

\* A call that fills the pool, and a smaller one.
MCBatches == {{i1, i2, i3}, {j1}}

=============================================================================
