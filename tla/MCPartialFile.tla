--------------------------- MODULE MCPartialFile ---------------------------
(***************************************************************************)
(* Objects of at most a few bytes; every range and every read of them.     *)
(***************************************************************************)
EXTENDS PartialFile

=============================================================================
