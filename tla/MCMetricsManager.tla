-------------------------- MODULE MCMetricsManager --------------------------
(***************************************************************************)
(* A few threads, phases and ticks of the clock.                           *)
(***************************************************************************)
EXTENDS MetricsManager

=============================================================================
