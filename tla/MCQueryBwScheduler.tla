------------------------- MODULE MCQueryBwScheduler -------------------------
(***************************************************************************)
(* NB_INVOKE = 3 on NB_PARALLEL = 2; two retries per invocation.           *)
(***************************************************************************)
EXTENDS QueryBwScheduler

CONSTANT lambda

=============================================================================
