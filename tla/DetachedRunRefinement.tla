----------------------- MODULE DetachedRunRefinement -----------------------
(* DetachedRun implements RunContract: the work is Agy's process tree. *)
EXTENDS DetachedRun

Work ==
    IF proc[Agy] = "unborn" THEN "none" ELSE IF Quiet THEN "over" ELSE "live"

Contract == INSTANCE RunContract WITH
    status <- state.status,
    cleanup_pending <- state.cleanup_pending,
    work <- Work

\* Every step of the starter, the worker and the callers is a step the contract
\* of a run allows, or changes nothing the contract speaks of.
ImplementsContract == Contract!Spec
=============================================================================
