----------------------------- MODULE MCWatchRun -----------------------------
(* Instances of WatchRun for TLC: model values for watches and callers. *)
EXTENDS WatchRunRefinement, TLC

WatchSymmetry == Permutations(Watches) \cup Permutations(Clients)
=============================================================================
