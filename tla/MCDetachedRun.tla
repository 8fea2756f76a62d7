--------------------------- MODULE MCDetachedRun ---------------------------
(* Instances of DetachedRun for TLC: model values for callers and processes. *)
EXTENDS DetachedRunRefinement, TLC

CallerSymmetry == Permutations(Clients)
=============================================================================
