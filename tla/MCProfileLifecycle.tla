------------------------- MODULE MCProfileLifecycle -------------------------
(* Instances of ProfileLifecycle for TLC: model values for the processes. *)
EXTENDS ProfileLifecycle, TLC

ProcessSymmetry == Permutations(Ops \ Watched) \cup Permutations(Admins)
=============================================================================
