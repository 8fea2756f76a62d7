------------------------- MODULE WatchRunRefinement -------------------------
(* WatchRun implements WatchContract: the work is magy.cli and its Agy. *)
EXTENDS WatchRun

Place(w) ==
    IF starter[w] \in {"idle", "lease"} THEN "asked"
    ELSE IF Admitted(w) THEN "admitted" ELSE "given up"

WatchedContract == INSTANCE WatchContract WITH
    MayReopen <- LateLaunchErrors,
    place <- [w \in Watches |-> Place(w)],
    work <- agy

\* Whatever starters, runners, monitors, callers and panes do in whatever order,
\* every step is one the contract of a repository's watches allows, or changes
\* nothing that it speaks of.
ImplementsWatchContract == WatchedContract!Spec
=============================================================================
